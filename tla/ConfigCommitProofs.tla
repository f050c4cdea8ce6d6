------------------------- MODULE ConfigCommitProofs -------------------------
(***************************************************************************)
(* Theorems about ConfigCommit, for any number of processes, files,        *)
(* connections, drafts and receipts and any number of faults.              *)
(***************************************************************************)
EXTENDS ConfigCommit, TLAPS

JournalType == [Receipt -> ReceiptRec \cup {None}]

\* Where the holder works on the receipt mem.rcpt.
RcptControl == Control \ {"idle", "recover", "plan", "prepare"}
\* ... on behalf of the job it was asked to do, not of recovery.
JobControl == {"check", "cas", "write", "written", "local", "commit", "complete", "restore"}
RollbackControl == {"rbRead", "rbWrite", "rbSave"}

\* The receipt in hand is the one the job prepared.
OfJob ==
  /\ job.kind = "apply" => Txn.undoOf = None /\ Txn.ctx # None
  /\ job.kind = "undo" => Txn.undoOf = job.target
  /\ job.kind = "plain" => Txn.undoOf = None /\ Txn.ctx = None
  /\ job.kind \in {"apply", "undo", "plain"}

\* What a receipt undoes is an application.
UndoesAnApply ==
  \A r \in Receipt : journal[r] # None /\ journal[r].undoOf # None =>
    /\ journal[r].ctx = None
    /\ journal[journal[r].undoOf] # None /\ journal[journal[r].undoOf].ctx # None

JobOK ==
  /\ job.kind = "apply" => job.draft \in Draft
  /\ job.kind = "undo" => /\ job.target \in Receipt /\ journal[job.target] # None
                          /\ journal[job.target].ctx # None
  /\ job.kind = "plain" => job.cfg \in Cfg /\ ~Builtin
  /\ pc # "idle" => guard \in Proc

\* What the code relies on at each place without checking it there.
ControlOK ==
  /\ JobOK
  /\ pc = "prepare" =>
       /\ mem.rec # None /\ mem.rcpt = None
       /\ job.kind = "apply" => mem.rec.undoOf = None /\ mem.rec.ctx # None
       /\ job.kind = "undo" => mem.rec.undoOf = job.target /\ mem.rec.ctx = None
       /\ job.kind = "plain" => mem.rec.undoOf = None /\ mem.rec.ctx = None
       /\ job.kind \in {"apply", "undo", "plain"}
  /\ pc = "plan" => job.kind \in {"apply", "undo", "plain"} /\ mem.rcpt = None
  /\ pc \in RcptControl => mem.rcpt \in Receipt /\ journal[mem.rcpt] # None
  /\ pc \in {"cas", "write", "rbRead", "rbWrite"} => mem.idx \in File
  /\ pc \in JobControl => OfJob
  /\ pc \in RollbackControl => mem.caller # "none" /\ (mem.caller # "recover" => OfJob)
  /\ pc \in RollbackControl /\ mem.caller = "commit" => job.kind # "plain"
  /\ pc \in {"local", "commit", "restore"} => job.kind # "plain"
  /\ pc = "recLocal" => CtxOf(mem.rcpt) # None
  /\ pc = "markUndone" => Txn.undoOf # None

TypeInv == TypeOK /\ UndoesAnApply /\ ControlOK

-----------------------------------------------------------------------------
(* Type correctness *)

\* Persist changes one field of one record.
LEMMA PersistFacts ==
  ASSUME journal \in JournalType, NEW r \in Receipt, journal[r] # None,
         NEW state \in ApplyState, NEW io \in IO, Persist(r, state, io)
  PROVE  /\ journal' \in JournalType
         /\ \A x \in Receipt : x # r => journal'[x] = journal[x]
         /\ journal'[r] # None
         /\ journal'[r].ctx = journal[r].ctx
         /\ journal'[r].undoOf = journal[r].undoOf
         /\ journal'[r].before = journal[r].before
         /\ journal'[r].after = journal[r].after
         /\ journal'[r].undoable = journal[r].undoable
         /\ journal'[r].state = IF io = "fail" THEN journal[r].state ELSE state
  BY NoneIsNoRecord DEF Persist, JournalType, ReceiptRec

LEMMA WriteFileType ==
  ASSUME live \in Cfg, NEW i \in File, NEW bytes \in Bytes, NEW io \in IO,
         WriteFile(i, bytes, io)
  PROVE  live' \in Cfg
  BY DEF WriteFile, Cfg

LEMMA SetDeviceType ==
  ASSUME device \in Conn \cup {None}, cache \in [Proc -> Conn \cup {None}],
         NEW p \in Proc, NEW c \in Conn \cup {None}, NEW io \in IO, SetDevice(p, c, io)
  PROVE  device' \in Conn \cup {None} /\ cache' \in [Proc -> Conn \cup {None}]
  BY DEF SetDevice

LEMMA SpendType ==
  ASSUME faults \in 0 .. MaxFaults, NEW io \in IO, Spend(io)
  PROVE  faults' \in 0 .. MaxFaults
  BY ConfigConstants DEF Spend

\* Initially nothing is applied and nobody works.
LEMMA TypeInit == Init => TypeInv
<1> SUFFICES ASSUME Init PROVE TypeInv
  OBVIOUS
<1>1. InitConns[InitCurrent] \in Cfg /\ InitCurrent \in Conn
      /\ InitConns \in [Conn -> Cfg \cup {None}] /\ Builtin \in BOOLEAN
  BY ConfigConstants
<1>2. job \in Job /\ mem \in Mem
  BY DEF Init, NoJob, NoMem, Job, Mem, DriftPolicy, Caller
<1>3. faults \in 0 .. MaxFaults /\ edits \in 0 .. MaxEdits
  BY ConfigConstants DEF Init
<1>4. device \in Conn \cup {None} /\ cache \in [Proc -> Conn \cup {None}]
  BY <1>1 DEF Init
<1>5. /\ live \in Cfg /\ journal \in [Receipt -> ReceiptRec \cup {None}]
      /\ conns \in [Conn -> Cfg \cup {None}] /\ dbCur \in Conn \cup {None}
      /\ head \in Receipt \cup {None} /\ drafts \in [Draft -> DraftRec \cup {None}]
      /\ seen \in [Proc -> Intent \cup {None}] /\ guard \in Proc \cup {None}
  BY <1>1 DEF Init
<1>6. pc \in Control /\ outcome \in Outcome /\ unrestored \in BOOLEAN
  BY DEF Init, Control, Outcome
<1>7. TypeOK
  BY <1>2, <1>3, <1>4, <1>5, <1>6 DEF TypeOK
<1>8. UndoesAnApply
  BY DEF Init, UndoesAnApply
<1>9. ControlOK
  BY DEF Init, NoJob, ControlOK, JobOK, RcptControl, JobControl, RollbackControl
<1> QED
  BY <1>7, <1>8, <1>9 DEF TypeInv

\* Taking the lock.
LEMMA TypeBegin ==
  ASSUME TypeInv, NEW p \in Proc, NEW j \in Job, Begin(p, j), j.kind # "none",
         j.kind = "apply" => j.draft \in Draft,
         j.kind = "undo" => /\ j.target \in Receipt /\ journal[j.target] # None
                            /\ journal[j.target].ctx # None,
         j.kind = "plain" => j.cfg \in Cfg /\ ~Builtin
  PROVE  TypeInv'
  BY DEF Begin, durable, TypeInv, TypeOK, UndoesAnApply, ControlOK, JobOK, RcptControl, JobControl,
         RollbackControl, Mem, NoMem, Control, Outcome, Caller, OfJob, CtxOf, Txn

-----------------------------------------------------------------------------
(* Steps of the holder *)

\* Receipts keep what they are; only their state moves.
SameReceipts ==
  \A x \in Receipt : /\ journal'[x] = None <=> journal[x] = None
                     /\ journal[x] # None => /\ journal'[x].ctx = journal[x].ctx
                                             /\ journal'[x].undoOf = journal[x].undoOf

LEMMA PersistKeeps ==
  ASSUME journal \in JournalType, NEW r \in Receipt, journal[r] # None,
         NEW state \in ApplyState, NEW io \in IO, Persist(r, state, io)
  PROVE  journal' \in JournalType /\ SameReceipts
  BY PersistFacts DEF SameReceipts

LEMMA UnchangedKeeps ==
  ASSUME journal \in JournalType, UNCHANGED journal
  PROVE  journal' \in JournalType /\ SameReceipts
  BY DEF SameReceipts

LEMMA UndoesKept ==
  ASSUME journal \in JournalType, UndoesAnApply, SameReceipts
  PROVE  UndoesAnApply'
  BY NoneIsNoRecord DEF SameReceipts, UndoesAnApply, JournalType, ReceiptRec

\* The context recovery reads is a context.
LEMMA CtxType ==
  ASSUME TypeInv, NEW r \in Receipt, journal[r] # None
  PROVE  CtxOf(r) \in Context \cup {None}
  BY NoneIsNoRecord DEF TypeInv, TypeOK, UndoesAnApply, CtxOf, ReceiptRec

\* Whoever was asked to do something is still asked to.
LEMMA JobKept ==
  ASSUME TypeInv, SameReceipts, UNCHANGED <<guard, job>>, pc # "idle"
  PROVE  JobOK'
  BY DEF TypeInv, TypeOK, ControlOK, JobOK, SameReceipts, Job

\* A function that returns leaves nothing behind.
LEMMA Returns ==
  ASSUME TypeInv, SameReceipts, journal' \in JournalType, NEW o \in Outcome, Finish(o)
  PROVE  /\ UndoesAnApply' /\ ControlOK'
         /\ guard' \in Proc \cup {None} /\ pc' \in Control /\ job' \in Job
         /\ mem' \in Mem /\ outcome' \in Outcome
<1>1. UndoesAnApply'
  BY UndoesKept DEF TypeInv, TypeOK, JournalType
<1>2. ControlOK'
  BY DEF Finish, NoJob, ControlOK, JobOK, RcptControl, JobControl, RollbackControl
<1>3. job' \in Job /\ mem' \in Mem
  BY DEF Finish, NoJob, NoMem, Job, Mem, DriftPolicy, Caller
<1> QED
  BY <1>1, <1>2, <1>3 DEF Finish, Control

\* A step that keeps the receipt in hand and goes where it may.
MoveOK ==
  /\ pc \in RcptControl /\ pc' \in RcptControl /\ UNCHANGED <<guard, job, outcome>>
  /\ mem' \in Mem /\ mem'.rcpt = mem.rcpt
  /\ pc' \in {"cas", "write", "rbRead", "rbWrite"} => mem'.idx \in File
  /\ pc' \in JobControl => OfJob
  /\ pc' \in RollbackControl => mem'.caller # "none" /\ (mem'.caller # "recover" => OfJob)
  /\ pc' \in RollbackControl /\ mem'.caller = "commit" => job.kind # "plain"
  /\ pc' \in {"local", "commit", "restore"} => job.kind # "plain"
  /\ pc' = "recLocal" => CtxOf(mem.rcpt) # None
  /\ pc' = "markUndone" => Txn.undoOf # None

LEMMA Moves ==
  ASSUME TypeInv, SameReceipts, journal' \in JournalType, MoveOK
  PROVE  /\ UndoesAnApply' /\ ControlOK'
         /\ guard' \in Proc \cup {None} /\ pc' \in Control /\ job' \in Job
         /\ mem' \in Mem /\ outcome' \in Outcome
<1> USE DEF MoveOK
<1>1. mem.rcpt \in Receipt /\ journal[mem.rcpt] # None
  BY DEF TypeInv, ControlOK
<1>2. /\ journal'[mem'.rcpt] # None
      /\ journal'[mem'.rcpt].undoOf = journal[mem.rcpt].undoOf
      /\ journal'[mem'.rcpt].ctx = journal[mem.rcpt].ctx
  BY <1>1 DEF SameReceipts
<1>3. UndoesAnApply'
  BY UndoesKept DEF TypeInv, TypeOK, JournalType
<1>4. JobOK'
  BY JobKept DEF RcptControl
<1>5. OfJob => OfJob'
  BY <1>2 DEF OfJob, Txn
<1>6. CtxOf(mem.rcpt) # None => CtxOf(mem.rcpt)' # None
  <2>1. CASE journal[mem.rcpt].undoOf # None
    BY <2>1, <1>1, <1>2, NoneIsNoRecord
       DEF TypeInv, TypeOK, UndoesAnApply, SameReceipts, CtxOf, ReceiptRec
  <2>2. CASE journal[mem.rcpt].undoOf = None
    BY <2>2, <1>2 DEF CtxOf
  <2> QED
    BY <2>1, <2>2
<1>7. Txn.undoOf # None => Txn'.undoOf # None
  BY <1>2 DEF Txn
<1>8. ControlOK'
  BY <1>1, <1>2, <1>4, <1>5, <1>6, <1>7 DEF ControlOK, RcptControl
<1>9. pc' \in Control
  BY DEF RcptControl
<1> QED
  BY <1>3, <1>8, <1>9 DEF TypeInv, TypeOK

-----------------------------------------------------------------------------
(* Each kind of step *)

\* The facts every step starts from.
LEMMA InHand ==
  ASSUME TypeInv, pc \in RcptControl
  PROVE  /\ mem.rcpt \in Receipt /\ journal[mem.rcpt] # None
         /\ Txn \in ReceiptRec /\ guard \in Proc
         /\ CtxOf(mem.rcpt) \in Context \cup {None}
         /\ mem \in Mem /\ journal \in JournalType
<1>1. mem.rcpt \in Receipt /\ journal[mem.rcpt] # None
  BY DEF TypeInv, ControlOK
<1>2. guard \in Proc
  BY DEF TypeInv, ControlOK, JobOK, RcptControl
<1> QED
  BY <1>1, <1>2, CtxType DEF TypeInv, TypeOK, Txn, JournalType

\* What recovery does before it touches anything.
LEMMA TypeRecover ==
  ASSUME TypeInv,
         NoPending \/ PlainRefused \/ RecVerify \/ \E r \in Receipt : RecoverReceipt(r)
  PROVE  TypeInv'
<1> USE DEF durable
<1>0. /\ TypeOK /\ journal \in JournalType /\ SameReceipts
      /\ UNCHANGED <<live, journal, conns, dbCur, head, drafts, device, cache, seen,
                     unrestored, faults, edits>>
  BY UnchangedKeeps
     DEF TypeInv, TypeOK, JournalType, NoPending, PlainRefused, RecVerify, RecoverReceipt
<1>1. CASE NoPending /\ job.kind # "recover"
  <2>1. /\ pc' = "plan" /\ mem' = NoMem /\ job.kind \in {"apply", "undo", "plain"}
        /\ UNCHANGED <<guard, job, outcome>> /\ pc = "recover"
    BY <1>1 DEF NoPending, Goto, At, Finish
  <2>2. UndoesAnApply' /\ JobOK'
    BY <1>0, <2>1, JobKept, UndoesKept DEF TypeInv
  <2>3. ControlOK'
    BY <2>1, <2>2
       DEF ControlOK, NoMem, RcptControl, JobControl, RollbackControl
  <2>4. mem' \in Mem /\ pc' \in Control
    BY <2>1 DEF NoMem, Mem, Caller, Control
  <2> QED
    BY <1>0, <2>1, <2>2, <2>3, <2>4 DEF TypeInv, TypeOK
<1>2. ASSUME NEW o \in Outcome, Finish(o) PROVE TypeInv'
  BY <1>0, <1>2, Returns DEF TypeInv, TypeOK, JournalType
<1>3. CASE NoPending /\ job.kind = "recover"
  BY <1>2, <1>3 DEF NoPending, Goto, Outcome
<1>4. CASE PlainRefused
  BY <1>2, <1>4 DEF PlainRefused, Outcome
<1>5. CASE RecVerify
  <2>1. CASE Finish("blocked")
    BY <1>2, <2>1 DEF Outcome
  <2>2. CASE Goto("recComplete") /\ UNCHANGED mem
    <3>1. pc = "recVerify" /\ pc' = "recComplete" /\ UNCHANGED <<guard, job, outcome, mem>>
      BY <1>5, <2>2 DEF RecVerify, At, Goto
    <3>2. pc \in RcptControl /\ pc' \in RcptControl /\ mem' \in Mem
      BY <1>0, <3>1 DEF RcptControl, Control, TypeOK
    <3>3. pc' \notin JobControl \cup RollbackControl
      BY <3>1 DEF JobControl, RollbackControl
    <3>4. MoveOK
      BY <3>1, <3>2, <3>3 DEF MoveOK
    <3>5. UndoesAnApply' /\ ControlOK'
      BY <1>0, <3>4, Moves
    <3> QED
      BY <1>0, <3>1, <3>2, <3>5 DEF TypeInv, TypeOK, RcptControl
  <2> QED
    BY <1>5, <2>1, <2>2 DEF RecVerify
<1>6. ASSUME NEW r \in Receipt, RecoverReceipt(r) PROVE TypeInv'
  <2>1. CASE Finish("blocked")
    BY <1>2, <2>1 DEF Outcome
  <2>2. CASE ~Finish("blocked")
    <3>0. /\ pc' \in {"recVerify", "flag", "rbRead"} /\ UNCHANGED <<guard, job, outcome>>
          /\ pc = "recover" /\ journal[r] # None
          /\ \E i \in {0, NFiles} :
               /\ mem' = [rcpt |-> r, rec |-> None, idx |-> i, bad |-> FALSE,
                          caller |-> "recover"]
               /\ pc' = "rbRead" => i = NFiles
      BY <1>6, <2>2 DEF RecoverReceipt, Goto, NoMem, At, Pending
    <3>1. /\ mem'.rcpt = r /\ mem' \in Mem /\ mem'.caller = "recover"
          /\ pc' = "rbRead" => mem'.idx \in File
      BY <3>0, ConfigConstants DEF Mem, Caller, File
    <3>2. UndoesAnApply' /\ JobOK'
      BY <1>0, <3>0, JobKept, UndoesKept DEF TypeInv
    <3>3. ControlOK'
      BY <1>0, <3>0, <3>1, <3>2
         DEF ControlOK, RcptControl, JobControl, RollbackControl
    <3>4. pc' \in Control
      BY <3>0 DEF Control
    <3> QED
      BY <1>0, <3>0, <3>1, <3>2, <3>3, <3>4 DEF TypeInv, TypeOK
  <2> QED
    BY <2>1, <2>2
<1> QED
  BY <1>1, <1>3, <1>4, <1>5, <1>6 DEF NoPending, Goto

\* The part of TypeOK that is not the holder's.
DataOK ==
  /\ live \in Cfg
  /\ conns \in [Conn -> Cfg \cup {None}]
  /\ dbCur \in Conn \cup {None}
  /\ head \in Receipt \cup {None}
  /\ drafts \in [Draft -> DraftRec \cup {None}]
  /\ device \in Conn \cup {None}
  /\ cache \in [Proc -> Conn \cup {None}]
  /\ seen \in [Proc -> Intent \cup {None}]
  /\ unrestored \in BOOLEAN
  /\ faults \in 0 .. MaxFaults
  /\ edits \in 0 .. MaxEdits

Returning == \E o \in Outcome : Finish(o)

\* A step of the holder keeps the invariant if it keeps the data typed and either
\* returns or moves on.
LEMMA HolderStep ==
  ASSUME TypeInv, SameReceipts, journal' \in JournalType, DataOK', Returning \/ MoveOK
  PROVE  TypeInv'
<1>1. /\ UndoesAnApply' /\ ControlOK'
      /\ guard' \in Proc \cup {None} /\ pc' \in Control /\ job' \in Job
      /\ mem' \in Mem /\ outcome' \in Outcome
  BY Returns, Moves DEF Returning
<1> QED
  BY <1>1 DEF TypeInv, TypeOK, DataOK, JournalType

\* What a step knows where it holds a receipt.
LEMMA HolderData ==
  ASSUME TypeInv
  PROVE  DataOK /\ journal \in JournalType /\ NFiles \in Nat /\ NFiles >= 1
  BY ConfigConstants DEF TypeInv, TypeOK, DataOK, JournalType

\* A rollback starts from the last file.
LEMMA StartsRollback ==
  ASSUME TypeInv, pc \in RcptControl, NEW c \in {"apply", "commit"}, StartRollback(c),
         OfJob, c = "commit" => job.kind # "plain"
  PROVE  MoveOK
<1>1. mem' \in Mem /\ mem'.idx = NFiles /\ mem'.caller = c /\ mem'.rcpt = mem.rcpt
  BY InHand, HolderData DEF StartRollback, Mem, Caller
<1>2. pc' = "rbRead" /\ UNCHANGED <<guard, job, outcome>>
  BY DEF StartRollback, Goto
<1>3. NFiles \in File
  BY HolderData DEF File
<1>4. pc' \in RcptControl
  BY <1>2 DEF RcptControl, Control
<1>5. pc' \notin JobControl
  BY <1>2 DEF JobControl
<1> QED
  BY <1>1, <1>2, <1>3, <1>4, <1>5 DEF MoveOK

\* Recovery goes on with the next receipt.
LEMMA BackToRecover ==
  ASSUME TypeInv, SameReceipts, journal' \in JournalType, DataOK',
         pc \in RcptControl, Goto("recover"), UNCHANGED mem
  PROVE  TypeInv'
<1>1. pc' = "recover" /\ UNCHANGED <<guard, job, outcome, mem>> /\ pc # "idle"
  BY DEF Goto, RcptControl
<1>2. UndoesAnApply' /\ JobOK'
  BY <1>1, JobKept, UndoesKept, HolderData DEF TypeInv
<1>3. ControlOK'
  BY <1>1, <1>2 DEF ControlOK, RcptControl, JobControl, RollbackControl
<1>4. pc' \in Control
  BY <1>1 DEF Control
<1> QED
  BY <1>1, <1>2, <1>3, <1>4 DEF TypeInv, TypeOK, DataOK, JournalType

LEMMA TypeCas == TypeInv /\ Cas => TypeInv'
<1> SUFFICES ASSUME TypeInv, Cas PROVE TypeInv'
  OBVIOUS
<1>1. pc = "cas" /\ pc \in RcptControl /\ OfJob /\ mem.idx \in File
  BY DEF Cas, At, RcptControl, Control, TypeInv, ControlOK, JobControl
<1>2. SameReceipts /\ journal' \in JournalType /\ DataOK'
  BY HolderData, UnchangedKeeps DEF Cas, durable, DataOK
<1>3. CASE Goto("write") /\ UNCHANGED mem
  <2>1. MoveOK
    BY <1>1, <1>3, InHand
       DEF Goto, MoveOK, RcptControl, Control, RollbackControl, JobControl
  <2> QED
    BY <1>2, <2>1, HolderStep
<1>4. CASE StartRollback("apply")
  BY <1>1, <1>2, <1>4, StartsRollback, HolderStep
<1> QED
  BY <1>3, <1>4 DEF Cas

LEMMA TypeWrite == ASSUME TypeInv, NEW io \in IO, Write(io) PROVE TypeInv'
<1>1. pc = "write" /\ pc \in RcptControl /\ OfJob /\ mem.idx \in File
  BY DEF Write, At, RcptControl, Control, TypeInv, ControlOK, JobControl
<1>2. SameReceipts /\ journal' \in JournalType
  BY HolderData, UnchangedKeeps DEF Write
<1>3. live' \in Cfg
  <2>1. Txn.after[mem.idx] \in Bytes
    BY <1>1, InHand DEF ReceiptRec, Cfg
  <2> QED
    BY <1>1, <2>1, HolderData, WriteFileType DEF Write, DataOK
<1>4. DataOK'
  BY <1>3, HolderData, SpendType DEF Write, DataOK
<1>5. CASE StartRollback("apply")
  BY <1>1, <1>2, <1>4, <1>5, StartsRollback, HolderStep
<1>6. CASE mem.idx < NFiles /\ Goto("cas") /\ mem' = [mem EXCEPT !.idx = @ + 1]
  <2>1. mem' \in Mem /\ mem'.rcpt = mem.rcpt /\ mem'.idx \in File
    BY <1>1, <1>6, InHand, HolderData DEF Mem, File
  <2>2. MoveOK
    BY <1>1, <1>6, <2>1 DEF Goto, MoveOK, RcptControl, Control, RollbackControl, JobControl
  <2> QED
    BY <1>2, <1>4, <2>2, HolderStep
<1>7. CASE Goto("written") /\ UNCHANGED mem
  <2>1. MoveOK
    BY <1>1, <1>7, InHand
       DEF Goto, MoveOK, RcptControl, Control, RollbackControl, JobControl
  <2> QED
    BY <1>2, <1>4, <2>1, HolderStep
<1> QED
  BY <1>5, <1>6, <1>7 DEF Write

LEMMA TypeCheck == ASSUME TypeInv, NEW io \in IO, Check(io) PROVE TypeInv'
<1>1. pc = "check" /\ pc \in RcptControl /\ OfJob
  BY DEF Check, At, RcptControl, Control, TypeInv, ControlOK, JobControl
<1>2. DataOK'
  BY HolderData, SpendType DEF Check, DataOK
<1>3. CASE io = "ok" /\ Goto("cas") /\ mem' = [mem EXCEPT !.idx = 1] /\ UNCHANGED journal
  <2>1. mem' \in Mem /\ mem'.rcpt = mem.rcpt /\ mem'.idx \in File
    BY <1>3, InHand, <1>1, HolderData DEF Mem, File
  <2>2. MoveOK
    BY <1>1, <1>3, <2>1 DEF Goto, MoveOK, RcptControl, Control, RollbackControl, JobControl
  <2> QED
    BY <1>2, <1>3, <2>2, HolderStep, UnchangedKeeps, HolderData
<1>4. CASE Persist(mem.rcpt, "RolledBack", io) /\ Finish("failed")
  <2>1. SameReceipts /\ journal' \in JournalType
    BY <1>1, <1>4, InHand, PersistKeeps DEF ApplyState
  <2> QED
    BY <1>2, <1>4, <2>1, HolderStep DEF Returning, Outcome
<1> QED
  BY <1>3, <1>4 DEF Check

LEMMA TypeWritten == ASSUME TypeInv, NEW io \in IO, Written(io) PROVE TypeInv'
<1>1. pc = "written" /\ pc \in RcptControl /\ OfJob
  BY DEF Written, At, RcptControl, Control, TypeInv, ControlOK, JobControl
<1>2. SameReceipts /\ journal' \in JournalType
  BY <1>1, InHand, PersistKeeps DEF Written, ApplyState
<1>3. DataOK'
  BY HolderData, SpendType DEF Written, DataOK
<1>4. CASE StartRollback("apply")
  BY <1>1, <1>2, <1>3, <1>4, StartsRollback, HolderStep
<1>5. ASSUME NEW l \in {"complete", "local", "commit"}, Goto(l), UNCHANGED mem,
             l # "complete" => job.kind # "plain"
      PROVE  TypeInv'
  <2>1. MoveOK
    BY <1>1, <1>5, InHand
       DEF Goto, MoveOK, RcptControl, Control, RollbackControl, JobControl
  <2> QED
    BY <1>2, <1>3, <2>1, HolderStep
<1> QED
  BY <1>4, <1>5 DEF Written

LEMMA TypeComplete == ASSUME TypeInv, NEW io \in IO, Complete(io) PROVE TypeInv'
<1>1. pc = "complete" /\ pc \in RcptControl /\ OfJob
  BY DEF Complete, At, RcptControl, Control, TypeInv, ControlOK, JobControl
<1>2. SameReceipts /\ journal' \in JournalType
  BY <1>1, InHand, PersistKeeps DEF Complete, ApplyState
<1>3. DataOK'
  BY HolderData, SpendType DEF Complete, DataOK
<1>4. CASE Finish("applied") \/ Finish("failed")
  BY <1>2, <1>3, <1>4, HolderStep DEF Returning, Outcome
<1>5. CASE job.kind = "undo" /\ Goto("markUndone") /\ UNCHANGED mem
  <2>1. Txn.undoOf # None
    BY <1>1, <1>5, ConfigConstants DEF OfJob, TypeInv, ControlOK, JobOK
  <2>2. MoveOK
    BY <1>1, <1>5, <2>1, InHand
       DEF Goto, MoveOK, RcptControl, Control, RollbackControl, JobControl
  <2> QED
    BY <1>2, <1>3, <2>2, HolderStep
<1> QED
  BY <1>4, <1>5 DEF Complete

LEMMA TypeMarkUndone == ASSUME TypeInv, NEW io \in IO, MarkUndone(io) PROVE TypeInv'
<1>1. pc = "markUndone" /\ pc \in RcptControl /\ Txn.undoOf # None
  BY DEF MarkUndone, At, RcptControl, Control, TypeInv, ControlOK
<1>2. Txn.undoOf \in Receipt /\ journal[Txn.undoOf] # None
  BY <1>1, InHand DEF TypeInv, UndoesAnApply, Txn, ReceiptRec
<1>3. SameReceipts /\ journal' \in JournalType
  BY <1>2, HolderData, PersistKeeps DEF MarkUndone, ApplyState
<1>4. DataOK'
  BY HolderData, SpendType DEF MarkUndone, DataOK
<1>5. CASE Finish("undone") \/ Finish("blocked") \/ Finish("failed")
  BY <1>3, <1>4, <1>5, HolderStep DEF Returning, Outcome
<1>6. CASE mem.caller = "recover" /\ Goto("recover") /\ UNCHANGED mem
  BY <1>1, <1>3, <1>4, <1>6, BackToRecover
<1> QED
  BY <1>5, <1>6 DEF MarkUndone

LEMMA TypeRecComplete == ASSUME TypeInv, NEW io \in IO, RecComplete(io) PROVE TypeInv'
<1>1. pc = "recComplete" /\ pc \in RcptControl
  BY DEF RecComplete, At, RcptControl, Control, TypeInv, ControlOK
<1>2. SameReceipts /\ journal' \in JournalType
  BY <1>1, InHand, PersistKeeps DEF RecComplete, ApplyState
<1>3. DataOK'
  BY HolderData, SpendType DEF RecComplete, DataOK
<1>4. CASE Finish("blocked")
  BY <1>2, <1>3, <1>4, HolderStep DEF Returning, Outcome
<1>5. CASE Txn.undoOf # None /\ Goto("markUndone") /\ UNCHANGED mem
  <2>1. MoveOK
    BY <1>1, <1>5, InHand
       DEF Goto, MoveOK, RcptControl, Control, RollbackControl, JobControl
  <2> QED
    BY <1>2, <1>3, <2>1, HolderStep
<1>6. CASE Goto("recover") /\ UNCHANGED mem
  BY <1>1, <1>2, <1>3, <1>6, BackToRecover
<1> QED
  BY <1>4, <1>5, <1>6 DEF RecComplete

LEMMA TypeRecLocal == ASSUME TypeInv, NEW io \in IO, RecLocal(io) PROVE TypeInv'
<1>1. pc = "recLocal" /\ pc \in RcptControl /\ CtxOf(mem.rcpt) # None
  BY DEF RecLocal, At, RcptControl, Control, TypeInv, ControlOK
<1>2. SameReceipts /\ journal' \in JournalType
  BY HolderData, UnchangedKeeps DEF RecLocal
<1>3. device' \in Conn \cup {None} /\ cache' \in [Proc -> Conn \cup {None}]
  <2>1. CtxOf(mem.rcpt) \in Context /\ guard \in Proc
    BY <1>1, InHand
  <2>2. /\ CtxOf(mem.rcpt).input.conn \in Conn \cup {None}
        /\ CtxOf(mem.rcpt).local \in Conn \cup {None}
    BY <2>1 DEF Context, InputType
  <2>3. \E c \in Conn \cup {None} : SetDevice(guard, c, io)
    BY <2>2 DEF RecLocal
  <2> QED
    BY <2>1, <2>3, HolderData, SetDeviceType DEF DataOK
<1>4. DataOK'
  BY <1>3, HolderData, SpendType DEF RecLocal, DataOK
<1>5. CASE Finish("blocked")
  BY <1>2, <1>4, <1>5, HolderStep DEF Returning, Outcome
<1>6. CASE Goto("flag") /\ UNCHANGED mem
  <2>1. MoveOK
    BY <1>1, <1>6, InHand
       DEF Goto, MoveOK, RcptControl, Control, RollbackControl, JobControl
  <2> QED
    BY <1>2, <1>4, <2>1, HolderStep
<1>7. CASE Goto("recover") /\ UNCHANGED mem
  BY <1>1, <1>2, <1>4, <1>7, BackToRecover
<1> QED
  BY <1>5, <1>6, <1>7 DEF RecLocal

\* Where a rollback is, and what its caller may be.
LEMMA InRollback ==
  ASSUME TypeInv, pc \in RollbackControl
  PROVE  /\ pc \in RcptControl /\ mem.caller # "none" /\ (mem.caller # "recover" => OfJob)
         /\ mem.caller = "commit" => job.kind # "plain"
         /\ pc \in {"rbRead", "rbWrite"} => mem.idx \in File
  BY DEF RollbackControl, TypeInv, ControlOK, RcptControl, Control

\* A rollback goes on to the file before, or to its verdict.
LEMMA NextFile ==
  ASSUME TypeInv, pc \in {"rbRead", "rbWrite"}, NEW b \in BOOLEAN,
         Goto(IF mem.idx > 1 THEN "rbRead" ELSE "rbSave"),
         mem' = [mem EXCEPT !.idx = @ - 1, !.bad = b]
  PROVE  MoveOK
<1>1. pc \in RollbackControl
  BY DEF RollbackControl
<1>2. mem.idx \in File /\ mem \in Mem
  BY <1>1, InRollback, InHand
<1>3. mem.idx \in Nat /\ mem.idx >= 1 /\ mem.idx <= NFiles
  BY <1>2, HolderData DEF File
<1>4. /\ mem' \in Mem /\ mem'.rcpt = mem.rcpt /\ mem'.caller = mem.caller
      /\ mem'.idx = mem.idx - 1
  <2>1. mem.idx - 1 \in Nat
    BY <1>3
  <2>2. \A i \in Nat : [mem EXCEPT !.idx = i, !.bad = b] \in Mem
    BY <1>2 DEF Mem
  <2>3. mem' = [mem EXCEPT !.idx = mem.idx - 1, !.bad = b]
    BY <1>2 DEF Mem
  <2>4. mem' \in Mem
    BY <2>1, <2>2, <2>3
  <2> QED
    BY <1>2, <2>3, <2>4 DEF Mem
<1>5. mem.idx > 1 => mem'.idx \in File
  BY <1>3, <1>4, HolderData DEF File
<1>6. /\ pc' = (IF mem.idx > 1 THEN "rbRead" ELSE "rbSave")
      /\ UNCHANGED <<guard, job, outcome>>
  BY DEF Goto
<1>7. /\ pc' \in RcptControl /\ pc' \notin JobControl
      /\ pc' \notin {"cas", "write", "rbWrite", "restore", "local", "commit", "recLocal",
                     "markUndone"}
      /\ pc' = "rbRead" => mem.idx > 1
  BY <1>6 DEF RcptControl, Control, JobControl
<1> QED
  BY <1>1, <1>4, <1>5, <1>6, <1>7, InRollback DEF MoveOK

LEMMA TypeRbRead == ASSUME TypeInv, NEW io \in IO, RbRead(io) PROVE TypeInv'
<1>1. pc = "rbRead" /\ pc \in RollbackControl /\ pc \in RcptControl
  BY DEF RbRead, At, RollbackControl, RcptControl, Control
<1>2. SameReceipts /\ journal' \in JournalType
  BY HolderData, UnchangedKeeps DEF RbRead, durable
<1>3. DataOK'
  BY HolderData, SpendType DEF RbRead, durable, DataOK
<1>4. CASE Goto("rbWrite") /\ UNCHANGED mem
  <2>1. MoveOK
    BY <1>1, <1>4, InHand, InRollback
       DEF Goto, MoveOK, RcptControl, Control, RollbackControl, JobControl
  <2> QED
    BY <1>2, <1>3, <2>1, HolderStep
<1>5. CASE ~(Goto("rbWrite") /\ UNCHANGED mem)
  <2> DEFINE b == mem.bad \/ (io # "ok" \/ Foreign(mem.idx))
  <2>1. b \in BOOLEAN
    OBVIOUS
  <2>2. /\ Goto(IF mem.idx > 1 THEN "rbRead" ELSE "rbSave")
        /\ mem' = [mem EXCEPT !.idx = @ - 1, !.bad = b]
    BY <1>5, InHand, <1>1 DEF RbRead, Mem
  <2> HIDE DEF b
  <2>3. MoveOK
    BY <1>1, <2>1, <2>2, NextFile
  <2> QED
    BY <1>2, <1>3, <2>3, HolderStep
<1> QED
  BY <1>4, <1>5

LEMMA TypeRbWrite == ASSUME TypeInv, NEW io \in IO, RbWrite(io) PROVE TypeInv'
<1>1. pc = "rbWrite" /\ pc \in RollbackControl /\ pc \in RcptControl
  BY DEF RbWrite, At, RollbackControl, RcptControl, Control
<1>2. SameReceipts /\ journal' \in JournalType
  BY HolderData, UnchangedKeeps DEF RbWrite
<1>3. live' \in Cfg
  <2>1. mem.idx \in File /\ Txn.before[mem.idx] \in Bytes
    BY <1>1, InHand, InRollback DEF ReceiptRec, Cfg
  <2> QED
    BY <2>1, HolderData, WriteFileType DEF RbWrite, DataOK
<1>4. DataOK'
  BY <1>3, HolderData, SpendType DEF RbWrite, DataOK
<1>5. MoveOK
  <2> DEFINE b == mem.bad \/ io # "ok"
  <2>1. b \in BOOLEAN
    OBVIOUS
  <2>2. /\ Goto(IF mem.idx > 1 THEN "rbRead" ELSE "rbSave")
        /\ mem' = [mem EXCEPT !.idx = @ - 1, !.bad = b]
    BY InHand, <1>1 DEF RbWrite, Mem
  <2> HIDE DEF b
  <2> QED
    BY <1>1, <2>1, <2>2, NextFile
<1> QED
  BY <1>2, <1>4, <1>5, HolderStep

LEMMA TypeRbSave == ASSUME TypeInv, NEW io \in IO, RbSave(io) PROVE TypeInv'
<1>1. pc = "rbSave" /\ pc \in RollbackControl /\ pc \in RcptControl
  BY DEF RbSave, At, RollbackControl, RcptControl, Control
<1>2. SameReceipts /\ journal' \in JournalType
  BY <1>1, InHand, PersistKeeps DEF RbSave, ApplyState
<1>3. DataOK'
  <2>1. unrestored' \in BOOLEAN
    BY HolderData DEF RbSave, DataOK
  <2> QED
    BY <2>1, HolderData, SpendType DEF RbSave, DataOK
<1>4. ASSUME NEW o \in Outcome, Finish(o) PROVE TypeInv'
  BY <1>2, <1>3, <1>4, HolderStep DEF Returning
<1>5. CASE mem.caller = "apply"
  BY <1>4, <1>5 DEF RbSave, Outcome
<1>6. CASE mem.caller = "commit"
  <2>1. OfJob /\ job.kind # "plain"
    BY <1>1, <1>6, InRollback
  <2>2. CASE Finish("failed")
    BY <1>4, <2>2 DEF Outcome
  <2>3. CASE Goto("restore") /\ mem' = [mem EXCEPT !.bad = mem.bad \/ io # "ok"]
    <3>1. mem' \in Mem /\ mem'.rcpt = mem.rcpt
      BY <1>1, <2>3, InHand DEF Mem
    <3>2. MoveOK
      BY <1>1, <2>1, <2>3, <3>1
         DEF Goto, MoveOK, RcptControl, Control, RollbackControl, JobControl
    <3> QED
      BY <1>2, <1>3, <3>2, HolderStep
  <2>4. CASE Goto("flag") /\ UNCHANGED mem
    <3>1. MoveOK
      BY <1>1, <2>4, InHand
         DEF Goto, MoveOK, RcptControl, Control, RollbackControl, JobControl
    <3> QED
      BY <1>2, <1>3, <3>1, HolderStep
  <2> QED
    BY <1>6, <2>2, <2>3, <2>4 DEF RbSave
<1>7. CASE mem.caller = "recover"
  <2>1. CASE Finish("blocked")
    BY <1>4, <2>1 DEF Outcome
  <2>2. CASE CtxOf(mem.rcpt) # None /\ Goto("recLocal") /\ UNCHANGED mem
    <3>1. MoveOK
      BY <1>1, <2>2, InHand
         DEF Goto, MoveOK, RcptControl, Control, RollbackControl, JobControl
    <3> QED
      BY <1>2, <1>3, <3>1, HolderStep
  <2>3. CASE Goto("recover") /\ UNCHANGED mem
    BY <1>1, <1>2, <1>3, <2>3, BackToRecover
  <2> QED
    BY <1>7, <2>1, <2>2, <2>3 DEF RbSave
<1> QED
  BY <1>5, <1>6, <1>7 DEF RbSave

\* The contexts the two settings steps read are there and typed.
LEMMA JobCtx ==
  ASSUME TypeInv, pc \in RcptControl, OfJob, job.kind # "plain"
  PROVE  /\ CtxOf(mem.rcpt) \in Context /\ guard \in Proc
         /\ CtxOf(mem.rcpt).input.conn \in Conn \cup {None}
         /\ CtxOf(mem.rcpt).local \in Conn \cup {None}
<1>1. CtxOf(mem.rcpt) # None
  BY ConfigConstants, InHand DEF OfJob, CtxOf, Txn, TypeInv, ControlOK, JobOK
<1>2. CtxOf(mem.rcpt) \in Context /\ guard \in Proc
  BY <1>1, InHand
<1> QED
  BY <1>2 DEF Context, InputType

LEMMA TypeRestore == ASSUME TypeInv, NEW io \in IO, Restore(io) PROVE TypeInv'
<1>1. pc = "restore" /\ pc \in RcptControl /\ OfJob /\ job.kind # "plain"
  BY DEF Restore, At, RcptControl, Control, JobControl, TypeInv, ControlOK
<1>2. SameReceipts /\ journal' \in JournalType
  BY HolderData, UnchangedKeeps DEF Restore
<1>3. DataOK'
  <2>1. guard \in Proc /\ \E c \in Conn \cup {None} : SetDevice(guard, c, io)
    BY <1>1, JobCtx DEF Restore
  <2>2. device' \in Conn \cup {None} /\ cache' \in [Proc -> Conn \cup {None}]
    BY <2>1, HolderData, SetDeviceType DEF DataOK
  <2> QED
    BY <2>2, HolderData, SpendType DEF Restore, DataOK
<1>4. CASE Finish("failed")
  BY <1>2, <1>3, <1>4, HolderStep DEF Returning, Outcome
<1>5. CASE Goto("flag") /\ UNCHANGED mem
  <2>1. MoveOK
    BY <1>1, <1>5, InHand
       DEF Goto, MoveOK, RcptControl, Control, RollbackControl, JobControl
  <2> QED
    BY <1>2, <1>3, <2>1, HolderStep
<1> QED
  BY <1>4, <1>5 DEF Restore

LEMMA TypeFlag == ASSUME TypeInv, NEW io \in IO, Flag(io) PROVE TypeInv'
<1>1. pc = "flag" /\ pc \in RcptControl
  BY DEF Flag, At, RcptControl, Control
<1>2. SameReceipts /\ journal' \in JournalType
  BY <1>1, InHand, PersistKeeps DEF Flag, ApplyState
<1>3. DataOK'
  <2>1. unrestored' \in BOOLEAN
    BY HolderData DEF Flag, DataOK
  <2> QED
    BY <2>1, HolderData, SpendType DEF Flag, DataOK
<1>4. Returning
  BY DEF Flag, Returning, Outcome
<1> QED
  BY <1>2, <1>3, <1>4, HolderStep

LEMMA TypeLocal == ASSUME TypeInv, NEW io \in IO, Local(io) PROVE TypeInv'
<1>1. pc = "local" /\ pc \in RcptControl /\ OfJob /\ job.kind # "plain"
  BY DEF Local, At, RcptControl, Control, JobControl, TypeInv, ControlOK
<1>2. SameReceipts /\ journal' \in JournalType
  BY HolderData, UnchangedKeeps DEF Local
<1>3. DataOK'
  <2>1. guard \in Proc /\ \E c \in Conn \cup {None} : SetDevice(guard, c, io)
    BY <1>1, JobCtx DEF Local
  <2>2. device' \in Conn \cup {None} /\ cache' \in [Proc -> Conn \cup {None}]
    BY <2>1, HolderData, SetDeviceType DEF DataOK
  <2> QED
    BY <2>2, HolderData, SpendType DEF Local, DataOK
<1>4. CASE Goto("commit") /\ UNCHANGED mem
  <2>1. MoveOK
    BY <1>1, <1>4, InHand
       DEF Goto, MoveOK, RcptControl, Control, RollbackControl, JobControl
  <2> QED
    BY <1>2, <1>3, <2>1, HolderStep
<1>5. CASE StartRollback("commit")
  BY <1>1, <1>2, <1>3, <1>5, StartsRollback, HolderStep
<1> QED
  BY <1>4, <1>5 DEF Local

\* A plan is a receipt record of the kind the job calls for.
LEMMA Planned ==
  ASSUME TypeInv, pc = "plan", UNCHANGED durable,
         UNCHANGED <<cache, seen, unrestored, faults, edits>>,
         NEW R \in ReceiptRec, Goto("prepare"), mem' = [NoMem EXCEPT !.rec = R],
         job.kind \in {"apply", "undo", "plain"},
         job.kind = "apply" => R.undoOf = None /\ R.ctx # None,
         job.kind = "undo" => R.undoOf = job.target /\ R.ctx = None,
         job.kind = "plain" => R.undoOf = None /\ R.ctx = None
  PROVE  TypeInv'
<1>1. pc' = "prepare" /\ UNCHANGED <<guard, job, outcome>>
  BY DEF Goto
<1>2. SameReceipts /\ journal' \in JournalType /\ DataOK'
  BY HolderData, UnchangedKeeps DEF durable, DataOK
<1>3. mem' \in Mem /\ mem'.rec = R /\ mem'.rcpt = None
  BY DEF Mem, NoMem, Caller
<1>4. UndoesAnApply' /\ JobOK'
  BY <1>1, <1>2, JobKept, UndoesKept, HolderData DEF TypeInv
<1>5. R # None
  BY NoneIsNoRecord
<1>6. ControlOK'
  BY <1>1, <1>3, <1>4, <1>5 DEF ControlOK, RcptControl, JobControl, RollbackControl
<1>7. pc' \in Control
  BY <1>1 DEF Control
<1> QED
  BY <1>1, <1>2, <1>3, <1>4, <1>6, <1>7 DEF TypeInv, TypeOK, DataOK, JournalType

\* Steps that only return.
LEMMA JustReturns ==
  ASSUME TypeInv, UNCHANGED durable, UNCHANGED <<cache, seen, unrestored, faults, edits>>,
         Returning
  PROVE  TypeInv'
<1>1. SameReceipts /\ journal' \in JournalType /\ DataOK'
  BY HolderData, UnchangedKeeps DEF durable, DataOK
<1> QED
  BY <1>1, HolderStep

LEMMA RecordType ==
  ASSUME TypeInv, NEW c \in Conn \cup {None}
  PROVE  Record(c) \in Cfg \cup {None}
  BY DEF TypeInv, TypeOK, Record

LEMMA ApplyRecordType ==
  ASSUME TypeInv, NEW p \in Proc, NEW dr \in DraftRec,
         job.draft \in Draft, job.rev \in Nat, job.policy \in DriftPolicy
  PROVE  /\ ApplyRecord(p, dr) \in ReceiptRec
         /\ ApplyRecord(p, dr).undoOf = None /\ ApplyRecord(p, dr).ctx # None
<1> DEFINE i == dr.input
           ctx == [draft |-> job.draft, rev |-> job.rev, input |-> i, base |-> dr.base,
                   before |-> Before(p, i), after |-> After(p, i, job.policy),
                   dbCur |-> dbCur, local |-> IF Builtin THEN cache[p] ELSE None,
                   head |-> head]
<1>1. /\ i \in InputType /\ dr.base \in Cfg \cup {None}
      /\ i.cfg \in Cfg /\ i.conn \in Conn /\ i.gateway \in BOOLEAN
  BY DEF DraftRec, InputType
<1>2. /\ live \in Cfg /\ dbCur \in Conn \cup {None} /\ cache[p] \in Conn \cup {None}
      /\ head \in Receipt \cup {None} /\ conns \in [Conn -> Cfg \cup {None}]
  BY DEF TypeInv, TypeOK
<1>3. Before(p, i) \in Records
  BY <1>2 DEF Before, Records
<1>4. After(p, i, job.policy) \in Records
  <2>1. \A c \in Conn : After(p, i, job.policy)[c] \in Cfg \cup {None}
    BY <1>1, <1>2 DEF After
  <2> QED
    BY <2>1 DEF After, Records
<1>5. (IF Builtin THEN cache[p] ELSE None) \in Conn \cup {None}
  BY <1>2
<1> HIDE DEF i
<1>6. ctx \in Context
  BY <1>1, <1>2, <1>3, <1>4, <1>5 DEF Context
<1>7. ApplyRecord(p, dr) = [state |-> "Prepared", before |-> live, after |-> i.cfg,
                            undoable |-> ~i.gateway, undoOf |-> None, ctx |-> ctx]
  BY DEF ApplyRecord, i
<1> HIDE DEF ctx
<1>8. (~i.gateway) \in BOOLEAN
  OBVIOUS
<1>9. [state |-> "Prepared", before |-> live, after |-> i.cfg, undoable |-> ~i.gateway,
       undoOf |-> None, ctx |-> ctx] \in ReceiptRec
  BY <1>1, <1>2, <1>6, <1>8 DEF ReceiptRec, ApplyState
<1> QED
  BY <1>6, <1>7, <1>9, NoneIsNoRecord

LEMMA TypePlan ==
  ASSUME TypeInv, Reuse \/ PlanApply \/ PlanUndo \/ PlanPlain
  PROVE  TypeInv'
<1>1. CASE Reuse
  BY <1>1, JustReturns DEF Reuse, Returning, Outcome
<1>2. CASE Finish("failed") /\ (PlanApply \/ PlanUndo)
  BY <1>2, JustReturns DEF PlanApply, PlanUndo, Returning, Outcome
<1>3. CASE PlanApply /\ ~Finish("failed")
  <2>1. /\ pc = "plan" /\ job.kind = "apply" /\ Goto("prepare")
        /\ drafts[job.draft] # None
        /\ mem' = [NoMem EXCEPT !.rec = ApplyRecord(guard, drafts[job.draft])]
        /\ UNCHANGED durable /\ UNCHANGED <<cache, seen, unrestored, faults, edits>>
    BY <1>3 DEF PlanApply, At
  <2>2. /\ guard \in Proc /\ job.draft \in Draft /\ job.rev \in Nat
        /\ job.policy \in DriftPolicy
    BY <2>1 DEF TypeInv, TypeOK, ControlOK, JobOK, Job
  <2>3. drafts[job.draft] \in DraftRec
    BY <2>1, <2>2 DEF TypeInv, TypeOK
  <2>4. /\ ApplyRecord(guard, drafts[job.draft]) \in ReceiptRec
        /\ ApplyRecord(guard, drafts[job.draft]).undoOf = None
        /\ ApplyRecord(guard, drafts[job.draft]).ctx # None
    BY <2>2, <2>3, ApplyRecordType
  <2> QED
    BY <2>1, <2>4, Planned
<1>4. CASE PlanUndo /\ ~Finish("failed")
  <2> DEFINE r == job.target
             R == [state |-> "Prepared", before |-> journal[r].after,
                   after |-> journal[r].before, undoable |-> FALSE,
                   undoOf |-> r, ctx |-> None]
  <2>1. /\ pc = "plan" /\ job.kind = "undo" /\ Goto("prepare")
        /\ mem' = [NoMem EXCEPT !.rec = R]
        /\ UNCHANGED durable /\ UNCHANGED <<cache, seen, unrestored, faults, edits>>
    BY <1>4 DEF PlanUndo, At
  <2>2. r \in Receipt /\ journal[r] \in ReceiptRec
    BY <2>1 DEF TypeInv, TypeOK, ControlOK, JobOK
  <2>3. R \in ReceiptRec /\ R.undoOf = r /\ R.ctx = None
    BY <2>2 DEF ReceiptRec, ApplyState
  <2> HIDE DEF R
  <2> QED
    BY <2>1, <2>3, Planned
<1>5. CASE PlanPlain
  <2> DEFINE R == [state |-> "Prepared", before |-> live, after |-> job.cfg,
                   undoable |-> FALSE, undoOf |-> None, ctx |-> None]
  <2>1. /\ pc = "plan" /\ job.kind = "plain" /\ Goto("prepare")
        /\ mem' = [NoMem EXCEPT !.rec = R]
        /\ UNCHANGED durable /\ UNCHANGED <<cache, seen, unrestored, faults, edits>>
    BY <1>5 DEF PlanPlain, At
  <2>2. live \in Cfg /\ job.cfg \in Cfg
    BY <2>1 DEF TypeInv, TypeOK, ControlOK, JobOK
  <2>3. R \in ReceiptRec /\ R.undoOf = None /\ R.ctx = None
    BY <2>2 DEF ReceiptRec, ApplyState
  <2> HIDE DEF R
  <2> QED
    BY <2>1, <2>3, Planned
<1> QED
  BY <1>1, <1>2, <1>3, <1>4, <1>5

LEMMA TypePrepare ==
  ASSUME TypeInv, NEW r \in Receipt, NEW io \in IO, Prepare(r, io)
  PROVE  TypeInv'
<1>1. /\ pc = "prepare" /\ journal[r] = None /\ DataOK /\ journal \in JournalType
      /\ mem.rec \in ReceiptRec /\ job.kind \in {"apply", "undo", "plain"}
  BY HolderData DEF Prepare, At, Unused, TypeInv, TypeOK, ControlOK, Mem
<1>2. DataOK'
  BY HolderData, SpendType DEF Prepare, DataOK
<1>3. CASE UNCHANGED journal
  <2>1. CASE Finish("failed")
    BY <1>1, <1>2, <1>3, <2>1, UnchangedKeeps, HolderStep DEF Returning, Outcome
  <2>2. CASE ~Finish("failed")
    <3>1. journal' = [journal EXCEPT ![r] = mem.rec]
      BY <2>2 DEF Prepare, Spend
    <3> QED
      BY <1>1, <1>3, <3>1, NoneIsNoRecord DEF JournalType
  <2> QED
    BY <2>1, <2>2
<1>4. CASE journal' = [journal EXCEPT ![r] = mem.rec]
  <2>1. /\ journal' \in JournalType /\ journal'[r] = mem.rec /\ mem.rec # None
        /\ \A x \in Receipt : x # r => journal'[x] = journal[x]
    BY <1>1, <1>4, NoneIsNoRecord DEF JournalType
  <2>2. /\ job.kind = "apply" => mem.rec.undoOf = None /\ mem.rec.ctx # None
        /\ job.kind = "undo" => mem.rec.undoOf = job.target /\ mem.rec.ctx = None
        /\ job.kind = "plain" => mem.rec.undoOf = None /\ mem.rec.ctx = None
        /\ JobOK
    BY <1>1 DEF TypeInv, ControlOK
  <2>3. job.kind = "undo" => /\ job.target \in Receipt /\ job.target # r
                             /\ journal[job.target] # None
                             /\ journal[job.target].ctx # None
    BY <1>1, <2>2 DEF JobOK
  <2>4. UndoesAnApply'
    <3> SUFFICES ASSUME NEW x \in Receipt, journal'[x] # None, journal'[x].undoOf # None
                 PROVE  /\ journal'[x].ctx = None
                        /\ journal'[journal'[x].undoOf] # None
                        /\ journal'[journal'[x].undoOf].ctx # None
      BY DEF UndoesAnApply
    <3>1. CASE x = r
      BY <3>1, <1>1, <2>1, <2>2, <2>3
    <3>2. CASE x # r
      <4>1. /\ journal[x].ctx = None /\ journal[x].undoOf \in Receipt
            /\ journal[journal[x].undoOf] # None
            /\ journal[journal[x].undoOf].ctx # None
            /\ journal'[x] = journal[x]
        BY <3>2, <1>1, <2>1 DEF TypeInv, UndoesAnApply, JournalType, ReceiptRec
      <4> QED
        BY <4>1, <1>1, <2>1
    <3> QED
      BY <3>1, <3>2
  <2>5. CASE Finish("failed")
    <3>1. ControlOK' /\ job' \in Job /\ mem' \in Mem /\ guard' \in Proc \cup {None}
          /\ pc' \in Control /\ outcome' \in Outcome
      BY <2>5 DEF Finish, NoJob, NoMem, Job, Mem, DriftPolicy, Caller, Control, Outcome,
                  ControlOK, JobOK, RcptControl, JobControl, RollbackControl
    <3> QED
      BY <1>2, <2>1, <2>4, <3>1 DEF TypeInv, TypeOK, DataOK, JournalType
  <2>6. CASE Goto("check") /\ mem' = [NoMem EXCEPT !.rcpt = r]
    <3>1. pc' = "check" /\ UNCHANGED <<guard, job, outcome>> /\ mem'.rcpt = r /\ mem' \in Mem
      BY <2>6 DEF Goto, NoMem, Mem, Caller
    <3>2. JobOK'
      BY <1>1, <2>1, <2>2, <2>3, <3>1 DEF JobOK
    <3>3. OfJob'
      BY <1>1, <2>1, <2>2, <3>1 DEF OfJob, Txn
    <3>4. ControlOK'
      BY <2>1, <3>1, <3>2, <3>3 DEF ControlOK, RollbackControl
    <3>5. pc' \in Control
      BY <3>1 DEF Control
    <3> QED
      BY <1>2, <2>1, <2>4, <3>1, <3>4, <3>5 DEF TypeInv, TypeOK, DataOK, JournalType
  <2> QED
    BY <1>1, <1>4, <2>1, <2>5, <2>6 DEF Prepare
<1> QED
  BY <1>3, <1>4 DEF Prepare

LEMMA TypeCommitApply == ASSUME TypeInv, NEW io \in IO, CommitApply(io) PROVE TypeInv'
<1>1. /\ pc = "commit" /\ pc \in RcptControl /\ OfJob /\ job.kind # "plain"
      /\ job.kind = "apply"
  BY DEF CommitApply, At, RcptControl, Control, JobControl, TypeInv, ControlOK
<1>2. SameReceipts /\ journal' \in JournalType
  BY HolderData, UnchangedKeeps DEF CommitApply
<1>3. CASE StartRollback("commit") /\ UNCHANGED <<conns, dbCur, head, drafts>>
  <2>1. DataOK'
    BY <1>3, HolderData, SpendType DEF CommitApply, DataOK
  <2> QED
    BY <1>1, <1>2, <1>3, <2>1, StartsRollback, HolderStep
<1>4. CASE ~(StartRollback("commit") /\ UNCHANGED <<conns, dbCur, head, drafts>>)
  <2> DEFINE ctx == Txn.ctx
  <2>1. ctx \in Context
    BY <1>1, InHand DEF OfJob, ReceiptRec
  <2>2. /\ ctx.after \in Records /\ ctx.draft \in Draft /\ ctx.input.conn \in Conn
    BY <2>1 DEF Context, InputType
  <2>3. /\ conns' = [c \in Conn |-> IF ctx.after[c] # None THEN ctx.after[c] ELSE conns[c]]
        /\ dbCur' = ctx.input.conn /\ head' = mem.rcpt
        /\ drafts' = [drafts EXCEPT ![ctx.draft] = None]
        /\ Goto("complete") /\ UNCHANGED mem
    BY <1>4 DEF CommitApply
  <2> HIDE DEF ctx
  <2>4. conns' \in [Conn -> Cfg \cup {None}]
    BY <2>2, <2>3, HolderData DEF DataOK, Records
  <2>5. drafts' \in [Draft -> DraftRec \cup {None}]
    BY <2>2, <2>3, HolderData DEF DataOK
  <2>6. dbCur' \in Conn \cup {None} /\ head' \in Receipt \cup {None}
    BY <1>1, <2>2, <2>3, InHand
  <2>7. DataOK'
    BY <2>4, <2>5, <2>6, HolderData, SpendType DEF CommitApply, DataOK
  <2>8. MoveOK
    BY <1>1, <2>3, InHand
       DEF Goto, MoveOK, RcptControl, Control, RollbackControl, JobControl
  <2> QED
    BY <1>2, <2>7, <2>8, HolderStep
<1> QED
  BY <1>3, <1>4

LEMMA TypeCommitUndo == ASSUME TypeInv, NEW io \in IO, CommitUndo(io) PROVE TypeInv'
<1>1. /\ pc = "commit" /\ pc \in RcptControl /\ OfJob /\ job.kind # "plain"
      /\ job.kind = "undo"
  BY DEF CommitUndo, At, RcptControl, Control, JobControl, TypeInv, ControlOK
<1>2. SameReceipts /\ journal' \in JournalType
  BY HolderData, UnchangedKeeps DEF CommitUndo
<1>3. CASE StartRollback("commit") /\ UNCHANGED <<conns, dbCur, head, drafts>>
  <2>1. DataOK'
    BY <1>3, HolderData, SpendType DEF CommitUndo, DataOK
  <2> QED
    BY <1>1, <1>2, <1>3, <2>1, StartsRollback, HolderStep
<1>4. CASE ~(StartRollback("commit") /\ UNCHANGED <<conns, dbCur, head, drafts>>)
  <2> DEFINE ctx == journal[job.target].ctx
             back == [rev |-> ctx.rev + 1, input |-> ctx.input, base |-> ctx.base]
  <2>1. ctx \in Context
    <3>1. job.target \in Receipt /\ journal[job.target] \in ReceiptRec
      BY <1>1, HolderData DEF TypeInv, ControlOK, JobOK, JournalType
    <3>2. ctx # None
      BY <1>1 DEF TypeInv, ControlOK, JobOK
    <3> QED
      BY <3>1, <3>2 DEF ReceiptRec
  <2>2. /\ conns' = [c \in Conn |->
                       IF ctx.before[c] # None THEN ctx.before[c]
                       ELSE IF ctx.after[c] # None THEN None ELSE conns[c]]
        /\ dbCur' = ctx.dbCur /\ head' = ctx.head
        /\ drafts' = IF drafts[ctx.draft] # None THEN drafts
                     ELSE [drafts EXCEPT ![ctx.draft] = back]
        /\ Goto("complete") /\ UNCHANGED mem
    BY <1>4 DEF CommitUndo
  <2>3. back \in DraftRec
    BY <2>1 DEF Context, DraftRec
  <2> HIDE DEF ctx, back
  <2>4. ctx.before \in Records /\ ctx.draft \in Draft
    BY <2>1 DEF Context
  <2>5. conns' \in [Conn -> Cfg \cup {None}]
    BY <2>2, <2>4, HolderData DEF DataOK, Records
  <2>6. drafts' \in [Draft -> DraftRec \cup {None}]
    BY <2>2, <2>3, <2>4, HolderData DEF DataOK
  <2>7. dbCur' \in Conn \cup {None} /\ head' \in Receipt \cup {None}
    BY <2>1, <2>2 DEF Context
  <2>8. DataOK'
    BY <2>5, <2>6, <2>7, HolderData, SpendType DEF CommitUndo, DataOK
  <2>9. MoveOK
    BY <1>1, <2>2, InHand
       DEF Goto, MoveOK, RcptControl, Control, RollbackControl, JobControl
  <2> QED
    BY <1>2, <2>8, <2>9, HolderStep
<1> QED
  BY <1>3, <1>4

\* Steps of everybody else leave the holder and its receipts alone.
LEMMA Outside ==
  ASSUME TypeInv, DataOK', UNCHANGED <<journal, guard, pc, job, mem, outcome>>
  PROVE  TypeInv'
<1>1. Txn' = Txn /\ \A r : CtxOf(r)' = CtxOf(r)
  BY DEF Txn, CtxOf
<1>2. OfJob' <=> OfJob
  BY <1>1 DEF OfJob
<1>3. ControlOK'
  BY <1>1, <1>2 DEF TypeInv, ControlOK, JobOK
<1>4. UndoesAnApply'
  BY DEF TypeInv, UndoesAnApply
<1> QED
  BY <1>3, <1>4 DEF TypeInv, TypeOK, DataOK

LEMMA TypeDrafts ==
  ASSUME TypeInv, NEW d \in Draft,
         (\E i \in Input : CreateDraft(d, i) \/ UpdateDraft(d, i)) \/ DeleteDraft(d)
  PROVE  TypeInv'
<1>1. UNCHANGED <<journal, guard, pc, job, mem, outcome, live, conns, dbCur, head, device,
                  cache, seen, unrestored, faults, edits>>
  BY DEF CreateDraft, UpdateDraft, DeleteDraft
<1>2. DataOK /\ Input \subseteq InputType
  BY HolderData, ConfigConstants
<1>3. drafts' \in [Draft -> DraftRec \cup {None}]
  <2>1. ASSUME NEW i \in Input, CreateDraft(d, i) PROVE drafts' \in [Draft -> DraftRec \cup {None}]
    <3>1. Record(i.orig) \in Cfg \cup {None} /\ i \in InputType
      BY <1>2, RecordType DEF InputType
    <3>2. [rev |-> 1, input |-> i, base |-> Record(i.orig)] \in DraftRec
      BY <3>1 DEF DraftRec
    <3> QED
      BY <2>1, <3>2, <1>2 DEF CreateDraft, DataOK
  <2>2. ASSUME NEW i \in Input, UpdateDraft(d, i) PROVE drafts' \in [Draft -> DraftRec \cup {None}]
    <3>1. drafts[d] \in DraftRec /\ i \in InputType
      BY <1>2, <2>2 DEF UpdateDraft, DataOK
    <3>0. drafts' = [drafts EXCEPT ![d] = [[drafts[d] EXCEPT !.rev = @ + 1]
                                             EXCEPT !.input = i]]
      BY <1>2, <2>2 DEF UpdateDraft, DataOK
    <3>2. [[drafts[d] EXCEPT !.rev = @ + 1] EXCEPT !.input = i] \in DraftRec
      <4>1. \A x \in DraftRec : [x EXCEPT !.rev = @ + 1] \in DraftRec
        BY DEF DraftRec
      <4>2. \A x \in DraftRec : [x EXCEPT !.input = i] \in DraftRec
        BY <3>1 DEF DraftRec
      <4> QED
        BY <3>1, <4>1, <4>2
    <3> QED
      BY <1>2, <3>0, <3>2 DEF DataOK
  <2>3. CASE DeleteDraft(d)
    BY <1>2, <2>3 DEF DeleteDraft, DataOK
  <2> QED
    BY <2>1, <2>2, <2>3
<1>4. DataOK'
  BY <1>1, <1>2, <1>3 DEF DataOK
<1> QED
  BY <1>1, <1>4, Outside

LEMMA TypeExternal ==
  ASSUME TypeInv, NEW f \in File, NEW b \in ExtBytes, ExternalWrite(f, b)
  PROVE  TypeInv'
<1>1. DataOK /\ b \in Bytes
  BY HolderData, ConfigConstants
<1>2. live' \in Cfg /\ edits' \in 0 .. MaxEdits
  BY <1>1, ConfigConstants DEF ExternalWrite, DataOK, Cfg
<1>3. DataOK'
  BY <1>1, <1>2 DEF ExternalWrite, DataOK
<1> QED
  BY <1>3, Outside DEF ExternalWrite

LEMMA TypeEdits ==
  ASSUME TypeInv, NEW p \in Proc, NEW c \in Conn,
         (\E i \in Input : EditConnection(p, c, i.cfg)) \/ DeleteCheck(p, c)
  PROVE  TypeInv'
<1>1. DataOK /\ \A i \in Input : i.cfg \in Cfg
  BY HolderData, ConfigConstants DEF InputType
<1>2. edits' \in 0 .. MaxEdits
  BY <1>1, ConfigConstants DEF EditConnection, DeleteCheck, DataOK
<1>3. CASE \E i \in Input : EditConnection(p, c, i.cfg)
  <2>1. conns' \in [Conn -> Cfg \cup {None}]
    BY <1>1, <1>3 DEF EditConnection, DataOK
  <2>2. DataOK'
    BY <1>1, <1>2, <1>3, <2>1 DEF EditConnection, DataOK
  <2> QED
    BY <1>3, <2>2, Outside DEF EditConnection
<1>4. CASE DeleteCheck(p, c)
  <2>1. seen' \in [Proc -> Intent \cup {None}]
    BY <1>1, <1>4 DEF DeleteCheck, Think, DataOK, Intent
  <2>2. DataOK'
    BY <1>1, <1>2, <1>4, <2>1 DEF DeleteCheck, Think, durable, DataOK
  <2> QED
    BY <1>4, <2>2, Outside DEF DeleteCheck, Think, durable
<1> QED
  BY <1>3, <1>4

LEMMA TypeViews ==
  ASSUME TypeInv, NEW p \in Proc,
         DeleteRow(p) \/ ViewObserve(p) \/ (\E io \in IO : ViewClear(p, io)) \/ Restart(p)
  PROVE  TypeInv'
<1>1. DataOK
  BY HolderData
<1>2. UNCHANGED <<journal, guard, pc, job, mem, outcome>>
  BY DEF DeleteRow, ViewObserve, ViewClear, Restart, Think, durable
<1>3. CASE DeleteRow(p)
  <2>1. seen[p] \in Intent
    BY <1>1, <1>3 DEF DeleteRow, DataOK
  <2>2. /\ conns' \in [Conn -> Cfg \cup {None}] /\ dbCur' \in Conn \cup {None}
        /\ seen' \in [Proc -> Intent \cup {None}]
    BY <1>1, <1>3, <2>1 DEF DeleteRow, DataOK, Intent
  <2>3. DataOK'
    BY <1>1, <1>3, <2>2 DEF DeleteRow, DataOK
  <2> QED
    BY <1>2, <2>3, Outside
<1>4. CASE ViewObserve(p)
  <2>1. seen' \in [Proc -> Intent \cup {None}]
    BY <1>1, <1>4 DEF ViewObserve, Think, DataOK, Intent
  <2>2. DataOK'
    BY <1>1, <1>4, <2>1 DEF ViewObserve, Think, durable, DataOK
  <2> QED
    BY <1>2, <2>2, Outside
<1>5. ASSUME NEW io \in IO, ViewClear(p, io) PROVE TypeInv'
  <2>1. device' \in Conn \cup {None} /\ cache' \in [Proc -> Conn \cup {None}]
    BY <1>1, <1>5, SetDeviceType DEF ViewClear, DataOK
  <2>2. seen' \in [Proc -> Intent \cup {None}] /\ faults' \in 0 .. MaxFaults
    BY <1>1, <1>5, SpendType DEF ViewClear, DataOK
  <2>3. DataOK'
    BY <1>1, <1>5, <2>1, <2>2 DEF ViewClear, DataOK
  <2> QED
    BY <1>2, <2>3, Outside
<1>6. CASE Restart(p)
  <2>1. DataOK'
    BY <1>1, <1>6 DEF Restart, durable, DataOK
  <2> QED
    BY <1>2, <2>1, Outside
<1> QED
  BY <1>3, <1>4, <1>5, <1>6

LEMMA TypeCrash == TypeInv /\ Crash => TypeInv'
<1> SUFFICES ASSUME TypeInv, Crash PROVE TypeInv'
  OBVIOUS
<1>1. DataOK /\ SameReceipts /\ journal' \in JournalType
  BY HolderData, UnchangedKeeps DEF Crash, durable
<1>2. guard \in Proc /\ unrestored' \in BOOLEAN /\ faults' \in 0 .. MaxFaults
  BY <1>1, ConfigConstants DEF Crash, TypeInv, TypeOK
<1>3. DataOK'
  BY <1>1, <1>2 DEF Crash, durable, DataOK
<1> QED
  BY <1>1, <1>3, HolderStep DEF Crash, Returning, Outcome

LEMMA TypeStart == TypeInv /\ StartJob => TypeInv'
<1> SUFFICES ASSUME TypeInv, NEW p \in Proc,
                    \/ \E d \in Draft, rev \in 1 .. MaxRev, pol \in Policy :
                         BeginApply(p, d, rev, pol)
                    \/ \E r \in Receipt : BeginUndo(p, r)
                    \/ BeginRecover(p)
                    \/ \E c \in Conn : BeginPlain(p, c)
             PROVE TypeInv'
  BY DEF StartJob
<1> USE DEF NoJob
<1>1. ASSUME NEW d \in Draft, NEW rev \in 1 .. MaxRev, NEW pol \in Policy,
             BeginApply(p, d, rev, pol)
      PROVE  TypeInv'
  <2> DEFINE j == [NoJob EXCEPT !.kind = "apply", !.draft = d, !.rev = rev, !.policy = pol]
  <2>0. rev \in Nat /\ pol \in DriftPolicy
    BY ConfigConstants
  <2>1. j \in Job /\ j.kind = "apply" /\ j.draft \in Draft
    BY <2>0 DEF Job
  <2>2. Begin(p, j)
    BY <1>1 DEF BeginApply
  <2> HIDE DEF j
  <2> QED
    BY <2>1, <2>2, TypeBegin
<1>2. ASSUME NEW r \in Receipt, BeginUndo(p, r) PROVE TypeInv'
  <2> DEFINE j == [NoJob EXCEPT !.kind = "undo", !.target = r]
  <2>1. j \in Job /\ j.kind = "undo" /\ j.target = r
    BY DEF Job, DriftPolicy
  <2>2. Begin(p, j) /\ journal[r] # None /\ journal[r].ctx # None
    BY <1>2 DEF BeginUndo
  <2> HIDE DEF j
  <2> QED
    BY <2>1, <2>2, TypeBegin
<1>3. CASE BeginRecover(p)
  <2> DEFINE j == [NoJob EXCEPT !.kind = "recover"]
  <2>1. j \in Job /\ j.kind = "recover"
    BY DEF Job, DriftPolicy
  <2>2. Begin(p, j)
    BY <1>3 DEF BeginRecover
  <2> HIDE DEF j
  <2> QED
    BY <2>1, <2>2, TypeBegin
<1>4. ASSUME NEW c \in Conn, BeginPlain(p, c) PROVE TypeInv'
  <2> DEFINE j == [NoJob EXCEPT !.kind = "plain", !.cfg = conns[c]]
  <2>0. conns[c] \in Cfg /\ ~Builtin /\ Begin(p, j)
    BY <1>4 DEF BeginPlain, TypeInv, TypeOK
  <2>1. j \in Job /\ j.kind = "plain" /\ j.cfg = conns[c]
    BY <2>0 DEF Job, DriftPolicy
  <2> HIDE DEF j
  <2> QED
    BY <2>0, <2>1, TypeBegin
<1> QED
  BY <1>1, <1>2, <1>3, <1>4

\* Every step of the specification keeps the invariant.
LEMMA TypeStep == TypeInv /\ [Next]_vars => TypeInv'
<1> SUFFICES ASSUME TypeInv, [Next]_vars PROVE TypeInv'
  OBVIOUS
<1>1. CASE UNCHANGED vars
  <2>1. DataOK' /\ UNCHANGED <<journal, guard, pc, job, mem, outcome>>
    BY <1>1, HolderData DEF vars, DataOK
  <2> QED
    BY <2>1, Outside
<1>2. CASE StartJob
  BY <1>2, TypeStart
<1>3. CASE Recover
  BY <1>3, TypeRecover, TypeRecComplete, TypeRecLocal DEF Recover
<1>4. CASE Transact
  BY <1>4, TypeCas, TypeCheck, TypeWrite, TypeWritten, TypeComplete, TypeMarkUndone,
     TypePrepare DEF Transact
<1>5. CASE Rollback
  BY <1>5, TypeRbRead, TypeRbWrite, TypeRbSave, TypeRestore, TypeFlag DEF Rollback
<1>6. CASE Work
  BY <1>6, TypePlan, TypeLocal, TypeCommitApply, TypeCommitUndo DEF Work
<1>7. CASE Environment
  BY <1>7, TypeDrafts, TypeExternal, TypeEdits, TypeViews, TypeCrash DEF Environment
<1> QED
  BY <1>1, <1>2, <1>3, <1>4, <1>5, <1>6, <1>7 DEF Next, JobStep

\* Every variable has its type, and where the holder acts on a receipt, a context or a
\* draft the code takes for granted, it is there: no crash, failure or other process
\* can make a step read a receipt that does not exist.
THEOREM TypeCorrect == Spec => []TypeOK
<1>1. Spec => []TypeInv
  BY TypeInit, TypeStep, PTL DEF Spec
<1>2. TypeInv => TypeOK
  BY DEF TypeInv
<1> QED
  BY <1>1, <1>2, PTL

-----------------------------------------------------------------------------
(* At most one receipt is pending *)

\* Between jobs there is at most one; from the plan on, only the receipt in hand (none
\* before it is prepared: then mem.rcpt is None).
PendingInv ==
  /\ AtMostOnePending
  /\ pc \notin {"idle", "recover"} => Pending \subseteq {mem.rcpt}

OneInv == TypeInv /\ PendingInv

\* Persisting a state makes no receipt pending but the one in hand.
LEMMA PendingPersist ==
  ASSUME journal \in JournalType, NEW r \in Receipt, journal[r] # None,
         NEW state \in ApplyState, NEW io \in IO, Persist(r, state, io)
  PROVE  Pending' \subseteq IF state \in PendingState THEN Pending \cup {r} ELSE Pending
<1>1. SUFFICES ASSUME NEW x \in Pending'
               PROVE  x \in Pending \/ (x = r /\ state \in PendingState)
  OBVIOUS
<1>2. x \in Receipt /\ journal'[x] # None /\ journal'[x].state \in PendingState
  BY <1>1 DEF Pending
<1>3. CASE x # r
  BY <1>2, <1>3, PersistFacts DEF Pending
<1>4. CASE x = r
  BY <1>2, <1>4, PersistFacts DEF Pending
<1> QED
  BY <1>3, <1>4

\* A step keeps the invariant if nothing becomes pending but the receipt in hand.
LEMMA PendingStep ==
  ASSUME OneInv, pc \in RcptControl, Pending' \subseteq Pending \cup {mem.rcpt},
         mem'.rcpt = mem.rcpt \/ pc' = "idle"
  PROVE  PendingInv'
<1>1. Pending \subseteq {mem.rcpt}
  BY DEF OneInv, PendingInv, RcptControl
<1>2. Pending' \subseteq {mem.rcpt}
  BY <1>1
<1>3. AtMostOnePending'
  BY <1>2 DEF AtMostOnePending
<1> QED
  BY <1>2, <1>3 DEF PendingInv

\* ... or if it leaves the pending receipts alone and does not move past recovery.
LEMMA PendingSame ==
  ASSUME OneInv, Pending' = Pending,
         pc' \in {"idle", "recover"} \/ (mem'.rcpt = mem.rcpt /\ pc \notin {"idle", "recover"})
  PROVE  PendingInv'
  BY DEF OneInv, PendingInv, AtMostOnePending

LEMMA PendingRecover ==
  ASSUME OneInv,
         NoPending \/ PlainRefused \/ RecVerify \/ \E r \in Receipt : RecoverReceipt(r)
  PROVE  PendingInv'
<1>1. UNCHANGED journal /\ Pending' = Pending
  BY DEF NoPending, PlainRefused, RecVerify, RecoverReceipt, durable, Pending
<1>2. CASE NoPending
  BY <1>1, <1>2 DEF NoPending, PendingInv, AtMostOnePending
<1>3. CASE PlainRefused
  BY <1>1, <1>3, PendingSame DEF PlainRefused, Finish
<1>4. CASE RecVerify
  BY <1>1, <1>4, PendingSame DEF RecVerify, Finish, Goto, At
<1>5. ASSUME NEW r \in Receipt, RecoverReceipt(r) PROVE PendingInv'
  <2>1. r \in Pending /\ AtMostOnePending
    BY <1>5 DEF RecoverReceipt, OneInv, PendingInv
  <2>2. pc' = "idle" \/ mem'.rcpt = r
    BY <1>5 DEF RecoverReceipt, Finish, NoMem
  <2> QED
    BY <1>1, <2>1, <2>2 DEF PendingInv, AtMostOnePending
<1> QED
  BY <1>2, <1>3, <1>4, <1>5

LEMMA PendingPrepare ==
  ASSUME OneInv, NEW r \in Receipt, NEW io \in IO, Prepare(r, io)
  PROVE  PendingInv'
<1>1. pc = "prepare" /\ mem.rcpt = None /\ journal \in JournalType
  BY HolderData DEF Prepare, At, OneInv, TypeInv, ControlOK
<1>2. Pending = {}
  BY <1>1, ConfigConstants DEF OneInv, PendingInv, Pending
<1>3. Pending' \subseteq {r}
  BY <1>1, <1>2 DEF Prepare, Pending, JournalType
<1>4. pc' = "idle" \/ (pc' = "check" /\ mem'.rcpt = r)
  BY DEF Prepare, Finish, Goto, NoMem
<1> QED
  BY <1>3, <1>4 DEF PendingInv, AtMostOnePending

\* The holder's steps on its receipt.
LEMMA PendingTransact ==
  ASSUME OneInv, NEW io \in IO,
         \/ Check(io) \/ Cas \/ Write(io) \/ Written(io) \/ Complete(io) \/ RecComplete(io)
         \/ RbRead(io) \/ RbWrite(io) \/ RbSave(io) \/ Restore(io) \/ Flag(io)
         \/ Local(io) \/ CommitApply(io) \/ CommitUndo(io) \/ RecLocal(io)
  PROVE  PendingInv'
<1>1. TypeInv
  BY DEF OneInv
<1>2. pc \in RcptControl
  BY DEF Check, Cas, Write, Written, Complete, RecComplete, RbRead, RbWrite, RbSave, Restore,
         Flag, Local, CommitApply, CommitUndo, RecLocal, At, RcptControl, Control
<1>3. mem.rcpt \in Receipt /\ journal[mem.rcpt] # None /\ journal \in JournalType
      /\ mem \in Mem
  BY <1>1, <1>2, InHand
<1>4. mem'.rcpt = mem.rcpt \/ pc' = "idle"
  BY <1>3 DEF Check, Cas, Write, Written, Complete, RecComplete, RbRead, RbWrite, RbSave,
              Restore, Flag, Local, CommitApply, CommitUndo, RecLocal, Goto, Finish,
              StartRollback, Mem
<1>5. UNCHANGED journal \/ \E state \in ApplyState : Persist(mem.rcpt, state, io)
  BY DEF Check, Cas, Write, Written, Complete, RecComplete, RbRead, RbWrite, RbSave, Restore,
         Flag, Local, CommitApply, CommitUndo, RecLocal, durable, ApplyState
<1>6. Pending' \subseteq Pending \cup {mem.rcpt}
  BY <1>3, <1>5, PendingPersist DEF Pending
<1> QED
  BY <1>2, <1>4, <1>6, PendingStep

LEMMA PendingMarkUndone ==
  ASSUME OneInv, NEW io \in IO, MarkUndone(io)
  PROVE  PendingInv'
<1>1. TypeInv /\ pc = "markUndone" /\ pc \in RcptControl /\ Txn.undoOf # None
  BY DEF OneInv, MarkUndone, At, RcptControl, Control, TypeInv, ControlOK
<1>2. Txn.undoOf \in Receipt /\ journal[Txn.undoOf] # None /\ journal \in JournalType
  BY <1>1, InHand DEF TypeInv, UndoesAnApply, Txn, ReceiptRec
<1>3. Pending' \subseteq Pending
  BY <1>2, PendingPersist DEF MarkUndone, ApplyState, PendingState
<1>4. mem'.rcpt = mem.rcpt \/ pc' = "idle"
  BY DEF MarkUndone, Goto, Finish
<1> QED
  BY <1>1, <1>3, <1>4, PendingStep

LEMMA PendingPlan ==
  ASSUME OneInv, Reuse \/ PlanApply \/ PlanUndo \/ PlanPlain
  PROVE  PendingInv'
<1>1. pc = "plan" /\ mem.rcpt = None /\ Pending' = Pending
  BY DEF Reuse, PlanApply, PlanUndo, PlanPlain, At, durable, Pending, OneInv, TypeInv, ControlOK
<1>2. pc' = "idle" \/ mem'.rcpt = None
  BY DEF Reuse, PlanApply, PlanUndo, PlanPlain, Finish, NoMem
<1> QED
  BY <1>1, <1>2, PendingSame

LEMMA PendingOthers ==
  ASSUME OneInv, StartJob \/ Environment
  PROVE  PendingInv'
<1>1. Pending' = Pending
  BY DEF StartJob, BeginApply, BeginUndo, BeginRecover, BeginPlain, Begin, Environment,
         CreateDraft, UpdateDraft, DeleteDraft, ExternalWrite, EditConnection, DeleteCheck,
         DeleteRow, ViewObserve, ViewClear, Think, Crash, Restart, durable, Pending
<1>2. CASE StartJob
  <2>1. pc' = "recover"
    BY <1>2 DEF StartJob, BeginApply, BeginUndo, BeginRecover, BeginPlain, Begin
  <2> QED
    BY <1>1, <2>1, PendingSame
<1>3. CASE Environment
  <2>1. UNCHANGED <<pc, mem>> \/ pc' = "idle"
    BY <1>3 DEF Environment, CreateDraft, UpdateDraft, DeleteDraft, ExternalWrite,
                EditConnection, DeleteCheck, DeleteRow, ViewObserve, ViewClear, Think, Crash,
                Restart, Finish
  <2> QED
    BY <1>1, <2>1, PendingSame
<1> QED
  BY <1>2, <1>3

LEMMA PendingNext == OneInv /\ [Next]_vars => PendingInv'
<1> SUFFICES ASSUME OneInv, [Next]_vars PROVE PendingInv'
  OBVIOUS
<1>1. CASE UNCHANGED vars
  BY <1>1 DEF vars, OneInv, PendingInv, AtMostOnePending, Pending
<1>2. CASE StartJob \/ Environment
  BY <1>2, PendingOthers
<1>3. CASE Recover
  BY <1>3, PendingRecover, PendingTransact DEF Recover
<1>4. CASE Transact
  BY <1>4, PendingTransact, PendingMarkUndone, PendingPrepare DEF Transact, IO
<1>5. CASE Rollback
  BY <1>5, PendingTransact DEF Rollback
<1>6. CASE Work
  BY <1>6, PendingPlan, PendingTransact DEF Work
<1> QED
  BY <1>1, <1>2, <1>3, <1>4, <1>5, <1>6 DEF Next, JobStep

\* However many processes share the directory and whatever crashes, at any time at most
\* one receipt has still to be settled: recovery never has to choose an order.
THEOREM OnePending == Spec => []AtMostOnePending
<1>1. Init => OneInv
  <2>1. Init => PendingInv
    BY DEF Init, PendingInv, AtMostOnePending, Pending
  <2> QED
    BY <2>1, TypeInit DEF OneInv
<1>2. OneInv /\ [Next]_vars => OneInv'
  BY TypeStep, PendingNext DEF OneInv
<1>3. OneInv => AtMostOnePending
  BY DEF OneInv, PendingInv
<1> QED
  BY <1>1, <1>2, <1>3, PTL DEF Spec

-----------------------------------------------------------------------------
(* Nothing but recorded bytes is replaced *)

\* Between a check and its rename the file is as the check saw it.
WindowInv ==
  /\ pc = "write" => live[mem.idx] = Txn.before[mem.idx]
  /\ pc = "rbWrite" => ~Foreign(mem.idx)

CheckedInv == TypeInv /\ WindowInv

\* The steps that look at a file before writing it.
LEMMA WindowOpens ==
  ASSUME CheckedInv, NEW io \in IO, Cas \/ RbRead(io)
  PROVE  WindowInv'
<1>1. UNCHANGED <<live, journal>>
  BY DEF Cas, RbRead, durable
<1>2. CASE Cas
  <2>1. pc' = "write" => UNCHANGED mem /\ live[mem.idx] = Txn.before[mem.idx]
    BY <1>2 DEF Cas, StartRollback, Goto
  <2>2. pc' # "rbWrite"
    BY <1>2 DEF Cas, StartRollback, Goto
  <2> QED
    BY <1>1, <2>1, <2>2 DEF WindowInv, Txn
<1>3. CASE RbRead(io)
  <2>1. pc' = "rbWrite" => UNCHANGED mem /\ ~Foreign(mem.idx)
    BY <1>3 DEF RbRead, Goto
  <2>2. pc' # "write"
    BY <1>3 DEF RbRead, Goto
  <2> QED
    BY <1>1, <2>1, <2>2 DEF WindowInv, Txn, Foreign
<1> QED
  BY <1>2, <1>3

\* Every other step of a job leaves the window, or never was in it.
LEMMA WindowShut ==
  ASSUME Next, ~Environment, ~Cas, \A io \in IO : ~RbRead(io)
  PROVE  pc' \notin {"write", "rbWrite"}
<1>1. CASE StartJob
  BY <1>1 DEF StartJob, BeginApply, BeginUndo, BeginRecover, BeginPlain, Begin
<1>2. CASE Recover
  BY <1>2 DEF Recover, NoPending, PlainRefused, RecVerify, RecoverReceipt, RecComplete,
              RecLocal, Goto, Finish
<1>3. CASE Transact
  BY <1>3 DEF Transact, Check, Write, Written, Complete, MarkUndone, Prepare, Goto, Finish,
              StartRollback
<1>4. CASE Rollback
  BY <1>4 DEF Rollback, RbWrite, RbSave, Restore, Flag, Goto, Finish
<1>5. CASE Work
  BY <1>5 DEF Work, Reuse, PlanApply, PlanUndo, PlanPlain, Local, CommitApply, CommitUndo,
              Goto, Finish, StartRollback
<1> QED
  BY <1>1, <1>2, <1>3, <1>4, <1>5 DEF Next, JobStep

LEMMA WindowOthers ==
  ASSUME ~InWindow, CheckedInv, Environment
  PROVE  WindowInv'
<1>1. UNCHANGED journal
  BY DEF Environment, CreateDraft, UpdateDraft, DeleteDraft, ExternalWrite, EditConnection,
         DeleteCheck, DeleteRow, ViewObserve, ViewClear, Think, Crash, Restart, durable
<1>2. ASSUME NEW f \in File, NEW b \in ExtBytes, ExternalWrite(f, b) PROVE WindowInv'
  <2>1. UNCHANGED <<pc, mem>> /\ live' = [live EXCEPT ![f] = b] /\ live \in [File -> Bytes]
    BY <1>2 DEF ExternalWrite, CheckedInv, TypeInv, TypeOK, Cfg
  <2>2. pc \in {"write", "rbWrite"} => mem.idx \in File /\ mem.idx # f
    BY <1>2 DEF ExternalWrite, CheckedInv, TypeInv, ControlOK
  <2>3. pc \in {"write", "rbWrite"} => live'[mem.idx] = live[mem.idx]
    BY <2>1, <2>2
  <2> QED
    BY <1>1, <2>1, <2>3 DEF CheckedInv, WindowInv, Txn, Foreign
<1>3. CASE UNCHANGED <<live, pc, mem>>
  BY <1>1, <1>3 DEF CheckedInv, WindowInv, Txn, Foreign
<1>4. CASE Crash
  BY <1>4 DEF Crash, Finish, WindowInv
<1> QED
  BY <1>2, <1>3, <1>4
     DEF Environment, CreateDraft, UpdateDraft, DeleteDraft, EditConnection, DeleteCheck,
         DeleteRow, ViewObserve, ViewClear, Think, Restart, durable

LEMMA WindowNext == ASSUME ~InWindow, CheckedInv, [Next]_vars PROVE WindowInv'
<1>1. CASE UNCHANGED vars
  BY <1>1 DEF vars, CheckedInv, WindowInv, Txn, Foreign
<1>2. CASE Environment
  BY <1>2, WindowOthers
<1>3. CASE Cas \/ \E io \in IO : RbRead(io)
  BY <1>3, WindowOpens DEF IO
<1>4. CASE Next /\ ~Environment /\ ~Cas /\ \A io \in IO : ~RbRead(io)
  BY <1>4, WindowShut DEF WindowInv
<1> QED
  BY <1>1, <1>2, <1>3, <1>4

\* Only three actions touch a live file.
LEMMA WritersOfLive ==
  ASSUME Next, live' # live
  PROVE  \/ \E io \in IO : Write(io) \/ RbWrite(io)
         \/ \E f \in File, b \in ExtBytes : ExternalWrite(f, b)
<1>1. CASE StartJob
  BY <1>1 DEF StartJob, BeginApply, BeginUndo, BeginRecover, BeginPlain, Begin, durable
<1>2. CASE Recover
  BY <1>2 DEF Recover, NoPending, PlainRefused, RecVerify, RecoverReceipt, RecComplete,
              RecLocal, durable
<1>3. CASE Transact
  BY <1>3 DEF Transact, Cas, Check, Written, Complete, MarkUndone, Prepare, durable
<1>4. CASE Rollback
  BY <1>4 DEF Rollback, RbRead, RbSave, Restore, Flag, durable
<1>5. CASE Work
  BY <1>5 DEF Work, Reuse, PlanApply, PlanUndo, PlanPlain, Local, CommitApply, CommitUndo,
              durable
<1>6. CASE Environment
  BY <1>6 DEF Environment, CreateDraft, UpdateDraft, DeleteDraft, EditConnection, DeleteCheck,
              DeleteRow, ViewObserve, ViewClear, Think, Crash, Restart, durable
<1> QED
  BY <1>1, <1>2, <1>3, <1>4, <1>5, <1>6 DEF Next, JobStep

LEMMA ReplacesRecorded ==
  ASSUME CheckedInv, [Next]_vars, NEW f \in File, live'[f] # live[f], edits' = edits
  PROVE  mem.rcpt # None /\ {live[f], live'[f]} \subseteq {Txn.before[f], Txn.after[f]}
<1>1. Next /\ live' # live
  BY DEF vars
<1>2. ASSUME NEW g \in File, NEW b \in ExtBytes, ExternalWrite(g, b) PROVE FALSE
  BY <1>2, ConfigConstants DEF ExternalWrite, CheckedInv, TypeInv, TypeOK
<1>3. PICK io \in IO : Write(io) \/ RbWrite(io)
  BY <1>1, <1>2, WritersOfLive
<1>4. TypeInv /\ pc \in {"write", "rbWrite"} /\ pc \in RcptControl
  BY <1>3 DEF CheckedInv, Write, RbWrite, At, RcptControl, Control
<1>5. mem.rcpt # None /\ mem.idx \in File /\ live \in [File -> Bytes]
  BY <1>4, InHand, ConfigConstants DEF TypeInv, TypeOK, ControlOK, Cfg
<1>6. CASE Write(io)
  <2>1. live[mem.idx] = Txn.before[mem.idx]
    BY <1>6 DEF Write, At, CheckedInv, WindowInv
  <2>2. f = mem.idx /\ live'[f] = Txn.after[f]
    BY <1>5, <1>6 DEF Write, WriteFile
  <2> QED
    BY <1>5, <2>1, <2>2
<1>7. CASE RbWrite(io)
  <2>1. ~Foreign(mem.idx)
    BY <1>7 DEF RbWrite, At, CheckedInv, WindowInv
  <2>2. f = mem.idx /\ live'[f] = Txn.before[f]
    BY <1>5, <1>7 DEF RbWrite, WriteFile
  <2> QED
    BY <1>5, <2>1, <2>2 DEF Foreign
<1> QED
  BY <1>3, <1>6, <1>7

\* As long as nobody writes in the instant between a check and its rename (the one race
\* the code cannot close), what any job replaces in a live file is what its receipt
\* recorded: bytes another program put there are never overwritten, not by an apply, an
\* undo, a rollback or a recovery.
THEOREM ForeignBytesSurvive == ~InWindow /\ Spec => OnlyRecordedBytesReplaced
<1> SUFFICES ASSUME ~InWindow PROVE Spec => OnlyRecordedBytesReplaced
  OBVIOUS
<1>1. Init => CheckedInv
  <2>1. Init => WindowInv
    BY DEF Init, WindowInv
  <2> QED
    BY <2>1, TypeInit DEF CheckedInv
<1>2. CheckedInv /\ [Next]_vars => CheckedInv'
  BY TypeStep, WindowNext DEF CheckedInv
<1>3. CheckedInv /\ [Next]_vars =>
        [\A f \in File :
           live'[f] # live[f] /\ edits' = edits =>
             /\ mem.rcpt # None
             /\ {live[f], live'[f]} \subseteq {Txn.before[f], Txn.after[f]}]_vars
  BY ReplacesRecorded
<1> QED
  BY <1>1, <1>2, <1>3, PTL DEF Spec, OnlyRecordedBytesReplaced

-----------------------------------------------------------------------------
(* The head of the history *)

\* The applications the database may still go back to, S, form a chain that ends in the
\* head: each remembers the one before it, and all but the head are completed.
Chain(S) ==
  /\ head # None => head \in S
  /\ \A s \in S : /\ journal[s] # None /\ journal[s].ctx # None
                  /\ journal[s].state \in {"FilesWritten", "Completed"}
                  /\ s # head => journal[s].state = "Completed"
                  /\ journal[s].ctx.head # None => journal[s].ctx.head \in S
                  /\ journal[s].ctx.head # head
  /\ \A s, t \in S : journal[s].ctx.head = journal[t].ctx.head => s = t

\* Where the receipt in hand has no effect on the database yet, or will have none.
NotCommitted == {"check", "cas", "write", "written", "local", "commit",
                 "rbRead", "rbWrite", "rbSave", "restore", "flag", "recLocal"}
Applying == {"check", "cas", "write", "written", "local", "commit"}

AfterUndo == \/ pc \in {"recVerify", "recComplete", "markUndone"}
             \/ pc = "complete" /\ job.kind = "undo"

\* The receipt in hand joins the chain, or what it undoes leaves it, with the commit.
HandChain(S) ==
  /\ pc \in NotCommitted => mem.rcpt \notin S
  /\ AfterUndo => Txn.undoOf \notin S
  /\ pc \in RcptControl /\ Txn.undoOf \in S => Txn.undoOf = head
  /\ pc \in {"local", "commit", "complete"} => Txn.state = "FilesWritten"
  /\ pc = "prepare" /\ job.kind = "apply" => mem.rec.ctx.head = head
  /\ pc = "prepare" /\ job.kind = "undo" => mem.rec.undoOf = head
  /\ pc \in Applying /\ job.kind = "apply" => Txn.ctx.head = head

\* A receipt still to be settled undoes the head, or something already undone.
PendingChain(S) ==
  \A u \in Pending : journal[u].undoOf \in S => journal[u].undoOf = head

HeadInv == \E S \in SUBSET Receipt : Chain(S) /\ HandChain(S) /\ PendingChain(S)

\* What the steps start from, for the chain at hand.
Linked(S) == Chain(S) /\ HandChain(S) /\ PendingChain(S)

LEMMA ChainKept ==
  ASSUME NEW S \in SUBSET Receipt, Chain(S), SameReceipts, UNCHANGED head,
         \A x \in S : journal'[x].state \in {journal[x].state, "Completed"}
  PROVE  Chain(S)'
<1>1. \A x \in S : /\ journal'[x] # None /\ journal'[x].ctx = journal[x].ctx
  BY DEF Chain, SameReceipts
<1> QED
  BY <1>1 DEF Chain

LEMMA PendingKept ==
  ASSUME NEW S \in SUBSET Receipt, PendingChain(S), SameReceipts, UNCHANGED head,
         NEW r, Pending' \subseteq Pending \cup {r},
         r \in Receipt /\ journal[r] # None,
         journal[r].undoOf \in S => journal[r].undoOf = head
  PROVE  PendingChain(S)'
<1>1. SUFFICES ASSUME NEW u \in Pending', journal'[u].undoOf \in S
               PROVE  journal'[u].undoOf = head
  BY DEF PendingChain
<1>2. journal'[u].undoOf = journal[u].undoOf
  BY <1>1 DEF SameReceipts, Pending
<1> QED
  BY <1>1, <1>2 DEF PendingChain

\* Nothing is in hand.
LEMMA HandFree ==
  ASSUME NEW S \in SUBSET Receipt, pc' \in {"idle", "recover", "plan"}
  PROVE  HandChain(S)'
  BY DEF HandChain, NotCommitted, Applying, RcptControl, AfterUndo

\* A step of the holder that leaves the head and the chain alone.
LEMMA Holds ==
  ASSUME OneInv, NEW S \in SUBSET Receipt, Linked(S), pc \in RcptControl, UNCHANGED head,
         NEW io \in IO, NEW state \in ApplyState,
         UNCHANGED journal \/ Persist(mem.rcpt, state, io),
         mem.rcpt \in S => UNCHANGED journal \/ state = "Completed",
         \/ pc' \in {"idle", "recover"}
         \/ /\ pc' \in RcptControl /\ mem'.rcpt = mem.rcpt /\ UNCHANGED job
            /\ pc' \in NotCommitted => pc \in NotCommitted
            /\ AfterUndo' => AfterUndo
            /\ pc' \in {"local", "commit", "complete"} => journal'[mem.rcpt].state = "FilesWritten"
            /\ pc' \in Applying => pc \in Applying
  PROVE  HeadInv'
<1>1. mem.rcpt \in Receipt /\ journal[mem.rcpt] # None /\ journal \in JournalType
  BY InHand DEF OneInv
<1>2. SameReceipts
  BY <1>1, UnchangedKeeps, PersistKeeps
<1>3. Pending' \subseteq Pending \cup {mem.rcpt}
  BY <1>1, PendingPersist DEF Pending
<1>4. \A x \in S : journal'[x].state \in {journal[x].state, "Completed"}
  BY <1>1, PersistFacts
<1>5. Chain(S)'
  BY <1>2, <1>4, ChainKept DEF Linked
<1>6. Txn.undoOf \in S => Txn.undoOf = head
  BY DEF Linked, HandChain
<1>7. PendingChain(S)'
  BY <1>1, <1>2, <1>3, <1>6, PendingKept DEF Linked, Txn
<1>8. HandChain(S)'
  <2>1. CASE pc' \in {"idle", "recover"}
    BY <2>1, HandFree
  <2>2. CASE pc' \in RcptControl /\ mem'.rcpt = mem.rcpt /\ pc' \notin {"idle", "recover"}
    <3>1. Txn'.undoOf = Txn.undoOf /\ Txn'.ctx = Txn.ctx
      BY <1>1, <1>2, <2>2 DEF SameReceipts, Txn
    <3>2. pc' # "prepare" /\ HandChain(S)
      BY <2>2 DEF RcptControl, Linked
    <3>3. Txn'.state = journal'[mem.rcpt].state
      BY <2>2 DEF Txn
    <3> QED
      BY <2>2, <3>1, <3>2, <3>3 DEF HandChain
  <2> QED
    BY <2>1, <2>2 DEF RcptControl
<1> QED
  BY <1>5, <1>7, <1>8 DEF HeadInv

\* Steps that change neither receipts nor head.
LEMMA Idles ==
  ASSUME OneInv, NEW S \in SUBSET Receipt, Linked(S), UNCHANGED <<journal, head>>,
         HandChain(S)'
  PROVE  HeadInv'
<1>1. Chain(S)' /\ PendingChain(S)'
  BY DEF Linked, Chain, PendingChain, Pending
<1> QED
  BY <1>1 DEF HeadInv

\* The steps of a transaction before its commit, and of a rollback.
LEMMA HeadUncommitted ==
  ASSUME OneInv, NEW S \in SUBSET Receipt, Linked(S), NEW io \in IO,
         \/ Check(io) \/ Cas \/ Write(io) \/ Written(io) \/ Local(io)
         \/ RbRead(io) \/ RbWrite(io) \/ RbSave(io) \/ Restore(io) \/ Flag(io) \/ RecLocal(io)
  PROVE  HeadInv'
<1>0. TypeInv /\ mem \in Mem
  BY DEF OneInv, TypeInv, TypeOK
<1>1. pc \in RcptControl /\ pc \in NotCommitted /\ UNCHANGED head
  BY DEF Check, Cas, Write, Written, Local, RbRead, RbWrite, RbSave, Restore, Flag, RecLocal,
         At, RcptControl, Control, NotCommitted, durable
<1>2. mem.rcpt \notin S
  BY <1>1 DEF Linked, HandChain
<1>3. mem.rcpt \in Receipt /\ journal[mem.rcpt] # None /\ journal \in JournalType
  BY <1>0, <1>1, InHand
<1>4. UNCHANGED journal \/ \E state \in ApplyState : Persist(mem.rcpt, state, io)
  BY DEF Check, Cas, Write, Written, Local, RbRead, RbWrite, RbSave, Restore, Flag, RecLocal,
         durable, ApplyState
<1>5. ASSUME pc' \notin {"idle", "recover"}
      PROVE  /\ pc' \in RcptControl /\ mem'.rcpt = mem.rcpt /\ UNCHANGED job
             /\ ~AfterUndo'
             /\ pc' \in Applying => pc \in Applying
    BY <1>0, <1>5
       DEF Check, Cas, Write, Written, Local, RbRead, RbWrite, RbSave, Restore, Flag, RecLocal,
           At, Goto, Finish, StartRollback, Mem, RcptControl, Control, AfterUndo, Applying,
           TypeInv, ControlOK, JobControl, OfJob
<1>6. pc' \in {"local", "commit", "complete"} => journal'[mem.rcpt].state = "FilesWritten"
  <2>1. CASE Written(io)
    <3>1. pc' \in {"local", "commit", "complete"} => io = "ok"
      BY <2>1 DEF Written, StartRollback, Goto
    <3>2. Persist(mem.rcpt, "FilesWritten", io)
      BY <2>1 DEF Written
    <3> QED
      BY <1>3, <3>1, <3>2, PersistFacts DEF ApplyState
  <2>2. CASE Local(io)
    <3>1. Txn.state = "FilesWritten" /\ UNCHANGED journal
      BY <2>2 DEF Local, At, Linked, HandChain
    <3> QED
      BY <3>1 DEF Txn
  <2>3. CASE ~Written(io) /\ ~Local(io)
    BY <2>3 DEF Check, Cas, Write, RbRead, RbWrite, RbSave, Restore, Flag, RecLocal,
                Goto, Finish, StartRollback
  <2> QED
    BY <2>1, <2>2, <2>3
<1> QED
  BY <1>1, <1>2, <1>4, <1>5, <1>6, Holds DEF ApplyState

\* Completing, in a job or in recovery.
LEMMA HeadComplete ==
  ASSUME OneInv, NEW S \in SUBSET Receipt, Linked(S), NEW io \in IO,
         Complete(io) \/ RecComplete(io)
  PROVE  HeadInv'
<1>1. pc \in RcptControl /\ UNCHANGED head /\ Persist(mem.rcpt, "Completed", io)
  BY DEF Complete, RecComplete, At, RcptControl, Control
<1>2. ASSUME pc' \notin {"idle", "recover"}
      PROVE  pc' = "markUndone" /\ UNCHANGED <<mem, job>> /\ AfterUndo
  BY <1>2 DEF Complete, RecComplete, At, Goto, Finish, AfterUndo
<1>3. "markUndone" \in RcptControl /\ "markUndone" \notin NotCommitted \cup Applying
  BY DEF RcptControl, Control, NotCommitted, Applying
<1> QED
  BY <1>1, <1>2, <1>3, Holds DEF ApplyState

\* The original of an undo is off the chain when it is marked.
LEMMA HeadMarkUndone ==
  ASSUME OneInv, NEW S \in SUBSET Receipt, Linked(S), NEW io \in IO, MarkUndone(io)
  PROVE  HeadInv'
<1>1. TypeInv /\ pc = "markUndone" /\ pc \in RcptControl /\ Txn.undoOf # None
      /\ UNCHANGED head
  BY DEF OneInv, MarkUndone, At, RcptControl, Control, TypeInv, ControlOK
<1>2. Txn.undoOf \in Receipt /\ journal[Txn.undoOf] # None /\ journal \in JournalType
  BY <1>1, InHand DEF TypeInv, UndoesAnApply, Txn, ReceiptRec
<1>3. Txn.undoOf \notin S
  BY <1>1 DEF Linked, HandChain, AfterUndo
<1>4. SameReceipts /\ \A x \in S : journal'[x].state = journal[x].state
  BY <1>2, <1>3, PersistKeeps, PersistFacts DEF MarkUndone, ApplyState
<1>5. Chain(S)'
  BY <1>1, <1>4, ChainKept DEF Linked
<1>6. Pending' \subseteq Pending
  BY <1>2, PendingPersist DEF MarkUndone, ApplyState, PendingState
<1>7. PendingChain(S)'
  <2>1. SUFFICES ASSUME NEW u \in Pending', journal'[u].undoOf \in S
                 PROVE  journal'[u].undoOf = head
    BY <1>1 DEF PendingChain
  <2>2. u \in Pending /\ journal'[u].undoOf = journal[u].undoOf
    BY <1>4, <1>6, <2>1 DEF SameReceipts, Pending
  <2> QED
    BY <2>1, <2>2 DEF Linked, PendingChain
<1>8. HandChain(S)'
  BY HandFree DEF MarkUndone, Goto, Finish
<1> QED
  BY <1>5, <1>7, <1>8 DEF HeadInv

\* Recovery takes up a receipt: it joined the chain only if the database says so.
LEMMA HeadRecover ==
  ASSUME OneInv, NEW S \in SUBSET Receipt, Linked(S),
         NoPending \/ PlainRefused \/ RecVerify \/ \E r \in Receipt : RecoverReceipt(r)
  PROVE  HeadInv'
<1>1. UNCHANGED <<journal, head>>
  BY DEF NoPending, PlainRefused, RecVerify, RecoverReceipt, durable
<1>2. CASE NoPending \/ PlainRefused
  <2>1. pc' \in {"idle", "plan"}
    BY <1>2 DEF NoPending, PlainRefused, Goto, Finish
  <2> QED
    BY <1>1, <2>1, HandFree, Idles
<1>3. CASE RecVerify
  <2>1. CASE pc' = "idle"
    BY <1>1, <2>1, HandFree, Idles
  <2>2. CASE pc' # "idle"
    <3>1. pc = "recVerify" /\ pc' = "recComplete" /\ UNCHANGED <<mem, job>>
      BY <1>3, <2>2 DEF RecVerify, Goto, Finish, At
    <3>2. HandChain(S)'
      BY <1>1, <3>1
         DEF Linked, HandChain, Txn, AfterUndo, NotCommitted, Applying, RcptControl, Control
    <3> QED
      BY <1>1, <3>2, Idles
  <2> QED
    BY <2>1, <2>2
<1>4. ASSUME NEW r \in Receipt, RecoverReceipt(r) PROVE HeadInv'
  <2>1. CASE pc' = "idle"
    BY <1>1, <2>1, HandFree, Idles
  <2>2. CASE pc' # "idle"
    <3>1. /\ r \in Pending /\ mem'.rcpt = r /\ UNCHANGED job
          /\ journal[r].state # "RecoveryRequired"
          /\ \/ pc' = "recVerify" /\ Committed(r)
             \/ pc' \in {"flag", "rbRead"} /\ ~Committed(r)
      BY <1>4, <2>2 DEF RecoverReceipt, Goto, Finish, NoMem
    <3>2. journal[r] # None /\ r \in Receipt /\ journal[r] \in ReceiptRec
      BY <3>1 DEF Pending, OneInv, TypeInv, TypeOK
    <3>3. journal[r].undoOf \in S => journal[r].undoOf = head
      BY <3>1 DEF Linked, PendingChain
    <3>4. CASE pc' = "recVerify" /\ Committed(r)
      <4>1. journal[r].undoOf \notin S
        BY <3>3, <3>4, ConfigConstants DEF Committed
      <4>2. HandChain(S)'
        BY <1>1, <3>1, <3>4, <4>1
           DEF HandChain, Txn, AfterUndo, NotCommitted, Applying, RcptControl, Control
      <4> QED
        BY <1>1, <4>2, Idles
    <3>5. CASE pc' \in {"flag", "rbRead"} /\ ~Committed(r)
      <4>1. r \notin S
        <5>1. SUFFICES ASSUME r \in S PROVE FALSE
          OBVIOUS
        <5>2. journal[r].ctx # None /\ (r # head => journal[r].state = "Completed")
          BY <5>1 DEF Linked, Chain
        <5>3. journal[r].undoOf = None
          BY <3>2, <5>2 DEF OneInv, TypeInv, UndoesAnApply
        <5>4. r # head
          BY <3>5, <5>2, <5>3 DEF Committed
        <5> QED
          BY <3>1, <5>2, <5>4 DEF Pending, PendingState
      <4>2. HandChain(S)'
        BY <1>1, <3>1, <3>3, <3>5, <4>1
           DEF HandChain, Txn, AfterUndo, NotCommitted, Applying, RcptControl, Control
      <4> QED
        BY <1>1, <4>2, Idles
    <3> QED
      BY <3>1, <3>4, <3>5
  <2> QED
    BY <2>1, <2>2
<1> QED
  BY <1>2, <1>3, <1>4

\* A plan remembers the head it saw.
LEMMA HeadPlan ==
  ASSUME OneInv, NEW S \in SUBSET Receipt, Linked(S),
         Reuse \/ PlanApply \/ PlanUndo \/ PlanPlain
  PROVE  HeadInv'
<1>1. UNCHANGED <<journal, head>>
  BY DEF Reuse, PlanApply, PlanUndo, PlanPlain, durable
<1>2. CASE pc' = "idle"
  BY <1>1, <1>2, HandFree, Idles
<1>3. CASE pc' # "idle"
  <2>1. pc' = "prepare" /\ UNCHANGED job
    BY <1>3 DEF Reuse, PlanApply, PlanUndo, PlanPlain, Goto, Finish
  <2>2. job.kind = "apply" => mem'.rec.ctx.head = head
    BY <1>3 DEF Reuse, PlanApply, PlanUndo, PlanPlain, Finish, ApplyRecord, NoMem
  <2>3. job.kind = "undo" => mem'.rec.undoOf = head
    BY <1>3 DEF Reuse, PlanApply, PlanUndo, PlanPlain, Finish, UndoValid, NoMem
  <2>4. HandChain(S)'
    BY <1>1, <2>1, <2>2, <2>3 DEF HandChain, AfterUndo, NotCommitted, Applying, RcptControl
  <2> QED
    BY <1>1, <2>4, Idles
<1> QED
  BY <1>2, <1>3

\* A new receipt is not on the chain yet.
LEMMA HeadPrepare ==
  ASSUME OneInv, NEW S \in SUBSET Receipt, Linked(S), NEW r \in Receipt, NEW io \in IO,
         Prepare(r, io)
  PROVE  HeadInv'
<1>1. /\ pc = "prepare" /\ journal[r] = None /\ journal \in JournalType /\ UNCHANGED head
      /\ mem.rcpt = None /\ mem.rec \in ReceiptRec
      /\ job.kind \in {"apply", "undo", "plain"}
  BY HolderData
     DEF Prepare, At, Unused, OneInv, TypeInv, TypeOK, ControlOK, Mem
<1>2. Pending = {} /\ r \notin S
  BY <1>1, ConfigConstants DEF OneInv, PendingInv, Pending, Linked, Chain
<1>3. /\ job.kind = "apply" => mem.rec.undoOf = None /\ mem.rec.ctx.head = head
      /\ job.kind = "undo" => mem.rec.undoOf = head
      /\ job.kind = "plain" => mem.rec.undoOf = None
  BY <1>1 DEF Linked, HandChain, OneInv, TypeInv, ControlOK
<1>4. mem.rec.undoOf \in S => mem.rec.undoOf = head
  BY <1>1, <1>3, ConfigConstants
<1>5. \A x \in Receipt : x # r => journal'[x] = journal[x]
  BY <1>1 DEF Prepare, JournalType
<1>6. journal'[r] \in {None, mem.rec}
  BY <1>1 DEF Prepare, JournalType
<1>7. Chain(S)'
  BY <1>1, <1>2, <1>5 DEF Linked, Chain
<1>8. PendingChain(S)'
  BY <1>1, <1>2, <1>4, <1>5, <1>6 DEF PendingChain, Pending
<1>9. HandChain(S)'
  <2>1. CASE pc' = "idle"
    BY <2>1, HandFree
  <2>2. CASE pc' # "idle"
    <3>1. pc' = "check" /\ mem'.rcpt = r /\ UNCHANGED job /\ journal'[r] = mem.rec
      BY <1>1, <2>2 DEF Prepare, Goto, Finish, NoMem, JournalType
    <3> QED
      BY <1>1, <1>2, <1>3, <1>4, <3>1 DEF HandChain, Txn, AfterUndo, Applying
  <2> QED
    BY <2>1, <2>2
<1> QED
  BY <1>7, <1>8, <1>9 DEF HeadInv

\* The commit of an application extends the chain.
LEMMA HeadCommitApply ==
  ASSUME OneInv, NEW S \in SUBSET Receipt, Linked(S), NEW io \in IO, CommitApply(io)
  PROVE  HeadInv'
<1>1. /\ TypeInv /\ pc = "commit" /\ pc \in RcptControl /\ job.kind = "apply" /\ OfJob
      /\ UNCHANGED journal /\ mem \in Mem
  BY DEF OneInv, TypeInv, TypeOK, ControlOK, CommitApply, At, RcptControl, Control, JobControl
<1>2. CASE StartRollback("commit") /\ UNCHANGED head
  <2>1. pc' = "rbRead" /\ mem'.rcpt = mem.rcpt /\ UNCHANGED job
    BY <1>1, <1>2 DEF StartRollback, Goto, Mem
  <2>2. HandChain(S)'
    BY <1>1, <1>2, <2>1
       DEF Linked, HandChain, Txn, AfterUndo, NotCommitted, Applying, RcptControl, Control
  <2> QED
    BY <1>1, <1>2, <2>2, Idles
<1>3. CASE ~(StartRollback("commit") /\ UNCHANGED head)
  <2>0. PICK q \in Receipt : q = mem.rcpt
    BY <1>1, InHand
  <2> DEFINE T == S \cup {q}
  <2>1. head' = mem.rcpt /\ pc' = "complete" /\ UNCHANGED <<mem, job>>
    BY <1>3 DEF CommitApply, Goto
  <2>2. /\ q = mem.rcpt /\ journal[q] # None /\ q \notin S
        /\ Txn.ctx # None /\ Txn.undoOf = None /\ Txn.ctx.head = head
        /\ Txn.state = "FilesWritten"
    BY <1>1, <2>0, InHand DEF OfJob, Linked, HandChain, NotCommitted, Applying
  <2>3. head \in S \cup {None} /\ \A s \in S : journal[s].ctx.head \in S \cup {None}
    BY DEF Linked, Chain
  <2>4. \A s \in S : journal[s].state = "Completed"
    <3>1. \A s \in S : s \notin Pending
      BY <1>1, <2>2 DEF OneInv, PendingInv, RcptControl
    <3> QED
      BY <3>1 DEF Pending, PendingState, Linked, Chain
  <2>5. Chain(T)'
    <3>1. \A s \in T : /\ journal[s] # None /\ journal[s].ctx # None
                       /\ journal[s].state \in {"FilesWritten", "Completed"}
                       /\ s # q => journal[s].state = "Completed"
      BY <2>2, <2>4 DEF Linked, Chain, Txn
    <3>2. \A s \in T : journal[s].ctx.head \in S \cup {None}
      BY <2>2, <2>3 DEF Txn
    <3>3. \A s, t \in T : journal[s].ctx.head = journal[t].ctx.head => s = t
      <4>1. \A s \in S : journal[s].ctx.head # journal[q].ctx.head
        BY <2>2 DEF Linked, Chain, Txn
      <4> QED
        BY <4>1 DEF Linked, Chain
    <3>4. q \notin S \cup {None}
      BY <2>2, ConfigConstants
    <3> HIDE DEF T
    <3>5. q \in T /\ S \subseteq T
      BY DEF T
    <3> QED
      BY <1>1, <2>1, <2>2, <3>1, <3>2, <3>3, <3>4, <3>5 DEF Chain
  <2>6. None \notin T
    BY <2>2, ConfigConstants
  <2>7. HandChain(T)'
    BY <1>1, <2>1, <2>2, <2>6
       DEF HandChain, Txn, AfterUndo, NotCommitted, Applying
  <2>8. PendingChain(T)'
    <3>1. \A u \in Pending' : u = q
      BY <1>1, <2>2 DEF OneInv, PendingInv, Pending, RcptControl
    <3> QED
      BY <1>1, <2>1, <2>2, <2>6, <3>1 DEF PendingChain, Txn
  <2>9. T \in SUBSET Receipt
    BY <2>2
  <2> QED
    BY <2>5, <2>7, <2>8, <2>9 DEF HeadInv
<1> QED
  BY <1>2, <1>3

\* The commit of an undo takes the head off the chain.
LEMMA HeadCommitUndo ==
  ASSUME OneInv, NEW S \in SUBSET Receipt, Linked(S), NEW io \in IO, CommitUndo(io)
  PROVE  HeadInv'
<1>1. /\ TypeInv /\ pc = "commit" /\ pc \in RcptControl /\ job.kind = "undo" /\ OfJob
      /\ UNCHANGED journal /\ mem \in Mem
  BY DEF OneInv, TypeInv, TypeOK, ControlOK, CommitUndo, At, RcptControl, Control, JobControl
<1>2. CASE StartRollback("commit") /\ UNCHANGED head
  <2>1. pc' = "rbRead" /\ mem'.rcpt = mem.rcpt /\ UNCHANGED job
    BY <1>1, <1>2 DEF StartRollback, Goto, Mem
  <2>2. HandChain(S)'
    BY <1>1, <1>2, <2>1
       DEF Linked, HandChain, Txn, AfterUndo, NotCommitted, Applying, RcptControl, Control
  <2> QED
    BY <1>1, <1>2, <2>2, Idles
<1>3. CASE ~(StartRollback("commit") /\ UNCHANGED head)
  <2>0. PICK r \in Receipt : r = job.target
    BY <1>1 DEF TypeInv, ControlOK, JobOK
  <2> DEFINE T == S \ {r}
  <2>1. /\ head = r /\ head' = journal[r].ctx.head /\ pc' = "complete"
        /\ UNCHANGED <<mem, job>>
    BY <1>3, <2>0 DEF CommitUndo, Goto
  <2>2. /\ r \in S /\ Txn.undoOf = r
        /\ Txn.state = "FilesWritten" /\ mem.rcpt \in Receipt
    BY <1>1, <2>0, <2>1, InHand, ConfigConstants
       DEF TypeInv, ControlOK, JobOK, OfJob, Linked, HandChain, Chain
  <2>3. Chain(S) /\ HandChain(S)
    BY DEF Linked
  <2>4. Chain(T)'
    <3>1. head' # None => head' \in T
      BY <2>1, <2>2, <2>3 DEF Chain
    <3>2. \A s \in T : /\ journal[s] # None /\ journal[s].ctx # None
                       /\ journal[s].state = "Completed"
                       /\ journal[s].ctx.head # None => journal[s].ctx.head \in T
                       /\ journal[s].ctx.head # head'
      BY <2>1, <2>2, <2>3 DEF Chain
    <3>3. \A s, t \in T : journal[s].ctx.head = journal[t].ctx.head => s = t
      BY <2>3 DEF Chain
    <3> HIDE DEF T
    <3> QED
      BY <1>1, <3>1, <3>2, <3>3 DEF Chain
  <2>5. HandChain(T)'
    BY <1>1, <2>1, <2>2
       DEF HandChain, Txn, AfterUndo, NotCommitted, Applying
  <2>6. PendingChain(T)'
    <3>1. \A u \in Pending' : u = mem.rcpt
      BY <1>1 DEF OneInv, PendingInv, Pending, RcptControl
    <3> QED
      BY <1>1, <2>2, <3>1 DEF PendingChain, Txn
  <2> QED
    BY <2>4, <2>5, <2>6 DEF HeadInv
<1> QED
  BY <1>2, <1>3

LEMMA HeadOthers ==
  ASSUME OneInv, NEW S \in SUBSET Receipt, Linked(S), StartJob \/ Environment
  PROVE  HeadInv'
<1>1. UNCHANGED <<journal, head>>
  BY DEF StartJob, BeginApply, BeginUndo, BeginRecover, BeginPlain, Begin, Environment,
         CreateDraft, UpdateDraft, DeleteDraft, ExternalWrite, EditConnection, DeleteCheck,
         DeleteRow, ViewObserve, ViewClear, Think, Crash, Restart, durable
<1>2. pc' \in {"idle", "recover"} \/ UNCHANGED <<pc, mem, job>>
  BY DEF StartJob, BeginApply, BeginUndo, BeginRecover, BeginPlain, Begin, Environment,
         CreateDraft, UpdateDraft, DeleteDraft, ExternalWrite, EditConnection, DeleteCheck,
         DeleteRow, ViewObserve, ViewClear, Think, Crash, Restart, durable, Finish
<1>3. UNCHANGED <<pc, mem, job>> => HandChain(S)'
  BY <1>1 DEF Linked, HandChain, Txn, AfterUndo
<1> QED
  BY <1>1, <1>2, <1>3, HandFree, Idles

LEMMA HeadNext == OneInv /\ HeadInv /\ [Next]_vars => HeadInv'
<1> SUFFICES ASSUME OneInv, HeadInv, [Next]_vars PROVE HeadInv'
  OBVIOUS
<1>1. PICK S \in SUBSET Receipt : Linked(S)
  BY DEF HeadInv, Linked
<1>2. CASE UNCHANGED vars
  <2>1. UNCHANGED <<journal, head>> /\ HandChain(S)'
    BY <1>1, <1>2 DEF vars, Linked, HandChain, Txn, AfterUndo
  <2> QED
    BY <1>1, <2>1, Idles
<1>3. CASE StartJob \/ Environment
  BY <1>1, <1>3, HeadOthers
<1>4. CASE Recover
  BY <1>1, <1>4, HeadRecover, HeadComplete, HeadUncommitted DEF Recover
<1>5. CASE Transact
  BY <1>1, <1>5, HeadUncommitted, HeadComplete, HeadMarkUndone, HeadPrepare DEF Transact, IO
<1>6. CASE Rollback
  BY <1>1, <1>6, HeadUncommitted DEF Rollback
<1>7. CASE Work
  BY <1>1, <1>7, HeadPlan, HeadUncommitted, HeadCommitApply, HeadCommitUndo DEF Work
<1> QED
  BY <1>2, <1>3, <1>4, <1>5, <1>6, <1>7 DEF Next, JobStep

LEMMA HeadInit == Init => HeadInv
<1> SUFFICES ASSUME Init PROVE HeadInv
  OBVIOUS
<1>1. Chain({}) /\ HandChain({}) /\ PendingChain({})
  BY DEF Init, Chain, HandChain, PendingChain, AfterUndo, NotCommitted, Applying, RcptControl
<1> QED
  BY <1>1 DEF HeadInv

\* The receipt the database names as the last application is one whose files were all
\* written, and so is every one before it that an undo could go back to: whatever crashed
\* or failed, the history never leads to a receipt that was rolled back or flagged.
THEOREM HeadWritten == Spec => []HeadIsWritten
<1>1. Init => OneInv /\ HeadInv
  <2>1. Init => PendingInv
    BY DEF Init, PendingInv, AtMostOnePending, Pending
  <2> QED
    BY <2>1, TypeInit, HeadInit DEF OneInv
<1>2. OneInv /\ HeadInv /\ [Next]_vars => (OneInv /\ HeadInv)'
  BY TypeStep, PendingNext, HeadNext DEF OneInv
<1>3. OneInv /\ HeadInv => HeadIsWritten
  BY DEF HeadInv, Chain, HeadIsWritten
<1> QED
  BY <1>1, <1>2, <1>3, PTL DEF Spec

\* The history of receipts is sound at any time, for any number of processes, files and
\* faults: one receipt to settle at most, and none that was rolled back is called the last.
THEOREM HistoryAlwaysSound == Spec => []HistoryIsSound
BY OnePending, HeadWritten, PTL DEF HistoryIsSound

-----------------------------------------------------------------------------
(* The draft an application consumes *)

\* The context names the draft of the job; the draft is the one planned from, has been
\* edited since, or is gone.
OfPlan(ctx) ==
  /\ ctx.draft = job.draft /\ ctx.rev = job.rev
  /\ drafts[job.draft] # None =>
       /\ drafts[job.draft].rev >= job.rev
       /\ drafts[job.draft].rev = job.rev =>
            drafts[job.draft].input = ctx.input /\ drafts[job.draft].base = ctx.base

DraftInv ==
  job.kind = "apply" => /\ pc = "prepare" => OfPlan(mem.rec.ctx)
                        /\ pc \in Applying => OfPlan(Txn.ctx)

DraftContext == TypeInv /\ DraftInv

\* Drafts are created under new ids, edited to higher revisions, or deleted.
LEMMA DraftsMove ==
  ASSUME DraftContext, job.kind = "apply", UNCHANGED job, NEW ctx, OfPlan(ctx),
         \/ UNCHANGED drafts
         \/ \E d \in Draft : \/ \E i \in Input : CreateDraft(d, i) \/ UpdateDraft(d, i)
                             \/ DeleteDraft(d)
  PROVE  OfPlan(ctx)'
<1>1. CASE UNCHANGED drafts
  BY <1>1 DEF OfPlan
<1>2. ASSUME NEW d \in Draft, \/ \E i \in Input : CreateDraft(d, i) \/ UpdateDraft(d, i)
                              \/ DeleteDraft(d)
      PROVE  OfPlan(ctx)'
  <2>1. /\ job.draft \in Draft /\ job.rev \in Nat
        /\ drafts \in [Draft -> DraftRec \cup {None}]
    <3>1. pc = "prepare" \/ job.draft \in Draft
      BY DEF DraftContext, TypeInv, ControlOK, JobOK
    <3> QED
      BY <3>1 DEF DraftContext, TypeInv, TypeOK, ControlOK, JobOK, Job
  <2>2. CASE job.draft # d
    <3>1. drafts'[job.draft] = drafts[job.draft]
      BY <1>2, <2>1, <2>2 DEF CreateDraft, UpdateDraft, DeleteDraft
    <3> QED
      BY <3>1 DEF OfPlan
  <2>3. CASE job.draft = d /\ DeleteDraft(d)
    BY <2>1, <2>3 DEF DeleteDraft, OfPlan
  <2>4. ASSUME job.draft = d, NEW i \in Input, UpdateDraft(d, i) PROVE OfPlan(ctx)'
    <3>1. drafts[d] \in DraftRec /\ drafts'[d] = [drafts[d] EXCEPT !.rev = @ + 1, !.input = i]
      BY <2>1, <2>4 DEF UpdateDraft
    <3>2. drafts'[d].rev = drafts[d].rev + 1 /\ drafts[d].rev \in Nat
      BY <3>1 DEF DraftRec
    <3>3. drafts[d].rev >= job.rev
      BY <2>4 DEF OfPlan, UpdateDraft
    <3> QED
      BY <2>1, <2>4, <3>2, <3>3 DEF OfPlan
  <2> QED
    BY <1>2, <2>2, <2>3, <2>4 DEF CreateDraft
<1> QED
  BY <1>1, <1>2

\* The steps of the transaction leave the drafts and the context alone.
LEMMA DraftTransact ==
  ASSUME DraftContext, NEW io \in IO,
         Check(io) \/ Cas \/ Write(io) \/ Written(io) \/ Local(io)
  PROVE  DraftInv'
<1>1. /\ pc \in RcptControl /\ pc \in Applying /\ UNCHANGED drafts /\ TypeInv
  BY DEF Check, Cas, Write, Written, Local, At, RcptControl, Control, Applying, durable,
         DraftContext
<1>2. mem.rcpt \in Receipt /\ journal[mem.rcpt] # None /\ journal \in JournalType /\ mem \in Mem
  BY <1>1, InHand
<1>3. UNCHANGED journal \/ \E state \in ApplyState : Persist(mem.rcpt, state, io)
  BY DEF Check, Cas, Write, Written, Local, durable, ApplyState
<1>4. SameReceipts
  BY <1>2, <1>3, PersistKeeps, UnchangedKeeps
<1>5. \/ pc' \in {"idle", "rbRead", "complete"}
      \/ pc' \in Applying /\ mem'.rcpt = mem.rcpt /\ UNCHANGED job
  BY <1>2 DEF Check, Cas, Write, Written, Local, Goto, Finish, StartRollback, Mem, Applying
<1>6. CASE pc' \in {"idle", "rbRead", "complete"}
  BY <1>6 DEF DraftInv, Applying
<1>7. CASE pc' \in Applying /\ mem'.rcpt = mem.rcpt /\ UNCHANGED job
  <2>1. Txn'.ctx = Txn.ctx
    BY <1>2, <1>4, <1>7 DEF SameReceipts, Txn
  <2>2. ASSUME job.kind = "apply" PROVE OfPlan(Txn.ctx)'
    <3>1. PICK ctx : ctx = Txn.ctx /\ OfPlan(ctx)
      BY <1>1, <2>2 DEF DraftContext, DraftInv
    <3>2. OfPlan(ctx)'
      BY <1>1, <1>7, <2>2, <3>1, DraftsMove
    <3> QED
      BY <2>1, <3>1, <3>2 DEF OfPlan
  <2> QED
    BY <1>7, <2>2 DEF DraftInv, Applying
<1> QED
  BY <1>5, <1>6, <1>7

LEMMA DraftPlan ==
  ASSUME DraftContext, PlanApply \/ PlanUndo \/ PlanPlain
  PROVE  DraftInv'
<1>1. CASE pc' = "idle" \/ PlanUndo \/ PlanPlain
  <2>1. pc' = "idle" \/ (pc' = "prepare" /\ job'.kind # "apply")
    BY <1>1 DEF PlanUndo, PlanPlain, Finish, Goto
  <2> QED
    BY <2>1 DEF DraftInv, Applying
<1>2. CASE PlanApply /\ pc' # "idle"
  <2> DEFINE dr == drafts[job.draft]
  <2>1. /\ mem'.rec = ApplyRecord(guard, dr) /\ dr.rev = job.rev /\ pc' = "prepare"
        /\ UNCHANGED <<job, drafts>>
    BY <1>2 DEF PlanApply, Finish, Goto, NoMem, durable
  <2>2. /\ mem'.rec.ctx.draft = job.draft /\ mem'.rec.ctx.rev = job.rev
        /\ mem'.rec.ctx.input = dr.input /\ mem'.rec.ctx.base = dr.base
    BY <2>1 DEF ApplyRecord
  <2>3. dr # None => dr.rev \in Nat
    BY <1>2 DEF PlanApply, DraftContext, TypeInv, TypeOK, ControlOK, JobOK, DraftRec
  <2>4. OfPlan(mem.rec.ctx)'
    BY <2>1, <2>2, <2>3 DEF OfPlan
  <2> QED
    BY <2>1, <2>4 DEF DraftInv, Applying
<1> QED
  BY <1>1, <1>2

LEMMA DraftPrepare ==
  ASSUME DraftContext, NEW r \in Receipt, NEW io \in IO, Prepare(r, io)
  PROVE  DraftInv'
<1>1. CASE pc' = "idle"
  BY <1>1 DEF DraftInv, Applying
<1>2. CASE pc' # "idle"
  <2>1. /\ pc = "prepare" /\ pc' = "check" /\ mem'.rcpt = r /\ UNCHANGED <<job, drafts>>
        /\ journal'[r] = mem.rec
    BY <1>2 DEF Prepare, At, Goto, Finish, NoMem, DraftContext, TypeInv, TypeOK
  <2>2. Txn'.ctx = mem.rec.ctx
    BY <2>1 DEF Txn
  <2>3. job.kind = "apply" => OfPlan(mem.rec.ctx)
    BY <2>1 DEF DraftContext, DraftInv
  <2>4. job.kind = "apply" => OfPlan(Txn.ctx)'
    BY <2>1, <2>2, <2>3 DEF OfPlan
  <2> QED
    BY <2>1, <2>4 DEF DraftInv
<1> QED
  BY <1>1, <1>2

LEMMA DraftOthers ==
  ASSUME DraftContext, StartJob \/ Environment \/ UNCHANGED vars
  PROVE  DraftInv'
<1>1. CASE pc' \in {"idle", "recover"}
  BY <1>1 DEF DraftInv, Applying
<1>2. CASE /\ UNCHANGED <<pc, job, mem, journal>>
           /\ \/ UNCHANGED drafts
              \/ \E d \in Draft : \/ \E i \in Input : CreateDraft(d, i) \/ UpdateDraft(d, i)
                                  \/ DeleteDraft(d)
  <2>1. ASSUME job.kind = "apply", pc = "prepare" PROVE OfPlan(mem.rec.ctx)'
    <3>1. PICK ctx : ctx = mem.rec.ctx /\ OfPlan(ctx)
      BY <2>1 DEF DraftContext, DraftInv
    <3>2. OfPlan(ctx)'
      BY <1>2, <2>1, <3>1, DraftsMove
    <3> QED
      BY <1>2, <3>1, <3>2 DEF OfPlan
  <2>2. ASSUME job.kind = "apply", pc \in Applying PROVE OfPlan(Txn.ctx)'
    <3>1. PICK ctx : ctx = Txn.ctx /\ OfPlan(ctx)
      BY <2>2 DEF DraftContext, DraftInv
    <3>2. OfPlan(ctx)'
      BY <1>2, <2>2, <3>1, DraftsMove
    <3>3. Txn' = Txn
      BY <1>2 DEF Txn
    <3> QED
      BY <3>1, <3>2, <3>3 DEF OfPlan
  <2> QED
    BY <1>2, <2>1, <2>2 DEF DraftInv
<1>3. ASSUME NEW d \in Draft, \/ \E i \in Input : CreateDraft(d, i) \/ UpdateDraft(d, i)
                              \/ DeleteDraft(d)
      PROVE  DraftInv'
  BY <1>2, <1>3 DEF CreateDraft, UpdateDraft, DeleteDraft
<1> QED
  BY <1>1, <1>2, <1>3
     DEF StartJob, BeginApply, BeginUndo, BeginRecover, BeginPlain, Begin, Environment, vars,
         ExternalWrite, EditConnection, DeleteCheck, DeleteRow, ViewObserve, ViewClear, Think,
         Crash, Restart, Finish, durable

LEMMA DraftNext == DraftContext /\ [Next]_vars => DraftInv'
<1> SUFFICES ASSUME DraftContext, [Next]_vars PROVE DraftInv'
  OBVIOUS
<1>1. CASE StartJob \/ Environment \/ UNCHANGED vars
  BY <1>1, DraftOthers
<1>2. CASE \E io \in IO : \/ Check(io) \/ Cas \/ Write(io) \/ Written(io) \/ Local(io)
                          \/ \E r \in Receipt : Prepare(r, io)
  BY <1>2, DraftTransact, DraftPrepare
<1>3. CASE PlanApply \/ PlanUndo \/ PlanPlain
  BY <1>3, DraftPlan
<1>4. CASE pc' \notin {"prepare"} \cup Applying
  BY <1>4 DEF DraftInv
<1>5. CASE Recover
  BY <1>4, <1>5
     DEF Recover, NoPending, PlainRefused, RecVerify, RecoverReceipt, RecComplete, RecLocal,
         Goto, Finish, Applying
<1>6. CASE Transact
  <2>1. CASE \E io \in IO : Complete(io) \/ MarkUndone(io)
    BY <1>4, <2>1 DEF Complete, MarkUndone, Goto, Finish, Applying
  <2> QED
    BY <1>2, <1>6, <2>1 DEF Transact, IO
<1>7. CASE Rollback
  BY <1>4, <1>7 DEF Rollback, RbRead, RbWrite, RbSave, Restore, Flag, Goto, Finish, Applying
<1>8. CASE Work
  <2>1. CASE Reuse \/ \E io \in IO : CommitApply(io) \/ CommitUndo(io)
    BY <1>4, <2>1 DEF Reuse, CommitApply, CommitUndo, Goto, Finish, StartRollback, Applying
  <2> QED
    BY <1>2, <1>3, <1>8, <2>1 DEF Work
<1> QED
  BY <1>1, <1>5, <1>6, <1>7, <1>8 DEF Next, JobStep

\* Only two transactions move the head.
LEMMA WhoMovesHead ==
  ASSUME [Next]_vars, head' # head
  PROVE  \E io \in IO : CommitApply(io) \/ CommitUndo(io)
<1>1. CASE StartJob \/ Environment \/ UNCHANGED vars
  BY <1>1
     DEF StartJob, BeginApply, BeginUndo, BeginRecover, BeginPlain, Begin, Environment, vars,
         CreateDraft, UpdateDraft, DeleteDraft, ExternalWrite, EditConnection, DeleteCheck,
         DeleteRow, ViewObserve, ViewClear, Think, Crash, Restart, durable
<1>2. CASE Recover
  BY <1>2 DEF Recover, NoPending, PlainRefused, RecVerify, RecoverReceipt, RecComplete,
              RecLocal, durable
<1>3. CASE Transact
  BY <1>3 DEF Transact, Cas, Check, Write, Written, Complete, MarkUndone, Prepare, durable
<1>4. CASE Rollback
  BY <1>4 DEF Rollback, RbRead, RbWrite, RbSave, Restore, Flag, durable
<1>5. CASE Work
  BY <1>5 DEF Work, Reuse, PlanApply, PlanUndo, PlanPlain, Local, durable
<1> QED
  BY <1>1, <1>2, <1>3, <1>4, <1>5 DEF Next, JobStep

\* An edit of the draft made while its files are being written is neither applied nor
\* lost: the draft the database transaction deletes is, field for field, the one the plan
\* was made from (prepare_draft_application, commit_editor_application and the draft
\* transactions, which do not take the lock).
THEOREM ConsumesThePlanned == Spec => ConsumedDraftIsThePlanned
<1>1. Init => DraftContext
  <2>1. Init => DraftInv
    BY DEF Init, NoJob, DraftInv
  <2> QED
    BY <2>1, TypeInit DEF DraftContext
<1>2. DraftContext /\ [Next]_vars => DraftContext'
  BY TypeStep, DraftNext DEF DraftContext
<1>3. ASSUME DraftContext, [Next]_vars, pc = "commit", job.kind = "apply", head' # head
      PROVE  drafts[job.draft] = [rev |-> job.rev, input |-> Txn.ctx.input,
                                  base |-> Txn.ctx.base]
  <2>1. PICK io \in IO : CommitApply(io)
    BY <1>3, WhoMovesHead DEF CommitUndo
  <2>2. CommitValid(Txn.ctx) /\ OfPlan(Txn.ctx)
    BY <1>3, <2>1 DEF CommitApply, DraftContext, DraftInv, Applying
  <2>3. drafts[job.draft] \in DraftRec /\ drafts[job.draft].rev = job.rev
    BY <1>3, <2>2 DEF CommitValid, OfPlan, DraftContext, TypeInv, TypeOK, ControlOK, JobOK
  <2>4. drafts[job.draft].input = Txn.ctx.input /\ drafts[job.draft].base = Txn.ctx.base
    BY <2>2, <2>3, NoneIsNoRecord DEF OfPlan
  <2> QED
    BY <2>3, <2>4 DEF DraftRec
<1>4. DraftContext /\ [Next]_vars =>
        [pc = "commit" /\ job.kind = "apply" /\ head' # head =>
           drafts[job.draft] = [rev |-> job.rev, input |-> Txn.ctx.input,
                                base |-> Txn.ctx.base]]_vars
  BY <1>3
<1> QED
  BY <1>1, <1>2, <1>4, PTL DEF Spec, ConsumedDraftIsThePlanned

-----------------------------------------------------------------------------
(* The files at rest *)

\* File f is as cfg has it, or as another program left it.
Same(f, cfg) == live[f] \in {cfg[f]} \cup ExtBytes

AllSame(cfg) == \A f \in File : Same(f, cfg)

\* What the application h (None: the start) gave the files.
AppliedBy(h) == IF h = None THEN InitConns[InitCurrent] ELSE journal[h].after

Rest == AllSame(AppliedCfg)

\* A receipt found the files as the application before it gave them; an undo's swaps
\* what its application found and gave.
ReceiptFiles(R) ==
  /\ R.ctx # None \/ R.undoOf # None
  /\ R.ctx # None =>
       /\ R.ctx.head # None => journal[R.ctx.head] # None
       /\ \A f \in File : R.before[f] \in {AppliedBy(R.ctx.head)[f]} \cup ExtBytes
  /\ R.undoOf # None => /\ R.before = journal[R.undoOf].after
                        /\ R.after = journal[R.undoOf].before

\* r starts from the head and the database does not hold its outcome: every file is as
\* r found it or as r gives it.
Untaken(r) ==
  /\ ~Committed(r)
  /\ journal[r].ctx # None => journal[r].ctx.head = head
  /\ \A f \in File : Same(f, journal[r].before) \/ Same(f, journal[r].after)

DoneControl == {"complete", "recVerify", "recComplete", "markUndone"}

AllReceipts == \A r \in Receipt : journal[r] # None => ReceiptFiles(journal[r])
PendingFiles == \A r \in Pending : Committed(r) \/ Untaken(r)
RestFiles == (\A r \in Pending : Committed(r)) => Rest

\* What the holder has done to the files so far, at each of its places.
HandFiles ==
  /\ pc = "prepare" => ReceiptFiles(mem.rec) /\ mem.rec.state = "Prepared"
  /\ pc \in NotCommitted => Untaken(mem.rcpt)
  /\ pc \in Applying => mem.rcpt \in Pending
  /\ pc \in DoneControl => Committed(mem.rcpt) /\ Rest
  /\ pc = "check" => AllSame(Txn.before)
  /\ pc \in {"cas", "write"} =>
       /\ \A f \in File : f < mem.idx => Same(f, Txn.after)
       /\ \A f \in File : f >= mem.idx => Same(f, Txn.before)
  /\ pc \in {"written", "local", "commit"} => AllSame(Txn.after)
  /\ pc \in {"rbRead", "rbWrite"} /\ ~mem.bad =>
        \A f \in File : f > mem.idx => Same(f, Txn.before)
  /\ pc \in {"rbSave", "restore"} /\ ~mem.bad => AllSame(Txn.before)

FilesInv == AllReceipts /\ PendingFiles /\ RestFiles /\ HandFiles

\* What every step below starts from.
FilesContext == OneInv /\ HeadInv /\ FilesInv /\ Builtin

\* Receipts keep their bytes, and none appears.
SameBytes ==
  \A x \in Receipt :
    /\ journal'[x] = None <=> journal[x] = None
    /\ journal[x] # None =>
         /\ journal'[x].before = journal[x].before /\ journal'[x].after = journal[x].after
         /\ journal'[x].ctx = journal[x].ctx /\ journal'[x].undoOf = journal[x].undoOf

LEMMA PersistBytes ==
  ASSUME journal \in JournalType, NEW r \in Receipt, journal[r] # None,
         NEW state \in ApplyState, NEW io \in IO, Persist(r, state, io)
  PROVE  SameBytes
  BY PersistFacts DEF SameBytes

\* The head is a receipt with a context, and not its own predecessor.
LEMMA HeadThere ==
  ASSUME OneInv, HeadInv, head # None
  PROVE  /\ head \in Receipt /\ journal[head] # None /\ journal[head] \in ReceiptRec
         /\ journal[head].ctx # None /\ journal[head].undoOf = None
         /\ journal[head].ctx.head # head
<1>1. PICK S \in SUBSET Receipt : Linked(S)
  BY DEF HeadInv, Linked
<1>2. head \in S /\ journal[head] # None /\ journal[head].ctx # None
      /\ journal[head].ctx.head # head
  BY <1>1 DEF Linked, Chain
<1>3. journal[head] \in ReceiptRec /\ journal[head].undoOf = None
  BY <1>2 DEF OneInv, TypeInv, TypeOK, UndoesAnApply
<1> QED
  BY <1>2, <1>3

LEMMA AppliedKept ==
  ASSUME OneInv, HeadInv, SameBytes, UNCHANGED head
  PROVE  AppliedCfg' = AppliedCfg
  BY HeadThere DEF SameBytes, AppliedCfg

LEMMA AppliedByKept ==
  ASSUME NEW h \in Receipt \cup {None}, h # None => journal[h] # None, SameBytes
  PROVE  AppliedBy(h)' = AppliedBy(h)
  BY DEF AppliedBy, SameBytes

\* What is true of a receipt's record R stays true of its copy Q.
LEMMA ReceiptFilesKept ==
  ASSUME OneInv, SameBytes, NEW R \in ReceiptRec, NEW Q, ReceiptFiles(R),
         R.undoOf # None => journal[R.undoOf] # None,
         Q.before = R.before, Q.after = R.after, Q.ctx = R.ctx, Q.undoOf = R.undoOf
  PROVE  ReceiptFiles(Q)'
<1>1. ASSUME R.ctx # None
      PROVE  /\ R.ctx.head # None => journal'[R.ctx.head] # None
             /\ AppliedBy(R.ctx.head)' = AppliedBy(R.ctx.head)
  <2>1. PICK h \in Receipt \cup {None} : h = R.ctx.head
    BY <1>1 DEF ReceiptRec, Context
  <2>2. h # None => journal[h] # None
    BY <1>1, <2>1 DEF ReceiptFiles
  <2>3. AppliedBy(h)' = AppliedBy(h)
    BY <2>2, AppliedByKept
  <2> QED
    BY <2>1, <2>2, <2>3 DEF SameBytes
<1>2. ASSUME R.undoOf # None
      PROVE  /\ journal'[R.undoOf].after = journal[R.undoOf].after
             /\ journal'[R.undoOf].before = journal[R.undoOf].before
  BY <1>2 DEF SameBytes, ReceiptRec
<1> QED
  BY <1>1, <1>2 DEF ReceiptFiles

LEMMA AllReceiptsKept ==
  ASSUME OneInv, AllReceipts, SameBytes
  PROVE  AllReceipts'
<1> SUFFICES ASSUME NEW r \in Receipt, journal'[r] # None PROVE ReceiptFiles(journal[r])'
  BY DEF AllReceipts
<1>1. /\ journal[r] \in ReceiptRec /\ ReceiptFiles(journal[r])
      /\ journal[r].undoOf # None => journal[journal[r].undoOf] # None
  BY DEF OneInv, TypeInv, TypeOK, UndoesAnApply, AllReceipts, SameBytes
<1>2. /\ journal'[r].before = journal[r].before /\ journal'[r].after = journal[r].after
      /\ journal'[r].ctx = journal[r].ctx /\ journal'[r].undoOf = journal[r].undoOf
  BY DEF SameBytes
<1> QED
  BY <1>1, <1>2, ReceiptFilesKept

\* Nobody but another program has written.
Calm == \A f \in File : live'[f] \in {live[f]} \cup ExtBytes

LEMMA SameKept ==
  ASSUME Calm, NEW f \in File, NEW cfg, Same(f, cfg)
  PROVE  Same(f, cfg)'
  BY DEF Calm, Same

LEMMA CommittedKept ==
  ASSUME NEW r \in Receipt, journal[r] # None, SameBytes, UNCHANGED head
  PROVE  Committed(r)' <=> Committed(r)
  BY DEF Committed, SameBytes

LEMMA UntakenKept ==
  ASSUME NEW r \in Receipt, journal[r] # None, SameBytes, UNCHANGED head, Calm, Untaken(r)
  PROVE  Untaken(r)'
<1>1. ~Committed(r)'
  BY CommittedKept DEF Untaken
<1>2. /\ journal'[r].before = journal[r].before /\ journal'[r].after = journal[r].after
      /\ journal'[r].ctx = journal[r].ctx
  BY DEF SameBytes
<1>3. ASSUME NEW f \in File
      PROVE  Same(f, journal[r].before)' \/ Same(f, journal[r].after)'
  BY <1>2, SameKept DEF Untaken
<1> QED
  BY <1>1, <1>2, <1>3 DEF Untaken

LEMMA RestKept ==
  ASSUME OneInv, HeadInv, SameBytes, UNCHANGED head, Calm, Rest
  PROVE  Rest'
  BY AppliedKept, SameKept DEF Rest, AllSame

\* An open receipt whose files are all as it found them leaves what was applied before.
LEMMA BackAtRest ==
  ASSUME OneInv, HeadInv, NEW r \in Receipt, journal[r] # None, ReceiptFiles(journal[r]),
         Untaken(r), AllSame(journal[r].before)
  PROVE  Rest
<1>1. journal[r] \in ReceiptRec
  BY DEF OneInv, TypeInv, TypeOK
<1>2. CASE journal[r].undoOf # None
  <2>1. head = journal[r].undoOf /\ head # None
    BY <1>2 DEF Untaken, Committed
  <2>2. AppliedCfg = journal[r].before
    BY <1>2, <2>1 DEF ReceiptFiles, AppliedCfg
  <2> QED
    BY <2>2 DEF Rest
<1>3. CASE journal[r].undoOf = None
  <2>1. journal[r].ctx # None /\ journal[r].ctx.head = head
    BY <1>3 DEF ReceiptFiles, Untaken
  <2>2. AppliedBy(head) = AppliedCfg
    BY DEF AppliedBy, AppliedCfg
  <2>3. \A f \in File : journal[r].before[f] \in {AppliedCfg[f]} \cup ExtBytes
    BY <2>1, <2>2 DEF ReceiptFiles
  <2> QED
    BY <2>3 DEF Rest, AllSame, Same
<1> QED
  BY <1>2, <1>3

\* Nothing is in hand.
LEMMA HandNothing ==
  ASSUME pc' \in {"idle", "recover", "plan"}
  PROVE  HandFiles'
  BY DEF HandFiles, NotCommitted, Applying, DoneControl

\* What is kept while other programs, at most, write.
LEMMA HandQuiet ==
  ASSUME FilesContext, UNCHANGED <<journal, head, pc, mem>>, Calm
  PROVE  HandFiles'
<1>0. TypeInv /\ HandFiles /\ SameBytes
  BY DEF FilesContext, OneInv, FilesInv, SameBytes
<1>1. Txn' = Txn /\ Pending' = Pending
  BY DEF Txn, Pending
<1>2. \A cfg : \A f \in File : Same(f, cfg) => Same(f, cfg)'
  BY SameKept
<1>3. \A cfg : AllSame(cfg) => AllSame(cfg)'
  BY <1>2 DEF AllSame
<1>4. ASSUME pc \in RcptControl
      PROVE  /\ Untaken(mem.rcpt) => Untaken(mem.rcpt)'
             /\ Committed(mem.rcpt) => Committed(mem.rcpt)'
  <2>1. PICK r \in Receipt : r = mem.rcpt /\ journal[r] # None
    BY <1>0, <1>4, InHand
  <2>2. Untaken(r) => Untaken(r)'
    BY <1>0, <2>1, UntakenKept
  <2>3. Committed(r)' <=> Committed(r)
    BY <1>0, <2>1, CommittedKept
  <2> QED
    BY <2>1, <2>2, <2>3 DEF Untaken, Committed, Same
<1>5. Rest => Rest'
  BY <1>0, RestKept DEF FilesContext
<1>6. pc = "prepare" /\ ReceiptFiles(mem.rec) => ReceiptFiles(mem.rec)'
  BY DEF ReceiptFiles, AppliedBy
<1>7. NotCommitted \cup DoneControl \subseteq RcptControl
  BY DEF NotCommitted, DoneControl, RcptControl, Control
<1> QED
  BY <1>0, <1>1, <1>2, <1>3, <1>4, <1>5, <1>6, <1>7 DEF HandFiles

\* Steps that leave the receipts and the head alone, and write no file.
LEMMA FilesQuiet ==
  ASSUME FilesContext, UNCHANGED <<journal, head>>, Calm, HandFiles'
  PROVE  FilesInv'
<1>0. SameBytes /\ Pending' = Pending /\ TypeInv /\ AllReceipts /\ PendingFiles /\ RestFiles
  BY DEF SameBytes, Pending, FilesContext, OneInv, FilesInv
<1>1. AllReceipts'
  BY <1>0, AllReceiptsKept DEF FilesContext
<1>2. \A r \in Pending : /\ Untaken(r) => Untaken(r)'
                         /\ Committed(r)' <=> Committed(r)
  BY <1>0, UntakenKept, CommittedKept DEF Pending
<1>3. PendingFiles'
  BY <1>0, <1>2 DEF PendingFiles
<1>4. RestFiles'
  BY <1>0, <1>2, RestKept DEF RestFiles, FilesContext
<1> QED
  BY <1>1, <1>3, <1>4 DEF FilesInv

\* Steps of the holder on a receipt the database does not hold: the receipt stays as it
\* was, or its files are back before it is no longer pending.
LEMMA FilesHeld ==
  ASSUME FilesContext, pc \in NotCommitted, SameBytes, UNCHANGED head,
         Pending' \subseteq Pending \cup {mem.rcpt},
         \E r \in Receipt : r = mem.rcpt /\ Untaken(r)',
         Rest' \/ mem.rcpt \in Pending',
         HandFiles'
  PROVE  FilesInv'
<1>0. TypeInv /\ AllReceipts /\ pc \in RcptControl
  BY DEF FilesContext, OneInv, FilesInv, NotCommitted, RcptControl, Control
<1>1. AllReceipts'
  BY <1>0, AllReceiptsKept DEF FilesContext
<1>2. PICK r \in Receipt : r = mem.rcpt /\ Untaken(r)'
  OBVIOUS
<1>3. Pending' \subseteq {r}
  BY <1>0, <1>2 DEF FilesContext, OneInv, PendingInv, RcptControl
<1>4. PendingFiles'
  BY <1>2, <1>3 DEF PendingFiles
<1>5. RestFiles'
  BY <1>2 DEF RestFiles, Untaken
<1> QED
  BY <1>1, <1>4, <1>5 DEF FilesInv

\* Steps of the holder on a receipt the database holds.
LEMMA FilesDone ==
  ASSUME FilesContext, pc \in DoneControl, SameBytes, UNCHANGED <<head, live>>,
         Pending' \subseteq Pending \cup {mem.rcpt},
         \/ pc' \in {"idle", "recover"}
         \/ pc' \in DoneControl /\ mem'.rcpt = mem.rcpt
  PROVE  FilesInv'
<1>0. /\ TypeInv /\ AllReceipts /\ pc \in RcptControl /\ Calm
      /\ Rest /\ Committed(mem.rcpt)
  BY DEF FilesContext, OneInv, FilesInv, HandFiles, DoneControl, RcptControl, Control, Calm
<1>1. AllReceipts'
  BY <1>0, AllReceiptsKept DEF FilesContext
<1>2. Rest'
  BY <1>0, RestKept DEF FilesContext
<1>3. PICK r \in Receipt : r = mem.rcpt /\ journal[r] # None
  BY <1>0, InHand
<1>4. Committed(r)'
  BY <1>0, <1>3, CommittedKept
<1>5. Pending' \subseteq {r}
  BY <1>0, <1>3 DEF FilesContext, OneInv, PendingInv, RcptControl
<1>6. PendingFiles' /\ RestFiles'
  BY <1>2, <1>4, <1>5 DEF PendingFiles, RestFiles
<1>7. HandFiles'
  <2>1. CASE pc' \in {"idle", "recover"}
    BY <2>1, HandNothing
  <2>2. CASE pc' \in DoneControl /\ mem'.rcpt = mem.rcpt
    <3>1. Committed(mem.rcpt)'
      BY <1>3, <1>4, <2>2 DEF Committed
    <3> QED
      BY <1>2, <2>2, <3>1 DEF HandFiles, DoneControl, NotCommitted, Applying
  <2> QED
    BY <2>1, <2>2
<1> QED
  BY <1>1, <1>6, <1>7 DEF FilesInv

LEMMA FilesOthers ==
  ASSUME FilesContext, StartJob \/ Environment
  PROVE  FilesInv'
<1>1. UNCHANGED <<journal, head>>
  BY DEF StartJob, BeginApply, BeginUndo, BeginRecover, BeginPlain, Begin, Environment,
         CreateDraft, UpdateDraft, DeleteDraft, ExternalWrite, EditConnection, DeleteCheck,
         DeleteRow, ViewObserve, ViewClear, Think, Crash, Restart, durable
<1>2. pc' \in {"idle", "recover"} \/ UNCHANGED <<pc, mem>>
  BY DEF StartJob, BeginApply, BeginUndo, BeginRecover, BeginPlain, Begin, Environment,
         CreateDraft, UpdateDraft, DeleteDraft, ExternalWrite, EditConnection, DeleteCheck,
         DeleteRow, ViewObserve, ViewClear, Think, Crash, Restart, durable, Finish
<1>3. Calm
  <2>1. ASSUME NEW g \in File, NEW b \in ExtBytes, ExternalWrite(g, b) PROVE Calm
    BY <2>1 DEF ExternalWrite, Calm, FilesContext, OneInv, TypeInv, TypeOK, Cfg
  <2>2. UNCHANGED live => Calm
    BY DEF Calm
  <2> QED
    BY <2>1, <2>2
       DEF StartJob, BeginApply, BeginUndo, BeginRecover, BeginPlain, Begin, Environment,
           CreateDraft, UpdateDraft, DeleteDraft, EditConnection, DeleteCheck,
           DeleteRow, ViewObserve, ViewClear, Think, Crash, Restart, durable
<1>4. HandFiles'
  BY <1>1, <1>2, <1>3, HandNothing, HandQuiet
<1> QED
  BY <1>1, <1>3, <1>4, FilesQuiet

\* Recovery takes up a receipt and looks whether the database holds it.
LEMMA FilesRecover ==
  ASSUME FilesContext,
         NoPending \/ PlainRefused \/ RecVerify \/ \E r \in Receipt : RecoverReceipt(r)
  PROVE  FilesInv'
<1>1. UNCHANGED <<journal, head, live>> /\ Calm
  BY DEF NoPending, PlainRefused, RecVerify, RecoverReceipt, durable, Calm
<1>2. CASE pc' \in {"idle", "plan"}
  BY <1>1, <1>2, HandNothing, FilesQuiet
<1>3. CASE RecVerify /\ pc' # "idle"
  <2>1. pc = "recVerify" /\ pc' = "recComplete" /\ UNCHANGED mem
    BY <1>3 DEF RecVerify, Goto, Finish, At
  <2>2. Committed(mem.rcpt)' <=> Committed(mem.rcpt)
    BY <1>1, <2>1 DEF Committed
  <2>3. Rest' <=> Rest
    BY <1>1 DEF Rest, AllSame, Same, AppliedCfg
  <2>4. HandFiles'
    BY <2>1, <2>2, <2>3
       DEF FilesContext, FilesInv, HandFiles, DoneControl, NotCommitted, Applying
  <2> QED
    BY <1>1, <2>4, FilesQuiet
<1>4. ASSUME NEW r \in Receipt, RecoverReceipt(r), pc' # "idle" PROVE FilesInv'
  <2>1. /\ r \in Pending /\ mem'.rcpt = r /\ journal[r] # None
        /\ \/ pc' = "recVerify" /\ Committed(r)
           \/ pc' = "flag" /\ ~Committed(r)
           \/ pc' = "rbRead" /\ ~Committed(r) /\ mem'.idx = NFiles
    BY <1>4 DEF RecoverReceipt, Goto, Finish, NoMem, Pending
  <2>2. Untaken(r)' <=> Untaken(r)
    BY <1>1 DEF Untaken, Committed, Same
  <2>3. Untaken(mem.rcpt)' <=> Untaken(r)'
    BY <2>1 DEF Untaken, Committed, Same
  <2>4. ~Committed(r) => Untaken(mem.rcpt)'
    BY <2>1, <2>2, <2>3 DEF FilesContext, FilesInv, PendingFiles
  <2>5. Committed(r) => Committed(mem.rcpt)' /\ Rest'
    <3>1. SUFFICES ASSUME Committed(r) PROVE Committed(mem.rcpt)' /\ Rest'
      OBVIOUS
    <3>2. Committed(mem.rcpt)'
      BY <1>1, <2>1, <3>1 DEF Committed
    <3>3. \A x \in Pending : x = r
      BY <2>1 DEF FilesContext, OneInv, PendingInv, AtMostOnePending
    <3>4. Rest
      BY <3>1, <3>3 DEF FilesContext, FilesInv, RestFiles
    <3> QED
      BY <1>1, <3>2, <3>4 DEF Rest, AllSame, Same, AppliedCfg
  <2>6. \A f \in File : ~(f > NFiles)
    BY HolderData DEF File, FilesContext, OneInv
  <2>7. HandFiles'
    BY <2>1, <2>4, <2>5, <2>6 DEF HandFiles, DoneControl, NotCommitted, Applying
  <2> QED
    BY <1>1, <2>7, FilesQuiet
<1> QED
  BY <1>2, <1>3, <1>4
     DEF NoPending, PlainRefused, RecVerify, RecoverReceipt, Finish, Goto

LEMMA FilesComplete ==
  ASSUME FilesContext, NEW io \in IO, Complete(io) \/ RecComplete(io) \/ MarkUndone(io)
  PROVE  FilesInv'
<1>1. /\ pc \in DoneControl /\ pc \in RcptControl /\ TypeInv /\ journal \in JournalType
      /\ UNCHANGED <<head, live>> /\ mem \in Mem
  BY HolderData DEF Complete, RecComplete, MarkUndone, At, DoneControl, RcptControl, Control,
         FilesContext, OneInv, TypeInv, TypeOK
<1>2. mem.rcpt \in Receipt /\ journal[mem.rcpt] # None
  BY <1>1, InHand
<1>3. SameBytes /\ Pending' \subseteq Pending \cup {mem.rcpt}
  <2>1. CASE Complete(io) \/ RecComplete(io)
    <3>1. Persist(mem.rcpt, "Completed", io)
      BY <2>1 DEF Complete, RecComplete
    <3> QED
      BY <1>1, <1>2, <3>1, PersistBytes, PendingPersist DEF ApplyState, PendingState
  <2>2. CASE MarkUndone(io)
    <3>1. Txn.undoOf \in Receipt /\ journal[Txn.undoOf] # None
      BY <1>1, <2>2, InHand
         DEF MarkUndone, At, TypeInv, ControlOK, UndoesAnApply, Txn, ReceiptRec
    <3> QED
      BY <1>1, <2>2, <3>1, PersistBytes, PendingPersist
         DEF MarkUndone, ApplyState, PendingState
  <2> QED
    BY <2>1, <2>2
<1>4. \/ pc' \in {"idle", "recover"}
      \/ pc' \in DoneControl /\ mem'.rcpt = mem.rcpt
  BY DEF Complete, RecComplete, MarkUndone, Goto, Finish, DoneControl
<1> QED
  BY <1>1, <1>3, <1>4, FilesDone

\* Plans are made with no receipt pending: what they find is what was applied last.
LEMMA FilesPlan ==
  ASSUME FilesContext, Reuse \/ PlanApply \/ PlanUndo \/ PlanPlain
  PROVE  FilesInv'
<1>1. UNCHANGED <<journal, head, live>> /\ Calm
  BY DEF Reuse, PlanApply, PlanUndo, PlanPlain, durable, Calm
<1>2. CASE pc' = "idle"
  BY <1>1, <1>2, HandNothing, FilesQuiet
<1>3. ASSUME pc' # "idle" PROVE FilesInv'
  <2>1. pc = "plan" /\ pc' = "prepare" /\ (PlanApply \/ PlanUndo) /\ TypeInv
    BY <1>3 DEF Reuse, PlanApply, PlanUndo, PlanPlain, Goto, Finish, At, FilesContext, OneInv,
                TypeInv, ControlOK, JobOK
  <2>2. Pending = {} /\ Rest
    <3>1. Pending \subseteq {mem.rcpt} /\ mem.rcpt = None
      BY <2>1 DEF FilesContext, OneInv, PendingInv, TypeInv, ControlOK
    <3>2. Pending = {}
      BY <3>1, ConfigConstants DEF Pending
    <3> QED
      BY <3>2 DEF FilesContext, FilesInv, RestFiles
  <2>3. ReceiptFiles(mem'.rec) /\ mem'.rec.state = "Prepared"
    <3>1. CASE PlanApply
      <4> DEFINE R == mem'.rec
      <4>1. /\ R.state = "Prepared" /\ R.before = live /\ R.undoOf = None /\ R.ctx # None
            /\ R.ctx.head = head
        <5>1. R = ApplyRecord(guard, drafts[job.draft])
          BY <1>3, <3>1 DEF PlanApply, NoMem, Finish
        <5>2. guard \in Proc /\ drafts[job.draft] \in DraftRec /\ job.draft \in Draft
              /\ job.rev \in Nat /\ job.policy \in DriftPolicy
          BY <2>1, <3>1 DEF PlanApply, TypeInv, TypeOK, ControlOK, JobOK, Job
        <5>3. ApplyRecord(guard, drafts[job.draft]).ctx # None
          BY <2>1, <5>2, ApplyRecordType
        <5> QED
          BY <5>1, <5>3 DEF ApplyRecord
      <4>2. head # None => journal[head] # None
        BY HeadThere DEF FilesContext
      <4>3. AppliedBy(head) = AppliedCfg
        BY DEF AppliedBy, AppliedCfg
      <4>4. \A f \in File : live[f] \in {AppliedCfg[f]} \cup ExtBytes
        BY <2>2 DEF Rest, AllSame, Same
      <4> HIDE DEF R
      <4>5. ReceiptFiles(R)
        BY <4>1, <4>2, <4>3, <4>4 DEF ReceiptFiles
      <4> QED
        BY <4>1, <4>5 DEF R
    <3>2. CASE PlanUndo
      <4>1. /\ mem'.rec.state = "Prepared" /\ mem'.rec.undoOf = job.target
            /\ mem'.rec.before = journal[job.target].after
            /\ mem'.rec.after = journal[job.target].before /\ mem'.rec.ctx = None
        BY <1>3, <3>2 DEF PlanUndo, NoMem, Finish
      <4>2. job.target # None
        BY <2>1, <3>2, ConfigConstants DEF PlanUndo, TypeInv, ControlOK, JobOK
      <4> QED
        BY <4>1, <4>2 DEF ReceiptFiles
    <3> QED
      BY <2>1, <3>1, <3>2
  <2>4. ReceiptFiles(mem.rec)'
    BY <1>1, <2>3 DEF ReceiptFiles, AppliedBy
  <2>5. HandFiles'
    BY <2>1, <2>3, <2>4 DEF HandFiles, DoneControl, NotCommitted, Applying
  <2> QED
    BY <1>1, <2>5, FilesQuiet
<1> QED
  BY <1>2, <1>3

\* A new receipt finds the files as it says.
LEMMA FilesPrepare ==
  ASSUME FilesContext, NEW r \in Receipt, NEW io \in IO, Prepare(r, io)
  PROVE  FilesInv'
<1>1. /\ TypeInv /\ pc = "prepare" /\ journal[r] = None /\ journal \in JournalType
      /\ UNCHANGED <<head, live>> /\ Calm /\ mem.rcpt = None /\ mem.rec \in ReceiptRec
      /\ ReceiptFiles(mem.rec) /\ mem.rec.state = "Prepared" /\ AllReceipts
      /\ job.kind \in {"apply", "undo", "plain"}
  BY HolderData
     DEF Prepare, At, Unused, FilesContext, FilesInv, HandFiles, OneInv, TypeInv, TypeOK,
         ControlOK, Mem, Calm
<1>2. CASE UNCHANGED journal
  <2>1. pc' = "idle"
    BY <1>1, <1>2, NoneIsNoRecord DEF Prepare, Finish, Spend, JournalType
  <2> QED
    BY <1>1, <1>2, <2>1, HandNothing, FilesQuiet
<1>3. CASE ~UNCHANGED journal
  <2>1. /\ live = mem.rec.before /\ journal' = [journal EXCEPT ![r] = mem.rec]
        /\ pc' = "idle" \/ (pc' = "check" /\ mem'.rcpt = r)
    BY <1>3 DEF Prepare, Finish, Goto, NoMem
  <2>2. /\ journal'[r] = mem.rec /\ \A x \in Receipt : x # r => journal'[x] = journal[x]
    BY <1>1, <2>1 DEF JournalType
  <2>3. Pending = {} /\ Pending' = {r}
    <3>1. Pending = {}
      BY <1>1, ConfigConstants DEF FilesContext, OneInv, PendingInv, Pending
    <3>2. mem.rec # None /\ mem.rec.state \in PendingState
      BY <1>1, NoneIsNoRecord DEF PendingState
    <3> QED
      BY <2>2, <3>1, <3>2 DEF Pending
  <2>4. /\ job.kind = "apply" => mem.rec.undoOf = None /\ mem.rec.ctx # None
                                 /\ mem.rec.ctx.head = head
        /\ job.kind = "undo" => /\ mem.rec.undoOf = head /\ mem.rec.ctx = None
        /\ job.kind # "plain"
    <3>1. PICK S \in SUBSET Receipt : Linked(S)
      BY DEF FilesContext, HeadInv, Linked
    <3> QED
      BY <1>1, <3>1 DEF Linked, HandChain, TypeInv, ControlOK, JobOK, FilesContext
  <2>5. head # r
    BY <1>1, HeadThere, ConfigConstants DEF FilesContext
  <2>6. ASSUME NEW R \in ReceiptRec, ReceiptFiles(R),
               R.undoOf # None => journal[R.undoOf] # None
        PROVE  ReceiptFiles(R)'
    <3>1. ASSUME R.ctx # None
          PROVE  /\ R.ctx.head # None => journal'[R.ctx.head] # None
                 /\ AppliedBy(R.ctx.head)' = AppliedBy(R.ctx.head)
      <4>1. R.ctx.head \in Receipt \cup {None}
        BY <3>1, <2>6 DEF ReceiptRec, Context
      <4> QED
        BY <4>1, <1>1, <2>2, <2>6, <3>1 DEF ReceiptFiles, AppliedBy
    <3>2. ASSUME R.undoOf # None
          PROVE  journal'[R.undoOf] = journal[R.undoOf]
      BY <3>2, <1>1, <2>2, <2>6 DEF ReceiptRec
    <3> QED
      BY <2>6, <3>1, <3>2 DEF ReceiptFiles
  <2>7. mem.rec.undoOf # None => journal[mem.rec.undoOf] # None
    BY <1>1, <2>4 DEF TypeInv, ControlOK, JobOK
  <2>8. AllReceipts'
    <3> SUFFICES ASSUME NEW x \in Receipt, journal'[x] # None PROVE ReceiptFiles(journal[x])'
      BY DEF AllReceipts
    <3>1. CASE x = r
      BY <3>1, <1>1, <2>2, <2>6, <2>7
    <3>2. CASE x # r
      <4>1. /\ journal'[x] = journal[x] /\ journal[x] \in ReceiptRec
            /\ ReceiptFiles(journal[x])
            /\ journal[x].undoOf # None => journal[journal[x].undoOf] # None
        BY <3>2, <1>1, <2>2 DEF AllReceipts, JournalType, TypeInv, UndoesAnApply
      <4> QED
        BY <4>1, <2>6
    <3> QED
      BY <3>1, <3>2
  <2>9. Untaken(r)' /\ AllSame(journal[r].before)'
    <3>1. ~Committed(r)'
      BY <1>1, <2>2, <2>4, <2>5 DEF Committed
    <3>2. \A f \in File : Same(f, journal[r].before)'
      BY <1>1, <2>1, <2>2 DEF Same
    <3> QED
      BY <1>1, <2>2, <2>4, <3>1, <3>2 DEF Untaken, AllSame
  <2>10. PendingFiles' /\ RestFiles'
    BY <2>3, <2>9 DEF PendingFiles, RestFiles, Untaken
  <2>11. HandFiles'
    <3>1. CASE pc' = "idle"
      BY <3>1, HandNothing
    <3>2. CASE pc' = "check" /\ mem'.rcpt = r
      <4>1. Untaken(mem.rcpt)'
        BY <2>9, <3>2 DEF Untaken, Committed, Same
      <4>2. AllSame(Txn.before)'
        BY <2>9, <3>2 DEF AllSame, Txn, Same
      <4> QED
        BY <2>3, <3>2, <4>1, <4>2 DEF HandFiles, DoneControl
    <3> QED
      BY <2>1, <3>1, <3>2
  <2> QED
    BY <2>8, <2>10, <2>11 DEF FilesInv
<1> QED
  BY <1>2, <1>3

\* What the steps below have in hand.
LEMMA InHandFiles ==
  ASSUME FilesContext, pc \in NotCommitted
  PROVE  /\ TypeInv /\ HandFiles /\ pc \in RcptControl /\ mem \in Mem /\ OneInv /\ HeadInv
         /\ journal \in JournalType /\ NFiles \in Nat /\ NFiles >= 1
         /\ \E r \in Receipt : /\ r = mem.rcpt /\ journal[r] # None /\ Untaken(r)
                               /\ ReceiptFiles(journal[r]) /\ journal[r] \in ReceiptRec
<1>1. TypeInv /\ HandFiles /\ pc \in RcptControl /\ OneInv /\ AllReceipts
      /\ journal \in JournalType /\ NFiles \in Nat /\ NFiles >= 1 /\ HeadInv
  BY HolderData DEF FilesContext, OneInv, FilesInv, NotCommitted, RcptControl, Control
<1>2. PICK r \in Receipt : r = mem.rcpt /\ journal[r] # None /\ mem \in Mem
  BY <1>1, InHand
<1>3. Untaken(r) /\ ReceiptFiles(journal[r]) /\ journal[r] \in ReceiptRec
  BY <1>1, <1>2 DEF HandFiles, AllReceipts, JournalType
<1> QED
  BY <1>1, <1>2, <1>3

\* A step that keeps the receipt in hand keeps what it says of the files.
LEMMA StillInHand ==
  ASSUME FilesContext, pc \in NotCommitted, SameBytes, UNCHANGED head, Calm,
         mem'.rcpt = mem.rcpt
  PROVE  /\ Untaken(mem.rcpt)' /\ Txn'.before = Txn.before /\ Txn'.after = Txn.after
         /\ \A cfg : AllSame(cfg) => AllSame(cfg)'
         /\ \A cfg : \A f \in File : Same(f, cfg) => Same(f, cfg)'
<1>1. PICK r \in Receipt : r = mem.rcpt /\ journal[r] # None /\ Untaken(r)
  BY InHandFiles
<1>2. Untaken(r)'
  BY <1>1, UntakenKept
<1>3. Untaken(mem.rcpt)'
  BY <1>1, <1>2 DEF Untaken, Committed, Same
<1>4. Txn'.before = Txn.before /\ Txn'.after = Txn.after
  BY <1>1 DEF Txn, SameBytes
<1>5. \A cfg : \A f \in File : Same(f, cfg) => Same(f, cfg)'
  BY SameKept
<1> QED
  BY <1>3, <1>4, <1>5 DEF AllSame

\* A rollback starts, from any point of an application or an undo.
LEMMA HandRollback ==
  ASSUME NEW c, StartRollback(c), mem \in Mem, NFiles \in Nat, mem'.rcpt = mem.rcpt,
         Untaken(mem.rcpt)'
  PROVE  HandFiles'
<1>1. pc' = "rbRead" /\ mem'.idx = NFiles
  BY DEF StartRollback, Goto, Mem
<1>2. \A f \in File : ~(f > NFiles)
  BY DEF File
<1> QED
  BY <1>1, <1>2 DEF HandFiles, Applying, DoneControl

LEMMA RollbackKeeps ==
  ASSUME NEW c, StartRollback(c), mem \in Mem
  PROVE  mem'.rcpt = mem.rcpt
  BY DEF StartRollback, Mem

LEMMA FilesCheck ==
  ASSUME FilesContext, NEW io \in IO, Check(io)
  PROVE  FilesInv'
<1>1. pc = "check" /\ pc \in NotCommitted /\ UNCHANGED <<head, live>> /\ Calm
  BY DEF Check, At, NotCommitted, Calm
<1>2. PICK r \in Receipt : /\ r = mem.rcpt /\ journal[r] # None /\ Untaken(r)
                           /\ ReceiptFiles(journal[r])
  BY <1>1, InHandFiles
<1>3. TypeInv /\ HandFiles /\ mem \in Mem /\ journal \in JournalType /\ OneInv /\ HeadInv
      /\ NFiles \in Nat
  BY <1>1, InHandFiles
<1>4. AllSame(Txn.before)
  BY <1>1, <1>3 DEF HandFiles
<1>5. CASE live = Txn.before
  <2>1. UNCHANGED journal /\ pc' = "cas" /\ mem' = [mem EXCEPT !.idx = 1] /\ SameBytes
    BY <1>5 DEF Check, Goto, SameBytes
  <2>2. mem'.rcpt = mem.rcpt /\ mem'.idx = 1
    BY <1>3, <2>1 DEF Mem
  <2>3. Untaken(mem.rcpt)' /\ Txn'.before = Txn.before /\ AllSame(Txn.before)'
    BY <1>1, <1>4, <2>1, <2>2, StillInHand
  <2>4. mem.rcpt \in Pending /\ Pending' = Pending
    BY <1>1, <1>3, <2>1 DEF HandFiles, Applying, Pending
  <2>5. \A f \in File : ~(f < 1)
    BY <1>3 DEF File
  <2>6. HandFiles'
    BY <2>1, <2>2, <2>3, <2>4, <2>5 DEF HandFiles, DoneControl, AllSame
  <2> QED
    BY <1>1, <2>1, <2>6, FilesQuiet
<1>6. CASE live # Txn.before
  <2>1. Persist(mem.rcpt, "RolledBack", io) /\ pc' = "idle"
    BY <1>6 DEF Check, Finish
  <2>2. SameBytes /\ Pending' \subseteq Pending
    BY <1>2, <1>3, <2>1, PersistBytes, PendingPersist DEF ApplyState, PendingState
  <2>3. Untaken(r)'
    BY <1>1, <1>2, <2>2, UntakenKept
  <2>4. Rest
    BY <1>2, <1>3, <1>4, BackAtRest DEF Txn
  <2>5. Rest'
    BY <1>1, <1>3, <2>2, <2>4, RestKept
  <2> QED
    BY <1>1, <1>2, <2>1, <2>2, <2>3, <2>5, HandNothing, FilesHeld
<1> QED
  BY <1>5, <1>6

LEMMA FilesCas ==
  ASSUME FilesContext, Cas
  PROVE  FilesInv'
<1>1. pc = "cas" /\ pc \in NotCommitted /\ UNCHANGED <<head, live, journal>> /\ Calm
      /\ SameBytes
  BY DEF Cas, At, NotCommitted, Calm, durable, SameBytes
<1>2. HandFiles /\ mem \in Mem /\ NFiles \in Nat
  BY <1>1, InHandFiles
<1>3. mem'.rcpt = mem.rcpt
  BY <1>2, RollbackKeeps DEF Cas
<1>4. /\ Untaken(mem.rcpt)' /\ Txn'.before = Txn.before /\ Txn'.after = Txn.after
      /\ \A cfg : \A f \in File : Same(f, cfg) => Same(f, cfg)'
  BY <1>1, <1>3, StillInHand
<1>5. CASE Goto("write") /\ UNCHANGED mem
  <2>1. pc' = "write" /\ mem' = mem /\ mem.rcpt \in Pending /\ Pending' = Pending
    BY <1>1, <1>2, <1>5 DEF Goto, HandFiles, Applying, Pending
  <2>2. HandFiles'
    BY <1>1, <1>2, <1>4, <2>1 DEF HandFiles, DoneControl
  <2> QED
    BY <1>1, <2>2, FilesQuiet
<1>6. CASE StartRollback("apply")
  BY <1>1, <1>2, <1>3, <1>4, <1>6, HandRollback, FilesQuiet
<1> QED
  BY <1>5, <1>6 DEF Cas

\* The write of one file: those before it are new, those after it are not.
LEMMA FilesWrite ==
  ASSUME FilesContext, NEW io \in IO, Write(io)
  PROVE  FilesInv'
<1>1. pc = "write" /\ pc \in NotCommitted /\ UNCHANGED <<head, journal>> /\ SameBytes
      /\ mem.rcpt \in Pending /\ Pending' = Pending
  BY InHandFiles DEF Write, At, NotCommitted, SameBytes, HandFiles, Applying, Pending
<1>2. HandFiles /\ mem \in Mem /\ NFiles \in Nat /\ TypeInv /\ NFiles >= 1
  BY <1>1, InHandFiles
<1>3. PICK r \in Receipt : r = mem.rcpt /\ journal[r] # None /\ Untaken(r)
  BY <1>1, InHandFiles
<1>4. mem'.rcpt = mem.rcpt
  BY <1>2, RollbackKeeps DEF Write, Mem
<1>5. mem.idx \in File /\ live \in [File -> Bytes]
  BY <1>1, <1>2 DEF TypeInv, TypeOK, ControlOK, Cfg
<1>6. Txn' = Txn /\ Txn = journal[r]
  BY <1>1, <1>3, <1>4 DEF Txn
<1>7. \A f \in File : live'[f] = live[f] \/ (f = mem.idx /\ live'[f] = Txn.after[f])
  BY <1>5 DEF Write, WriteFile
<1>8. \A f \in File : f # mem.idx => \A cfg : Same(f, cfg) => Same(f, cfg)'
  BY <1>7 DEF Same
<1>9. \A f \in File : Same(f, Txn.before) \/ Same(f, Txn.after) =>
                      Same(f, Txn.before)' \/ Same(f, Txn.after)'
  <2>1. SUFFICES ASSUME NEW f \in File, Same(f, Txn.before) \/ Same(f, Txn.after)
                 PROVE  Same(f, Txn.before)' \/ Same(f, Txn.after)'
    OBVIOUS
  <2>2. CASE live'[f] = live[f]
    BY <1>6, <2>1, <2>2 DEF Same
  <2>3. CASE live'[f] = Txn.after[f]
    BY <1>6, <2>1, <2>3 DEF Same
  <2> QED
    BY <1>7, <2>2, <2>3
<1>10. Untaken(r)'
  <2>1. ~Committed(r)' /\ (journal'[r].ctx # None => journal'[r].ctx.head = head')
    BY <1>1, <1>3 DEF Untaken, Committed
  <2>2. \A f \in File : Same(f, journal[r].before) \/ Same(f, journal[r].after)
    BY <1>3 DEF Untaken
  <2>3. \A f \in File : Same(f, journal[r].before)' \/ Same(f, journal[r].after)'
    BY <1>1, <1>6, <1>9, <2>2 DEF Same
  <2> QED
    BY <2>1, <2>3 DEF Untaken
<1>11. Untaken(mem.rcpt)'
  BY <1>3, <1>4, <1>10 DEF Untaken, Committed, Same
<1>12. io = "ok" => \A f \in File : f = mem.idx => Same(f, Txn.after)'
  BY <1>5, <1>6 DEF Write, WriteFile, Same
<1>13. HandFiles'
  <2>1. CASE StartRollback("apply")
    BY <1>2, <1>4, <1>11, <2>1, HandRollback
  <2>2. CASE io = "ok" /\ mem.idx < NFiles /\ Goto("cas") /\ mem' = [mem EXCEPT !.idx = @ + 1]
    <3>1. pc' = "cas" /\ mem'.idx = mem.idx + 1 /\ mem.idx \in Nat
      BY <1>2, <2>2 DEF Goto, Mem
    <3>2. \A f \in File : f < mem.idx + 1 => Same(f, Txn.after)'
      <4>1. \A f \in File : f < mem.idx + 1 => f = mem.idx \/ f < mem.idx
        BY <3>1 DEF File
      <4>2. \A f \in File : f < mem.idx => f # mem.idx
        BY <3>1 DEF File
      <4>3. \A f \in File : f < mem.idx => Same(f, Txn.after)
        BY <1>1, <1>2 DEF HandFiles
      <4>4. \A f \in File : f < mem.idx => Same(f, Txn.after)'
        BY <1>6, <1>8, <4>2, <4>3 DEF Same
      <4> QED
        BY <1>12, <2>2, <4>1, <4>4
    <3>3. \A f \in File : f >= mem.idx + 1 => Same(f, Txn.before)'
      <4>1. \A f \in File : f >= mem.idx + 1 => f # mem.idx /\ f >= mem.idx
        BY <3>1 DEF File
      <4>2. \A f \in File : f >= mem.idx => Same(f, Txn.before)
        BY <1>1, <1>2 DEF HandFiles
      <4> QED
        BY <1>6, <1>8, <4>1, <4>2 DEF Same
    <3>4. \A f \in File : f < mem'.idx => Same(f, Txn.after)'
      BY <3>1, <3>2
    <3>5. \A f \in File : f >= mem'.idx => Same(f, Txn.before)'
      BY <3>1, <3>3
    <3> QED
      BY <1>1, <1>4, <1>11, <3>1, <3>4, <3>5 DEF HandFiles, DoneControl
  <2>3. CASE io = "ok" /\ mem.idx = NFiles /\ Goto("written") /\ UNCHANGED mem
    <3>1. pc' = "written"
      BY <2>3 DEF Goto
    <3>2. \A f \in File : f = mem.idx \/ (f < mem.idx /\ f # mem.idx)
      BY <1>2, <2>3 DEF File
    <3>3. \A f \in File : f < mem.idx => Same(f, Txn.after)
      BY <1>1, <1>2 DEF HandFiles
    <3>4. \A f \in File : f < mem.idx /\ f # mem.idx => Same(f, Txn.after)'
      BY <1>6, <1>8, <3>3 DEF Same
    <3>5. AllSame(Txn.after)'
      BY <1>12, <2>3, <3>2, <3>4 DEF AllSame
    <3> QED
      BY <1>1, <1>4, <1>11, <3>1, <3>5 DEF HandFiles, DoneControl
  <2> QED
    BY <2>1, <2>2, <2>3 DEF Write
<1> QED
  BY <1>1, <1>3, <1>10, <1>13, FilesHeld

\* A step of the holder that may persist a state of its receipt and writes no file.
LEMMA KeepsBytes ==
  ASSUME FilesContext, pc \in NotCommitted, UNCHANGED <<head, live>>,
         NEW state \in ApplyState, NEW io \in IO,
         UNCHANGED journal \/ Persist(mem.rcpt, state, io)
  PROVE  SameBytes /\ Calm
<1>1. TypeInv /\ journal \in JournalType /\ mem.rcpt \in Receipt /\ journal[mem.rcpt] # None
  BY InHandFiles
<1>2. UNCHANGED journal => SameBytes
  BY DEF SameBytes
<1> QED
  BY <1>1, <1>2, PersistBytes DEF Calm

LEMMA FilesGoesOn ==
  ASSUME FilesContext, pc \in NotCommitted, UNCHANGED <<head, live>>,
         NEW state \in ApplyState, NEW io \in IO,
         UNCHANGED journal \/ Persist(mem.rcpt, state, io),
         state \in PendingState \/ AllSame(Txn.before) \/ UNCHANGED journal,
         HandFiles'
  PROVE  FilesInv'
<1>1. SameBytes /\ Calm
  BY KeepsBytes
<1>2. CASE UNCHANGED journal
  BY <1>1, <1>2, FilesQuiet
<1>3. CASE journal' # journal
  <2>1. PICK r \in Receipt : /\ r = mem.rcpt /\ journal[r] # None /\ Untaken(r)
                             /\ ReceiptFiles(journal[r])
    BY InHandFiles
  <2>2. journal \in JournalType /\ OneInv /\ HeadInv
    BY InHandFiles
  <2>3. Persist(r, state, io) /\ io # "fail"
    BY <1>3, <2>1 DEF Persist
  <2>4. Untaken(r)'
    BY <1>1, <2>1, UntakenKept
  <2>5. Pending' \subseteq Pending \cup {mem.rcpt}
    BY <2>1, <2>2, <2>3, PendingPersist
  <2>6. AllSame(Txn.before) => Rest'
    BY <1>1, <2>1, <2>2, BackAtRest, RestKept DEF Txn
  <2>7. state \in PendingState => mem.rcpt \in Pending'
    BY <2>1, <2>2, <2>3, PersistFacts DEF Pending
  <2> QED
    BY <1>1, <1>3, <2>1, <2>4, <2>5, <2>6, <2>7, FilesHeld
<1> QED
  BY <1>2, <1>3

LEMMA FilesWritten ==
  ASSUME FilesContext, NEW io \in IO, Written(io)
  PROVE  FilesInv'
<1>1. pc = "written" /\ pc \in NotCommitted /\ UNCHANGED <<head, live>>
      /\ Persist(mem.rcpt, "FilesWritten", io) /\ "FilesWritten" \in ApplyState
      /\ "FilesWritten" \in PendingState
  BY DEF Written, At, NotCommitted, ApplyState, PendingState
<1>2. /\ TypeInv /\ HandFiles /\ mem \in Mem /\ NFiles \in Nat /\ journal \in JournalType
      /\ mem.rcpt \in Receipt /\ journal[mem.rcpt] # None
  BY <1>1, InHandFiles
<1>3. SameBytes /\ Calm
  BY <1>1, KeepsBytes
<1>4. mem'.rcpt = mem.rcpt /\ job.kind # "plain"
  BY <1>1, <1>2, RollbackKeeps
     DEF Written, FilesContext, TypeInv, ControlOK, JobControl, OfJob, JobOK
<1>5. /\ Untaken(mem.rcpt)' /\ Txn'.after = Txn.after
      /\ \A cfg : AllSame(cfg) => AllSame(cfg)'
  BY <1>1, <1>3, <1>4, StillInHand
<1>6. HandFiles'
  <2>1. CASE StartRollback("apply")
    BY <1>2, <1>4, <1>5, <2>1, HandRollback
  <2>2. CASE io = "ok" /\ Goto("local") /\ UNCHANGED mem
    <3>1. pc' = "local" /\ mem.rcpt \in Pending'
      BY <1>1, <1>2, <2>2, PersistFacts DEF Goto, Pending
    <3>2. AllSame(Txn.after)'
      BY <1>1, <1>2, <1>5 DEF HandFiles, AllSame, Same
    <3> QED
      BY <1>4, <1>5, <3>1, <3>2 DEF HandFiles, DoneControl
  <2> QED
    BY <1>4, <2>1, <2>2 DEF Written, FilesContext
<1> QED
  BY <1>1, <1>6, FilesGoesOn

LEMMA FilesLocal ==
  ASSUME FilesContext, NEW io \in IO, Local(io)
  PROVE  FilesInv'
<1>1. pc = "local" /\ pc \in NotCommitted /\ UNCHANGED <<head, live, journal>>
      /\ Calm /\ SameBytes
  BY DEF Local, At, NotCommitted, Calm, SameBytes
<1>2. HandFiles /\ mem \in Mem /\ NFiles \in Nat
  BY <1>1, InHandFiles
<1>3. mem'.rcpt = mem.rcpt
  BY <1>2, RollbackKeeps DEF Local
<1>4. /\ Untaken(mem.rcpt)' /\ Txn'.after = Txn.after
      /\ \A cfg : AllSame(cfg) => AllSame(cfg)'
  BY <1>1, <1>3, StillInHand
<1>5. HandFiles'
  <2>1. CASE StartRollback("commit")
    BY <1>2, <1>3, <1>4, <2>1, HandRollback
  <2>2. CASE Goto("commit") /\ UNCHANGED mem
    <3>1. pc' = "commit" /\ mem.rcpt \in Pending /\ Pending' = Pending
      BY <1>1, <1>2, <2>2 DEF Goto, HandFiles, Applying, Pending
    <3>2. AllSame(Txn.after)'
      BY <1>1, <1>2, <1>4 DEF HandFiles, AllSame, Same
    <3> QED
      BY <1>3, <1>4, <3>1, <3>2 DEF HandFiles, DoneControl
  <2> QED
    BY <2>1, <2>2 DEF Local
<1> QED
  BY <1>1, <1>5, FilesQuiet

\* The database takes over what the files hold already.
LEMMA FilesCommitted ==
  ASSUME FilesContext, pc = "commit", UNCHANGED <<journal, live, mem>>, pc' = "complete",
         Committed(mem.rcpt)', \A f \in File : Txn.after[f] \in {AppliedCfg'[f]} \cup ExtBytes
  PROVE  FilesInv'
<1>1. pc \in NotCommitted /\ pc \in RcptControl
  BY DEF NotCommitted, RcptControl, Control
<1>2. HandFiles /\ OneInv /\ AllReceipts
  BY <1>1, InHandFiles DEF FilesContext, FilesInv
<1>3. AllReceipts'
  BY <1>2, AllReceiptsKept DEF SameBytes
<1>4. AllSame(Txn.after)
  BY <1>2 DEF HandFiles
<1>5. Rest'
  BY <1>4 DEF Rest, AllSame, Same
<1>6. Pending' = Pending /\ Pending \subseteq {mem.rcpt}
  BY <1>1, <1>2 DEF Pending, OneInv, PendingInv, RcptControl
<1>7. PendingFiles' /\ RestFiles'
  BY <1>5, <1>6 DEF PendingFiles, RestFiles, Committed
<1>8. HandFiles'
  BY <1>5 DEF HandFiles, NotCommitted, Applying, DoneControl
<1> QED
  BY <1>3, <1>7, <1>8 DEF FilesInv

LEMMA FilesCommit ==
  ASSUME FilesContext, NEW io \in IO, CommitApply(io) \/ CommitUndo(io)
  PROVE  FilesInv'
<1>1. pc = "commit" /\ pc \in NotCommitted /\ UNCHANGED <<live, journal>> /\ Calm
      /\ SameBytes /\ pc \in JobControl
  BY DEF CommitApply, CommitUndo, At, NotCommitted, Calm, SameBytes, JobControl
<1>2. HandFiles /\ mem \in Mem /\ NFiles \in Nat /\ TypeInv /\ OfJob /\ AllReceipts
  BY <1>1, InHandFiles DEF TypeInv, ControlOK, FilesContext, FilesInv
<1>3. PICK r \in Receipt : /\ r = mem.rcpt /\ journal[r] # None /\ Untaken(r)
                           /\ ReceiptFiles(journal[r])
  BY <1>1, InHandFiles
<1>4. CASE StartRollback("commit") /\ UNCHANGED head
  <2>1. mem'.rcpt = mem.rcpt
    BY <1>2, <1>4, RollbackKeeps
  <2>2. Untaken(mem.rcpt)'
    BY <1>1, <1>4, <2>1, StillInHand
  <2> QED
    BY <1>1, <1>2, <1>4, <2>1, <2>2, HandRollback, FilesQuiet
<1>5. CASE CommitApply(io) /\ ~(StartRollback("commit") /\ UNCHANGED head)
  <2>1. /\ head' = r /\ pc' = "complete" /\ UNCHANGED mem /\ job.kind = "apply"
        /\ r # None
    BY <1>3, <1>5, ConfigConstants DEF CommitApply, Goto
  <2>2. Txn.undoOf = None /\ Txn.ctx # None /\ Txn = journal[r]
    BY <1>2, <1>3, <2>1 DEF OfJob, Txn
  <2>3. Committed(r)'
    BY <1>1, <2>1, <2>2 DEF Committed
  <2>4. AppliedCfg' = Txn.after
    BY <1>1, <2>1, <2>2 DEF AppliedCfg
  <2>5. Committed(mem.rcpt)'
    BY <1>3, <2>1, <2>3 DEF Committed
  <2> QED
    BY <1>1, <2>1, <2>4, <2>5, FilesCommitted
<1>6. CASE CommitUndo(io) /\ ~(StartRollback("commit") /\ UNCHANGED head)
  <2> DEFINE o == job.target
  <2>1. /\ head = o /\ head' = journal[o].ctx.head /\ pc' = "complete" /\ UNCHANGED mem
        /\ job.kind = "undo"
    BY <1>6 DEF CommitUndo, Goto
  <2>2. Txn.undoOf = o /\ o \in Receipt /\ o # None /\ journal[o] # None /\ Txn = journal[r]
    BY <1>2, <1>3, <2>1, ConfigConstants DEF OfJob, Txn, TypeInv, ControlOK, JobOK
  <2>3. journal[o].ctx # None /\ journal[o].ctx.head # o /\ ReceiptFiles(journal[o])
    BY <1>2, <2>1, <2>2, HeadThere DEF FilesContext, AllReceipts
  <2>4. Committed(mem.rcpt)'
    BY <1>1, <1>3, <2>1, <2>2, <2>3 DEF Committed
  <2>5. Txn.after = journal[o].before
    BY <1>3, <2>2 DEF ReceiptFiles
  <2>6. AppliedCfg' = AppliedBy(journal[o].ctx.head)
    BY <1>1, <2>1 DEF AppliedCfg, AppliedBy
  <2>7. \A f \in File : Txn.after[f] \in {AppliedCfg'[f]} \cup ExtBytes
    BY <2>3, <2>5, <2>6 DEF ReceiptFiles
  <2> QED
    BY <1>1, <2>1, <2>4, <2>7, FilesCommitted
<1> QED
  BY <1>4, <1>5, <1>6 DEF CommitApply, CommitUndo

\* Where a rollback goes on to, once file i is dealt with.
LEMMA HandNextFile ==
  ASSUME mem.idx \in File, NEW n, mem' = n, n.idx = mem.idx - 1, n.rcpt = mem.rcpt,
         n.bad \in BOOLEAN, pc' = (IF mem.idx > 1 THEN "rbRead" ELSE "rbSave"),
         Untaken(mem.rcpt)',
         ~n.bad => \A f \in File : f >= mem.idx => Same(f, Txn.before)'
  PROVE  HandFiles'
<1>1. mem'.rcpt = mem.rcpt /\ mem.idx \in Nat /\ mem'.idx = mem.idx - 1 /\ mem'.bad = n.bad
  BY DEF File
<1>2. \A f \in File : f > mem.idx - 1 => f >= mem.idx
  BY <1>1 DEF File
<1>3. CASE pc' = "rbRead"
  BY <1>1, <1>2, <1>3 DEF HandFiles, Applying, DoneControl
<1>4. CASE pc' = "rbSave"
  <2>1. \A f \in File : f >= mem.idx
    <3>1. mem.idx = 1
      BY <1>1, <1>4 DEF File
    <3> QED
      BY <3>1 DEF File
  <2> QED
    BY <1>1, <1>4, <2>1 DEF HandFiles, Applying, DoneControl, AllSame
<1> QED
  BY <1>3, <1>4

LEMMA FilesRbRead ==
  ASSUME FilesContext, NEW io \in IO, RbRead(io)
  PROVE  FilesInv'
<1>1. pc = "rbRead" /\ pc \in NotCommitted /\ UNCHANGED <<head, live, journal>>
      /\ Calm /\ SameBytes
  BY DEF RbRead, At, NotCommitted, Calm, SameBytes, durable
<1>2. HandFiles /\ mem \in Mem /\ NFiles \in Nat /\ TypeInv /\ mem.idx \in File
      /\ mem.bad \in BOOLEAN
  BY <1>1, InHandFiles DEF TypeInv, ControlOK, Mem
<1>3. mem'.rcpt = mem.rcpt
  BY <1>2 DEF RbRead, Mem
<1>4. /\ Untaken(mem.rcpt)' /\ Txn' = Txn
      /\ \A cfg : \A f \in File : Same(f, cfg) => Same(f, cfg)'
  BY <1>1, <1>3, StillInHand DEF Txn
<1>5. ~mem.bad => \A f \in File : f > mem.idx => Same(f, Txn.before)
  BY <1>1, <1>2 DEF HandFiles
<1>6. ~mem.bad => \A f \in File : f > mem.idx => Same(f, Txn.before)'
  BY <1>1, <1>4, <1>5 DEF Same
<1>7. CASE Goto("rbWrite") /\ UNCHANGED mem
  <2>1. pc' = "rbWrite" /\ mem' = mem
    BY <1>7 DEF Goto
  <2>2. HandFiles'
    BY <1>4, <1>6, <2>1 DEF HandFiles, Applying, DoneControl
  <2> QED
    BY <1>1, <2>2, FilesQuiet
<1>8. CASE ~(Goto("rbWrite") /\ UNCHANGED mem)
  <2> DEFINE b == mem.bad \/ (io # "ok" \/ Foreign(mem.idx))
             n == [mem EXCEPT !.idx = @ - 1, !.bad = b]
  <2>1. /\ Goto(IF mem.idx > 1 THEN "rbRead" ELSE "rbSave") /\ mem' = n
        /\ (io # "ok" \/ Foreign(mem.idx)) \/ live[mem.idx] = Txn.before[mem.idx]
    BY <1>8, <1>1, <1>2 DEF RbRead, Mem
  <2>2. n.idx = mem.idx - 1 /\ n.rcpt = mem.rcpt /\ n.bad = b /\ b \in BOOLEAN
    BY <1>2 DEF Mem
  <2>3. ASSUME ~n.bad, NEW f \in File, f >= mem.idx PROVE Same(f, Txn.before)'
    <3>1. ~mem.bad /\ live[mem.idx] = Txn.before[mem.idx]
      BY <2>1, <2>2, <2>3
    <3>2. CASE f = mem.idx
      BY <1>1, <1>4, <3>1, <3>2 DEF Same
    <3>3. CASE f > mem.idx
      BY <1>6, <3>1, <3>3
    <3> QED
      BY <1>2, <2>3, <3>2, <3>3 DEF File
  <2>4. pc' = (IF mem.idx > 1 THEN "rbRead" ELSE "rbSave")
    BY <2>1 DEF Goto
  <2> HIDE DEF n, b
  <2>5. HandFiles'
    BY <1>2, <1>4, <2>1, <2>2, <2>3, <2>4, HandNextFile
  <2> QED
    BY <1>1, <2>5, FilesQuiet
<1> QED
  BY <1>7, <1>8

LEMMA FilesRbWrite ==
  ASSUME FilesContext, NEW io \in IO, RbWrite(io)
  PROVE  FilesInv'
<1>1. pc = "rbWrite" /\ pc \in NotCommitted /\ UNCHANGED <<head, journal>>
      /\ SameBytes /\ Pending' = Pending
  BY DEF RbWrite, At, NotCommitted, SameBytes, Pending
<1>2. HandFiles /\ mem \in Mem /\ NFiles \in Nat /\ TypeInv /\ mem.idx \in File
      /\ mem.bad \in BOOLEAN /\ live \in [File -> Bytes] /\ OneInv /\ HeadInv
  BY <1>1, InHandFiles DEF TypeInv, TypeOK, ControlOK, Mem, Cfg
<1>3. PICK r \in Receipt : /\ r = mem.rcpt /\ journal[r] # None /\ Untaken(r)
                           /\ ReceiptFiles(journal[r])
  BY <1>1, InHandFiles
<1>4. Txn = journal[r]
  BY <1>3 DEF Txn
<1>5. \A f \in File : live'[f] = live[f] \/ live'[f] = journal[r].before[f]
  BY <1>2, <1>4 DEF RbWrite, WriteFile
<1>6. \A f \in File : /\ Same(f, journal[r].before) => Same(f, journal[r].before)'
                      /\ Same(f, journal[r].after) =>
                           Same(f, journal[r].before)' \/ Same(f, journal[r].after)'
  <2>1. SUFFICES ASSUME NEW f \in File
                 PROVE  /\ Same(f, journal[r].before) => Same(f, journal[r].before)'
                        /\ Same(f, journal[r].after) =>
                             Same(f, journal[r].before)' \/ Same(f, journal[r].after)'
    OBVIOUS
  <2>2. CASE live'[f] = live[f]
    BY <1>1, <2>2 DEF Same
  <2>3. CASE live'[f] = journal[r].before[f]
    BY <1>1, <2>3 DEF Same
  <2> QED
    BY <1>5, <2>2, <2>3
<1>7. Untaken(r)'
  <2>1. ~Committed(r)' /\ (journal'[r].ctx # None => journal'[r].ctx.head = head')
    BY <1>1, <1>3 DEF Untaken, Committed
  <2>2. \A f \in File : Same(f, journal[r].before)' \/ Same(f, journal[r].after)'
    BY <1>3, <1>6 DEF Untaken
  <2> QED
    BY <2>1, <2>2 DEF Untaken
<1>8. /\ \A f \in File : f = mem.idx /\ io = "ok" => Same(f, journal[r].before)'
      /\ mem'.rcpt = r /\ Txn' = journal[r]
  <2>1. \A f \in File : f = mem.idx /\ io = "ok" => Same(f, journal[r].before)'
    BY <1>1, <1>2, <1>4 DEF RbWrite, WriteFile, Same
  <2>2. mem'.rcpt = r
    BY <1>2, <1>3 DEF RbWrite, Mem
  <2> QED
    BY <1>1, <2>1, <2>2 DEF Txn
<1>9. HandFiles'
  <2> DEFINE b == mem.bad \/ io # "ok"
             n == [mem EXCEPT !.idx = @ - 1, !.bad = b]
  <2>1. Goto(IF mem.idx > 1 THEN "rbRead" ELSE "rbSave") /\ mem' = n
    BY <1>2 DEF RbWrite, Mem
  <2>2. n.idx = mem.idx - 1 /\ n.rcpt = mem.rcpt /\ n.bad = b /\ b \in BOOLEAN
    BY <1>2 DEF Mem
  <2>3. ASSUME ~n.bad, NEW f \in File, f >= mem.idx PROVE Same(f, Txn.before)'
    <3>1. ~mem.bad /\ io = "ok"
      BY <2>2, <2>3
    <3>2. Same(f, journal[r].before)'
      <4>1. CASE f = mem.idx
        BY <1>8, <3>1, <4>1
      <4>2. CASE f > mem.idx
        <5>1. Same(f, journal[r].before)
          BY <1>1, <1>2, <1>4, <3>1, <4>2 DEF HandFiles
        <5> QED
          BY <1>6, <5>1
      <4> QED
        BY <1>2, <2>3, <4>1, <4>2 DEF File
    <3> QED
      BY <1>1, <1>8, <3>2 DEF Same
  <2>4. pc' = (IF mem.idx > 1 THEN "rbRead" ELSE "rbSave")
    BY <2>1 DEF Goto
  <2>5. Untaken(mem.rcpt)'
    BY <1>7, <1>8 DEF Untaken, Committed, Same
  <2> HIDE DEF n, b
  <2> QED
    BY <1>2, <2>1, <2>2, <2>3, <2>4, <2>5, HandNextFile
<1>10. Rest' \/ mem.rcpt \in Pending'
  <2>1. SUFFICES ASSUME mem.rcpt \notin Pending PROVE Rest'
    BY <1>1
  <2>2. Rest
    BY <1>3, <2>1, <1>1
       DEF FilesContext, FilesInv, RestFiles, OneInv, PendingInv
  <2>3. AppliedCfg' = AppliedCfg
    BY <1>1, <1>2, AppliedKept
  <2>4. \A f \in File : journal[r].before[f] \in {AppliedCfg[f]} \cup ExtBytes
    <3>1. CASE journal[r].undoOf # None
      BY <1>3, <3>1 DEF Untaken, Committed, ReceiptFiles, AppliedCfg
    <3>2. CASE journal[r].undoOf = None
      <4>1. AppliedBy(head) = AppliedCfg
        BY DEF AppliedBy, AppliedCfg
      <4> QED
        BY <1>3, <3>2, <4>1 DEF ReceiptFiles, Untaken
    <3> QED
      BY <3>1, <3>2
  <2>5. \A f \in File : live'[f] \in {AppliedCfg[f]} \cup ExtBytes
    BY <1>5, <2>2, <2>4 DEF Rest, AllSame, Same
  <2> QED
    BY <2>3, <2>5 DEF Rest, AllSame, Same
<1> QED
  BY <1>1, <1>3, <1>7, <1>9, <1>10, FilesHeld

\* The verdict of a rollback is written down: rolled back only if every file is back.
LEMMA FilesRbSave ==
  ASSUME FilesContext, NEW io \in IO, RbSave(io)
  PROVE  FilesInv'
<1> DEFINE state == IF mem.bad THEN "RecoveryRequired" ELSE "RolledBack"
<1>1. pc = "rbSave" /\ pc \in NotCommitted /\ UNCHANGED <<head, live>>
      /\ Persist(mem.rcpt, state, io) /\ state \in ApplyState
  BY DEF RbSave, At, NotCommitted, ApplyState
<1>2. HandFiles /\ mem \in Mem /\ TypeInv
  BY <1>1, InHandFiles
<1>3. state \in PendingState \/ AllSame(Txn.before)
  BY <1>1, <1>2 DEF HandFiles, PendingState
<1> HIDE DEF state
<1>4. HandFiles'
  <2>1. CASE pc' \in {"idle", "recover"}
    BY <2>1, HandNothing
  <2>2. CASE pc' \notin {"idle", "recover"}
    <3>1. /\ pc' \in {"restore", "flag", "recLocal"} /\ mem'.rcpt = mem.rcpt
          /\ pc' = "restore" => (~mem'.bad => ~mem.bad)
      BY <1>2, <2>2 DEF RbSave, Goto, Finish, Mem
    <3>2. SameBytes /\ Calm
      BY <1>1, KeepsBytes
    <3>3. /\ Untaken(mem.rcpt)' /\ Txn'.before = Txn.before
          /\ \A cfg : AllSame(cfg) => AllSame(cfg)'
      BY <1>1, <3>1, <3>2, StillInHand
    <3>4. pc' = "restore" /\ ~mem'.bad => AllSame(Txn.before)'
      BY <1>1, <1>2, <3>1, <3>3 DEF HandFiles, AllSame, Same
    <3> QED
      BY <3>1, <3>3, <3>4 DEF HandFiles, DoneControl, Applying
  <2> QED
    BY <2>1, <2>2
<1> QED
  BY <1>1, <1>3, <1>4, FilesGoesOn

\* The device setting is put back; no file is touched.
LEMMA FilesRestore ==
  ASSUME FilesContext, NEW io \in IO, Restore(io) \/ RecLocal(io)
  PROVE  FilesInv'
<1>1. pc \in NotCommitted /\ UNCHANGED <<head, live, journal>> /\ Calm /\ SameBytes
  BY DEF Restore, RecLocal, At, NotCommitted, Calm, SameBytes
<1>2. CASE pc' \in {"idle", "recover"}
  BY <1>1, <1>2, HandNothing, FilesQuiet
<1>3. CASE pc' \notin {"idle", "recover"}
  <2>1. pc' = "flag" /\ mem' = mem
    BY <1>3 DEF Restore, RecLocal, Goto, Finish
  <2>2. Untaken(mem.rcpt)'
    BY <1>1, <2>1, StillInHand
  <2>3. HandFiles'
    BY <2>1, <2>2 DEF HandFiles, DoneControl, Applying
  <2> QED
    BY <1>1, <2>3, FilesQuiet
<1> QED
  BY <1>2, <1>3

LEMMA FilesFlag ==
  ASSUME FilesContext, NEW io \in IO, Flag(io)
  PROVE  FilesInv'
<1>1. pc = "flag" /\ pc \in NotCommitted /\ UNCHANGED <<head, live>> /\ pc' = "idle"
      /\ Persist(mem.rcpt, "RecoveryRequired", io)
      /\ "RecoveryRequired" \in ApplyState /\ "RecoveryRequired" \in PendingState
  BY DEF Flag, At, NotCommitted, Finish, ApplyState, PendingState
<1> QED
  BY <1>1, HandNothing, FilesGoesOn

LEMMA FilesNext == FilesContext /\ [Next]_vars => FilesInv'
<1> SUFFICES ASSUME FilesContext, [Next]_vars PROVE FilesInv'
  OBVIOUS
<1>1. CASE UNCHANGED vars
  <2>1. UNCHANGED <<journal, head, pc, mem, live>> /\ Calm
    BY <1>1 DEF vars, Calm
  <2> QED
    BY <2>1, HandQuiet, FilesQuiet
<1>2. CASE StartJob \/ Environment
  BY <1>2, FilesOthers
<1>3. CASE Recover
  BY <1>3, FilesRecover, FilesComplete, FilesRestore DEF Recover
<1>4. CASE Transact
  BY <1>4, FilesCas, FilesCheck, FilesWrite, FilesWritten, FilesComplete, FilesPrepare
     DEF Transact
<1>5. CASE Rollback
  BY <1>5, FilesRbRead, FilesRbWrite, FilesRbSave, FilesRestore, FilesFlag DEF Rollback
<1>6. CASE Work
  BY <1>6, FilesPlan, FilesLocal, FilesCommit DEF Work
<1> QED
  BY <1>1, <1>2, <1>3, <1>4, <1>5, <1>6 DEF Next, JobStep

LEMMA FilesInit == Init => FilesInv
<1> SUFFICES ASSUME Init PROVE FilesInv
  OBVIOUS
<1>1. Rest
  BY DEF Init, Rest, AllSame, Same, AppliedCfg
<1>2. AllReceipts /\ PendingFiles
  BY DEF Init, AllReceipts, PendingFiles, Pending
<1>3. HandFiles
  BY DEF Init, HandFiles, NotCommitted, Applying, DoneControl
<1> QED
  BY <1>1, <1>2, <1>3 DEF FilesInv, RestFiles

\* What a run starts from and every step keeps.
LEMMA FilesAlways == Builtin /\ Spec => [](OneInv /\ HeadInv /\ FilesInv)
<1> SUFFICES ASSUME Builtin PROVE Spec => [](OneInv /\ HeadInv /\ FilesInv)
  OBVIOUS
<1>1. Init => OneInv /\ HeadInv /\ FilesInv
  <2>1. Init => PendingInv
    BY DEF Init, PendingInv, AtMostOnePending, Pending
  <2> QED
    BY <2>1, TypeInit, HeadInit, FilesInit DEF OneInv
<1>2. OneInv /\ HeadInv /\ FilesInv /\ [Next]_vars => (OneInv /\ HeadInv /\ FilesInv)'
  BY TypeStep, PendingNext, HeadNext, FilesNext DEF OneInv, FilesContext
<1> QED
  BY <1>1, <1>2, PTL DEF Spec

\* With no job running and no receipt to recover, every live file of a built-in application
\* is as the last committed application wrote it, or as another program left it: whatever
\* crashed, failed, was undone or recovered (apply, rollback, recover_config_commits).
THEOREM FilesMatchHead == Builtin /\ Spec => []SettledFilesMatchHead
<1>1. OneInv /\ HeadInv /\ FilesInv => SettledFilesMatchHead
  BY DEF FilesInv, RestFiles, Rest, AllSame, Same, SettledFilesMatchHead, Settled
<1> QED
  BY <1>1, FilesAlways, PTL

-----------------------------------------------------------------------------
(* settings.json and the database at rest *)

\* One process works on a built-in application, and none of its threads deletes
\* connections: another process keeps a stale copy of settings.json, and a connection
\* deleted during an application leaves the database without a current one.
Alone == Builtin /\ Viewer = {} /\ \A p, q \in Proc : p = q

InStep == device = dbCur /\ \A p \in Proc : cache[p] = dbCur

\* The connection receipt r leaves, and the one it selects.
From(r) == IF journal[r].undoOf # None THEN CtxOf(r).input.conn ELSE CtxOf(r).local
To(r) == IF journal[r].undoOf # None THEN CtxOf(r).local ELSE CtxOf(r).input.conn

\* An application leaves the connection the database names, and writes its record and
\* that of the one it applies.
ReceiptDevice(R) ==
  R.ctx # None =>
    /\ R.ctx.local = R.ctx.dbCur
    /\ \A c \in Conn : R.ctx.after[c] # None => c \in {R.ctx.input.conn, R.ctx.dbCur}

\* The holder has still to put the device setting back, or to flag the receipt.
Putting == pc \in {"restore", "recLocal", "flag"}
BeforeLocal == {"check", "cas", "write", "written", "local"}

ReceiptsDevice == \A r \in Receipt : journal[r] # None => ReceiptDevice(journal[r])
RestDevice == (\A r \in Pending : Committed(r)) /\ ~Putting => InStep
PendingDevice == \A r \in Pending : Committed(r) \/ dbCur = From(r)
HandDevice ==
  /\ pc = "prepare" =>
       /\ ReceiptDevice(mem.rec)
       /\ dbCur = IF mem.rec.undoOf # None THEN journal[mem.rec.undoOf].ctx.input.conn
                                           ELSE mem.rec.ctx.local
  /\ pc \in NotCommitted => dbCur = From(mem.rcpt)
  /\ pc \in BeforeLocal => InStep
  /\ pc = "commit" => device = To(mem.rcpt) /\ \A p \in Proc : cache[p] = device
  /\ pc \in RollbackControl /\ mem.caller = "apply" => InStep

NoneSeen == \A p \in Proc : seen[p] = None

DeviceInv ==
  /\ NoneSeen
  /\ ~unrestored => ReceiptsDevice /\ RestDevice /\ PendingDevice /\ HandDevice

DeviceContext == FilesContext /\ Alone /\ DeviceInv

LEMMA FromKept ==
  ASSUME OneInv, SameBytes, NEW r \in Receipt, journal[r] # None
  PROVE  From(r)' = From(r) /\ To(r)' = To(r)
<1>1. /\ journal'[r].undoOf = journal[r].undoOf /\ journal'[r].ctx = journal[r].ctx
      /\ journal[r] \in ReceiptRec
  BY DEF SameBytes, OneInv, TypeInv, TypeOK
<1>2. CtxOf(r)' = CtxOf(r)
  <2>1. CASE journal[r].undoOf # None
    <3>1. journal[r].undoOf \in Receipt /\ journal[journal[r].undoOf] # None
      BY <1>1, <2>1 DEF ReceiptRec, OneInv, TypeInv, UndoesAnApply
    <3> QED
      BY <1>1, <2>1, <3>1 DEF SameBytes, CtxOf
  <2>2. CASE journal[r].undoOf = None
    BY <1>1, <2>2 DEF CtxOf
  <2> QED
    BY <2>1, <2>2
<1> QED
  BY <1>1, <1>2 DEF From, To

LEMMA ReceiptsDeviceKept ==
  ASSUME SameBytes, ReceiptsDevice
  PROVE  ReceiptsDevice'
  BY DEF ReceiptsDevice, ReceiptDevice, SameBytes

\* Steps of the holder on the receipt in hand, short of its commit.
LEMMA DeviceMoves ==
  ASSUME DeviceContext, pc \in RcptControl, SameBytes, UNCHANGED <<head, dbCur, seen>>,
         unrestored => unrestored',
         ~unrestored' => RestDevice',
         Pending' \subseteq Pending \cup {mem.rcpt},
         pc \in NotCommitted \/ pc' \in {"idle", "recover"} \cup DoneControl,
         \/ pc' \in {"idle", "recover"}
         \/ pc' \in RcptControl /\ mem'.rcpt = mem.rcpt,
         ~unrestored' /\ pc' \in BeforeLocal => InStep',
         ~unrestored' /\ pc' = "commit" =>
            \E r \in Receipt :
               r = mem.rcpt /\ device' = To(r) /\ \A p \in Proc : cache'[p] = device',
         ~unrestored' /\ pc' \in RollbackControl /\ mem'.caller = "apply" => InStep'
  PROVE  DeviceInv'
<1> SUFFICES ASSUME ~unrestored'
             PROVE  ReceiptsDevice' /\ PendingDevice' /\ HandDevice'
  BY DEF DeviceInv, DeviceContext, NoneSeen
<1>1. PICK r \in Receipt : r = mem.rcpt /\ journal[r] # None
  BY InHand DEF DeviceContext, FilesContext, OneInv
<1>2. /\ ReceiptsDevice /\ PendingDevice /\ HandDevice /\ OneInv /\ TypeInv
  BY DEF DeviceInv, DeviceContext, FilesContext, OneInv
<1>3. ReceiptsDevice'
  BY <1>2, ReceiptsDeviceKept
<1>4. pc \in NotCommitted => dbCur = From(r)
  BY <1>1, <1>2 DEF HandDevice, From, CtxOf
<1>5. From(r)' = From(r) /\ To(r)' = To(r)
  BY <1>1, <1>2, FromKept
<1>6. PendingDevice'
  <2>1. SUFFICES ASSUME NEW x \in Pending' PROVE Committed(x)' \/ dbCur' = From(x)'
    BY DEF PendingDevice
  <2>2. x \in Receipt /\ journal[x] # None
    BY <2>1 DEF Pending, SameBytes
  <2>3. (Committed(x)' <=> Committed(x)) /\ From(x)' = From(x)
    BY <1>2, <2>2, CommittedKept, FromKept
  <2>4. CASE x \in Pending
    BY <1>2, <2>3, <2>4 DEF PendingDevice
  <2>5. CASE x \notin Pending
    <3>1. x = r
      BY <1>1, <2>5
    <3>2. CASE pc \in NotCommitted
      BY <1>4, <2>3, <3>1, <3>2
    <3>3. CASE pc \notin NotCommitted
      <4>1. pc \in DoneControl => Committed(r)
        BY <1>1 DEF DeviceContext, FilesContext, FilesInv, HandFiles, Committed
      <4>2. pc \in DoneControl
        BY <3>3 DEF NotCommitted, DoneControl, RcptControl, Control
      <4> QED
        BY <2>3, <3>1, <4>1, <4>2
    <3> QED
      BY <3>2, <3>3
  <2> QED
    BY <2>4, <2>5
<1>7. HandDevice'
  <2>1. CASE pc' \in {"idle", "recover"}
    BY <2>1 DEF HandDevice, NotCommitted, BeforeLocal, RollbackControl
  <2>2. CASE pc' \in RcptControl /\ mem'.rcpt = mem.rcpt /\ pc' \notin {"idle", "recover"}
    <3>1. pc' \in NotCommitted => dbCur' = From(r)'
      BY <1>4, <1>5, <2>2 DEF NotCommitted, DoneControl
    <3>2. From(mem.rcpt)' = From(r)' /\ To(mem.rcpt)' = To(r)'
      BY <1>1, <2>2 DEF From, To, CtxOf
    <3>3. pc' = "commit" => device' = To(mem.rcpt)' /\ \A p \in Proc : cache'[p] = device'
      BY <1>1, <1>5, <3>2
    <3> QED
      BY <2>2, <3>1, <3>2, <3>3 DEF HandDevice, RcptControl
  <2> QED
    BY <2>1, <2>2
<1> QED
  BY <1>3, <1>6, <1>7

\* The settings and the database agree while they are left alone.
LEMMA InStepKept ==
  ASSUME InStep, UNCHANGED <<device, dbCur, cache>>
  PROVE  InStep'
  BY DEF InStep

LEMMA RestDeviceKept ==
  ASSUME RestDevice, SameBytes, UNCHANGED <<head, device, dbCur, cache>>, ~Putting,
         Pending \subseteq Pending'
  PROVE  RestDevice'
<1> SUFFICES ASSUME \A r \in Pending' : Committed(r)' PROVE InStep'
  BY DEF RestDevice
<1>1. \A r \in Pending : Committed(r)
  BY CommittedKept DEF Pending
<1> QED
  BY <1>1 DEF RestDevice, InStep

\* While the receipt in hand is to be settled, nothing is at rest.
LEMMA NotAtRest ==
  ASSUME DeviceContext, pc \in NotCommitted, SameBytes, UNCHANGED head, mem.rcpt \in Pending'
  PROVE  RestDevice'
<1>1. PICK r \in Receipt : r = mem.rcpt /\ journal[r] # None /\ ~Committed(r)
  BY InHandFiles DEF DeviceContext, Untaken
<1>2. ~Committed(r)'
  BY <1>1, CommittedKept
<1> QED
  BY <1>1, <1>2 DEF RestDevice

\* The files are written, or not, before the device setting is touched.
LEMMA DeviceBefore ==
  ASSUME DeviceContext, NEW io \in IO, Check(io) \/ Cas \/ Write(io) \/ Written(io)
  PROVE  DeviceInv'
<1>1. /\ pc \in NotCommitted /\ pc \in BeforeLocal /\ pc \in RcptControl
      /\ UNCHANGED <<head, device, dbCur, cache, seen, unrestored>> /\ FilesContext
  BY DEF Check, Cas, Write, Written, At, NotCommitted, BeforeLocal, RcptControl, Control,
         durable, DeviceContext
<1>2. TypeInv /\ mem \in Mem /\ journal \in JournalType /\ mem.rcpt \in Receipt
      /\ journal[mem.rcpt] # None
  BY <1>1, InHandFiles
<1>3. UNCHANGED journal \/ \E state \in ApplyState : Persist(mem.rcpt, state, io)
  BY DEF Check, Cas, Write, Written, durable, ApplyState
<1>4. SameBytes /\ Pending' \subseteq Pending \cup {mem.rcpt}
  <2>1. UNCHANGED journal => SameBytes /\ Pending' = Pending
    BY DEF SameBytes, Pending
  <2> QED
    BY <1>2, <1>3, <2>1, PersistBytes, PendingPersist
<1>5. /\ pc' = "idle" \/ (pc' \in RcptControl /\ mem'.rcpt = mem.rcpt)
      /\ pc' # "commit"
  BY <1>2
     DEF Check, Cas, Write, Written, Goto, Finish, StartRollback, Mem, RcptControl, Control,
         DeviceContext, Alone
<1>6. ~unrestored => InStep
  BY <1>1 DEF DeviceContext, DeviceInv, HandDevice
<1>7. ~unrestored' => InStep' /\ RestDevice'
  BY <1>1, <1>6, InStepKept DEF RestDevice
<1> QED
  BY <1>1, <1>4, <1>5, <1>7, DeviceMoves

\* The device setting of the one process, once it is written and its cache with it.
LEMMA SetDeviceAlone ==
  ASSUME TypeInv, \A p, q \in Proc : p = q, guard \in Proc, NEW c, SetDevice(guard, c, "ok")
  PROVE  device' = c /\ \A p \in Proc : cache'[p] = c
  BY DEF SetDevice, TypeInv, TypeOK

\* What the receipt in hand leaves and selects, whoever works on it.
LEMMA HandFromTo ==
  ASSUME DeviceContext, pc \in NotCommitted, NEW r \in Receipt, r = mem.rcpt
  PROVE  /\ pc \in JobControl => (job.kind = "undo" <=> Txn.undoOf # None)
         /\ Txn.undoOf # None => /\ From(r) = CtxOf(mem.rcpt).input.conn
                                 /\ To(r) = CtxOf(mem.rcpt).local
         /\ Txn.undoOf = None => /\ From(r) = CtxOf(mem.rcpt).local
                                 /\ To(r) = CtxOf(mem.rcpt).input.conn
         /\ ~unrestored => dbCur = From(r)
<1>1. TypeInv /\ Builtin
  BY InHandFiles DEF DeviceContext, Alone
<1>2. pc \in JobControl => (job.kind = "undo" <=> Txn.undoOf # None)
  BY <1>1, ConfigConstants DEF TypeInv, ControlOK, OfJob, JobOK
<1> QED
  BY <1>2 DEF From, To, Txn, DeviceContext, DeviceInv, HandDevice, CtxOf

LEMMA DeviceLocal ==
  ASSUME DeviceContext, NEW io \in IO, Local(io)
  PROVE  DeviceInv'
<1>1. /\ pc \in NotCommitted /\ pc \in JobControl /\ pc \in RcptControl
      /\ UNCHANGED <<journal, head, dbCur, seen, unrestored>> /\ FilesContext /\ pc = "local"
      /\ SameBytes /\ Pending' = Pending
  BY DEF Local, At, NotCommitted, JobControl, RcptControl, Control, DeviceContext, SameBytes,
         Pending
<1>2. TypeInv /\ mem \in Mem /\ guard \in Proc
  BY <1>1, InHand DEF DeviceContext, FilesContext, OneInv
<1>3. PICK r \in Receipt : r = mem.rcpt /\ mem.rcpt \in Pending
  BY <1>1, InHandFiles DEF HandFiles, Applying
<1>4. mem.rcpt \in Pending'
  BY <1>1, <1>3
<1>5. RestDevice'
  BY <1>1, <1>4, NotAtRest
<1>6. /\ mem'.rcpt = mem.rcpt
      /\ \/ io = "ok" /\ pc' = "commit"
         \/ pc' = "rbRead" /\ mem'.caller = "commit"
  BY <1>2 DEF Local, Goto, StartRollback, Mem
<1>7. io = "ok" => device' = To(r) /\ \A p \in Proc : cache'[p] = device'
  <2>1. SUFFICES ASSUME io = "ok" PROVE device' = To(r) /\ \A p \in Proc : cache'[p] = device'
    OBVIOUS
  <2>2. SetDevice(guard, To(r), "ok")
    BY <1>1, <1>3, <2>1, HandFromTo DEF Local
  <2> QED
    BY <1>2, <2>2, SetDeviceAlone DEF DeviceContext, Alone
<1>8. pc' \in RcptControl /\ pc' \notin BeforeLocal /\ mem'.rcpt = mem.rcpt
  BY <1>6 DEF RcptControl, Control, BeforeLocal
<1>9. ~(pc' \in RollbackControl /\ mem'.caller = "apply")
  BY <1>6 DEF RollbackControl
<1>10. pc' = "commit" =>
         \E x \in Receipt : x = mem.rcpt /\ device' = To(x) /\ \A p \in Proc : cache'[p] = device'
  BY <1>3, <1>6, <1>7
<1> QED
  BY <1>1, <1>5, <1>8, <1>9, <1>10, DeviceMoves

LEMMA DeviceRollback ==
  ASSUME DeviceContext, NEW io \in IO, RbRead(io) \/ RbWrite(io)
  PROVE  DeviceInv'
<1>1. /\ pc \in NotCommitted /\ pc \in RollbackControl /\ pc \in RcptControl /\ ~Putting
      /\ UNCHANGED <<journal, head, dbCur, device, cache, seen, unrestored>> /\ FilesContext
      /\ SameBytes /\ Pending' = Pending
  BY DEF RbRead, RbWrite, At, NotCommitted, RollbackControl, RcptControl, Control,
         DeviceContext, SameBytes, Pending, durable, Putting
<1>2. mem \in Mem
  BY <1>1, InHandFiles
<1>3. /\ mem'.rcpt = mem.rcpt /\ mem'.caller = mem.caller
      /\ pc' \in {"rbRead", "rbWrite", "rbSave"}
  BY <1>2 DEF RbRead, RbWrite, Goto, Mem
<1>4. ~unrestored => RestDevice'
  BY <1>1, RestDeviceKept DEF DeviceContext, DeviceInv
<1>5. ~unrestored /\ mem.caller = "apply" => InStep'
  BY <1>1, InStepKept DEF DeviceContext, DeviceInv, HandDevice
<1>6. pc' \in RcptControl /\ pc' \notin BeforeLocal /\ pc' # "commit"
  BY <1>3 DEF RcptControl, Control, BeforeLocal
<1> QED
  BY <1>1, <1>3, <1>4, <1>5, <1>6, DeviceMoves

LEMMA DeviceRbSave ==
  ASSUME DeviceContext, NEW io \in IO, RbSave(io)
  PROVE  DeviceInv'
<1> DEFINE state == IF mem.bad THEN "RecoveryRequired" ELSE "RolledBack"
<1>1. /\ pc = "rbSave" /\ pc \in NotCommitted /\ pc \in RollbackControl /\ pc \in RcptControl
      /\ ~Putting /\ Persist(mem.rcpt, state, io) /\ state \in ApplyState
      /\ UNCHANGED <<head, dbCur, device, cache, seen, live>> /\ FilesContext
      /\ unrestored => unrestored'
  BY DEF RbSave, At, NotCommitted, RollbackControl, RcptControl, Control, DeviceContext,
         Putting, ApplyState
<1>2. /\ mem \in Mem /\ TypeInv /\ journal \in JournalType /\ mem.rcpt \in Receipt
      /\ journal[mem.rcpt] # None /\ CtxOf(mem.rcpt) # None
  <2>1. PICK r \in Receipt : r = mem.rcpt /\ ReceiptFiles(journal[r])
    BY <1>1, InHandFiles
  <2>2. CtxOf(r) # None
    BY <1>1, <2>1, InHandFiles DEF CtxOf, ReceiptFiles, TypeInv, UndoesAnApply
  <2> QED
    BY <1>1, <2>1, <2>2, InHandFiles DEF CtxOf
<1>3. SameBytes /\ Pending' \subseteq Pending \cup {mem.rcpt}
  BY <1>1, <1>2, PersistBytes, PendingPersist
<1>4. \/ pc' = "idle"
      \/ pc' \in {"restore", "recLocal"} /\ mem'.rcpt = mem.rcpt
  BY <1>2 DEF RbSave, Goto, Finish, Mem, DeviceContext, Alone
<1>5. CASE io = "fail"
  <2>1. Pending' = Pending
    BY <1>1, <1>5 DEF Persist, Pending
  <2>2. ~unrestored => RestDevice'
    BY <1>1, <1>3, <2>1, RestDeviceKept DEF DeviceContext, DeviceInv
  <2>3. pc' \in {"idle"} \cup RcptControl /\ pc' \notin BeforeLocal \cup RollbackControl
        /\ pc' # "commit"
    BY <1>4 DEF RcptControl, Control, BeforeLocal, RollbackControl
  <2> QED
    BY <1>1, <1>3, <1>4, <2>2, <2>3, DeviceMoves
<1>6. CASE io # "fail"
  <2>1. mem.bad => mem.rcpt \in Pending'
    BY <1>1, <1>2, <1>6, PersistFacts DEF Pending, PendingState
  <2>2. mem.bad => RestDevice'
    BY <1>1, <1>3, <2>1, NotAtRest
  <2>3. ~mem.bad /\ mem.caller = "apply" /\ ~unrestored => RestDevice'
    BY <1>1, InStepKept DEF DeviceContext, DeviceInv, HandDevice, RestDevice
  <2>4. ~mem.bad /\ mem.caller # "apply" /\ ~unrestored' => Putting'
    BY <1>1, <1>2, <1>6
       DEF RbSave, Goto, Finish, Putting, DeviceContext, Alone, IO, TypeInv, ControlOK, Mem,
           Caller
  <2>5. ~unrestored' => RestDevice'
    BY <1>1, <2>2, <2>3, <2>4 DEF RestDevice
  <2>6. pc' \in {"idle"} \cup RcptControl /\ pc' \notin BeforeLocal \cup RollbackControl
        /\ pc' # "commit"
    BY <1>4 DEF RcptControl, Control, BeforeLocal, RollbackControl
  <2> QED
    BY <1>1, <1>3, <1>4, <2>5, <2>6, DeviceMoves
<1> QED
  BY <1>5, <1>6

\* The device setting goes back to what the database says.
LEMMA DeviceRestore ==
  ASSUME DeviceContext, NEW io \in IO, Restore(io) \/ RecLocal(io)
  PROVE  DeviceInv'
<1>1. /\ pc \in NotCommitted /\ pc \in RcptControl
      /\ UNCHANGED <<journal, head, dbCur, seen>> /\ FilesContext /\ SameBytes
      /\ Pending' = Pending
      /\ unrestored => unrestored'
  <2>1. CASE Restore(io)
    BY <2>1 DEF Restore, At, NotCommitted, RcptControl, Control, DeviceContext, SameBytes,
                Pending
  <2>2. CASE RecLocal(io)
    <3>1. unrestored => unrestored'
      BY <2>2, Zenon DEF RecLocal
    <3> QED
      BY <2>2, <3>1 DEF RecLocal, At, NotCommitted, RcptControl, Control, DeviceContext,
                        SameBytes, Pending
  <2> QED
    BY <2>1, <2>2
<1>2. TypeInv /\ mem \in Mem /\ guard \in Proc
  BY <1>1, InHand DEF DeviceContext, FilesContext, OneInv
<1>3. PICK r \in Receipt : r = mem.rcpt
  BY <1>1, InHandFiles
<1>4. /\ pc' \in {"idle", "recover"} \/ (pc' = "flag" /\ mem'.rcpt = mem.rcpt)
      /\ pc' # "flag" /\ ~unrestored' => io = "ok"
  BY DEF Restore, RecLocal, Goto, Finish
<1>5. io = "ok" => SetDevice(guard, From(r), "ok")
  <2>1. CASE Restore(io)
    BY <1>1, <1>3, <2>1, HandFromTo DEF Restore, At, JobControl
  <2>2. CASE RecLocal(io)
    BY <1>1, <1>3, <2>2, HandFromTo DEF RecLocal
  <2> QED
    BY <2>1, <2>2
<1>6. ~unrestored' => RestDevice'
  <2>1. CASE pc' = "flag"
    BY <2>1 DEF RestDevice, Putting
  <2>2. CASE io = "ok" /\ ~unrestored'
    <3>1. device' = From(r) /\ \A p \in Proc : cache'[p] = From(r)
      BY <1>2, <1>5, <2>2, SetDeviceAlone DEF DeviceContext, Alone
    <3>2. dbCur' = From(r)
      BY <1>1, <1>3, <2>2, HandFromTo
    <3> QED
      BY <3>1, <3>2 DEF RestDevice, InStep
  <2> QED
    BY <1>4, <2>1, <2>2
<1>7. pc' \in {"idle", "recover"} \cup RcptControl
      /\ pc' \notin BeforeLocal \cup RollbackControl /\ pc' # "commit"
  BY <1>4 DEF RcptControl, Control, BeforeLocal, RollbackControl
<1> QED
  BY <1>1, <1>4, <1>6, <1>7, DeviceMoves

\* A receipt that is flagged is pending, and no longer at rest; a flag that is lost is
\* remembered in unrestored.
LEMMA DeviceFlag ==
  ASSUME DeviceContext, NEW io \in IO, Flag(io)
  PROVE  DeviceInv'
<1>1. /\ pc \in NotCommitted /\ pc \in RcptControl /\ pc' = "idle" /\ FilesContext
      /\ UNCHANGED <<head, dbCur, device, cache, seen>>
      /\ Persist(mem.rcpt, "RecoveryRequired", io)
      /\ unrestored => unrestored'
      /\ "RecoveryRequired" \in ApplyState /\ "RecoveryRequired" \in PendingState
  BY DEF Flag, At, NotCommitted, RcptControl, Control, DeviceContext, Finish, ApplyState,
         PendingState
<1>2. TypeInv /\ journal \in JournalType /\ mem.rcpt \in Receipt /\ journal[mem.rcpt] # None
  BY <1>1, InHandFiles
<1>3. SameBytes /\ Pending' \subseteq Pending \cup {mem.rcpt}
  BY <1>1, <1>2, PersistBytes, PendingPersist
<1>4. ~unrestored' => mem.rcpt \in Pending'
  <2>1. CASE io = "fail"
    <3>1. ~unrestored' => mem.rcpt \in Pending
      BY <2>1 DEF Flag
    <3> QED
      BY <1>1, <2>1, <3>1 DEF Persist, Pending
  <2>2. CASE io # "fail"
    BY <1>1, <1>2, <2>2, PersistFacts DEF Pending
  <2> QED
    BY <2>1, <2>2
<1>5. ~unrestored' => RestDevice'
  BY <1>1, <1>3, <1>4, NotAtRest
<1> QED
  BY <1>1, <1>3, <1>5, DeviceMoves DEF BeforeLocal, RollbackControl

\* Once the database holds the receipt, all three agree.
LEMMA DoneInStep ==
  ASSUME DeviceContext, pc \in DoneControl, ~unrestored
  PROVE  InStep
<1>1. FilesContext /\ pc \in RcptControl /\ ~Putting /\ pc \notin {"idle", "recover"}
  BY DEF DeviceContext, DoneControl, RcptControl, Control, Putting
<1>2. Pending \subseteq {mem.rcpt} /\ Committed(mem.rcpt)
  BY <1>1 DEF FilesContext, OneInv, PendingInv, FilesInv, HandFiles
<1>3. \A r \in Pending : Committed(r)
  BY <1>2 DEF Committed
<1> QED
  BY <1>1, <1>3 DEF DeviceContext, DeviceInv, RestDevice

LEMMA DeviceDone ==
  ASSUME DeviceContext, NEW io \in IO, Complete(io) \/ RecComplete(io) \/ MarkUndone(io)
  PROVE  DeviceInv'
<1>1. /\ pc \in DoneControl /\ pc \in RcptControl /\ TypeInv /\ journal \in JournalType
      /\ UNCHANGED <<head, dbCur, device, cache, seen, unrestored>>
      /\ mem.rcpt \in Receipt /\ journal[mem.rcpt] # None
  BY InHand
     DEF Complete, RecComplete, MarkUndone, At, DoneControl, RcptControl, Control,
         DeviceContext, FilesContext, OneInv
<1>2. SameBytes /\ Pending' \subseteq Pending \cup {mem.rcpt}
  <2>1. CASE Complete(io) \/ RecComplete(io)
    <3>1. Persist(mem.rcpt, "Completed", io)
      BY <2>1 DEF Complete, RecComplete
    <3> QED
      BY <1>1, <3>1, PersistBytes, PendingPersist DEF ApplyState
  <2>2. CASE MarkUndone(io)
    <3>1. Txn.undoOf \in Receipt /\ journal[Txn.undoOf] # None
      BY <1>1, <2>2, InHand
         DEF MarkUndone, At, TypeInv, ControlOK, UndoesAnApply, Txn, ReceiptRec
    <3> QED
      BY <1>1, <2>2, <3>1, PersistBytes, PendingPersist
         DEF MarkUndone, ApplyState, PendingState
  <2> QED
    BY <2>1, <2>2
<1>3. \/ pc' \in {"idle", "recover"}
      \/ pc' = "markUndone" /\ mem'.rcpt = mem.rcpt
  BY DEF Complete, RecComplete, MarkUndone, Goto, Finish
<1>4. ~unrestored' => RestDevice'
  BY <1>1, DoneInStep, InStepKept DEF RestDevice
<1>5. pc' \in {"idle", "recover"} \cup RcptControl /\ pc' \in {"idle", "recover"} \cup DoneControl
      /\ pc' \notin BeforeLocal \cup RollbackControl /\ pc' # "commit"
  BY <1>3 DEF RcptControl, Control, DoneControl, BeforeLocal, RollbackControl
<1> QED
  BY <1>1, <1>2, <1>3, <1>4, <1>5, DeviceMoves

\* Steps that change no setting, no receipt and no row.
LEMMA DeviceQuiet ==
  ASSUME DeviceContext, UNCHANGED <<journal, head, device, dbCur, cache, seen>>,
         unrestored => unrestored',
         ~unrestored' => HandDevice',
         Putting => Putting'
  PROVE  DeviceInv'
<1> SUFFICES ASSUME ~unrestored' PROVE ReceiptsDevice' /\ RestDevice' /\ PendingDevice'
  BY DEF DeviceInv, DeviceContext, NoneSeen
<1>1. Pending' = Pending /\ SameBytes /\ ReceiptsDevice /\ RestDevice /\ PendingDevice
  BY DEF Pending, SameBytes, DeviceContext, DeviceInv
<1>2. \A r \in Pending : (Committed(r)' <=> Committed(r)) /\ From(r)' = From(r)
  BY DEF Committed, From, CtxOf
<1>3. PendingDevice'
  BY <1>1, <1>2 DEF PendingDevice
<1>4. RestDevice'
  BY <1>1, <1>2 DEF RestDevice, InStep
<1> QED
  BY <1>1, <1>3, <1>4, ReceiptsDeviceKept

LEMMA DeviceRecover ==
  ASSUME DeviceContext,
         NoPending \/ PlainRefused \/ RecVerify \/ \E r \in Receipt : RecoverReceipt(r)
  PROVE  DeviceInv'
<1>1. UNCHANGED <<journal, head, device, dbCur, cache, seen, unrestored>> /\ ~Putting
  BY DEF NoPending, PlainRefused, RecVerify, RecoverReceipt, durable, At, Putting
<1>2. ~unrestored' => HandDevice'
  <2>1. CASE pc' \in {"idle", "plan", "recComplete"}
    BY <2>1 DEF HandDevice, NotCommitted, BeforeLocal, RollbackControl
  <2>2. ASSUME NEW r \in Receipt, RecoverReceipt(r), pc' # "idle", ~unrestored'
        PROVE  HandDevice'
    <3>1. /\ r \in Pending /\ mem'.rcpt = r /\ mem'.caller = "recover"
          /\ \/ pc' = "recVerify"
             \/ pc' \in {"flag", "rbRead"} /\ ~Committed(r)
      BY <2>2 DEF RecoverReceipt, Goto, Finish, NoMem
    <3>2. ~Committed(r) => dbCur = From(r)
      BY <1>1, <2>2, <3>1 DEF DeviceContext, DeviceInv, PendingDevice
    <3>3. From(mem.rcpt)' = From(r)
      BY <1>1, <3>1 DEF From, CtxOf
    <3> QED
      BY <1>1, <3>1, <3>2, <3>3 DEF HandDevice, NotCommitted, BeforeLocal
  <2> QED
    BY <2>1, <2>2 DEF NoPending, PlainRefused, RecVerify, RecoverReceipt, Goto, Finish
<1> QED
  BY <1>1, <1>2, DeviceQuiet

\* A plan is made in step, and says what it found.
LEMMA DevicePlan ==
  ASSUME DeviceContext, Reuse \/ PlanApply \/ PlanUndo \/ PlanPlain
  PROVE  DeviceInv'
<1>1. /\ UNCHANGED <<journal, head, device, dbCur, cache, seen, unrestored>> /\ ~Putting
      /\ pc = "plan" /\ TypeInv
  BY DEF Reuse, PlanApply, PlanUndo, PlanPlain, durable, At, Putting, DeviceContext,
         FilesContext, OneInv
<1>2. ~unrestored' => HandDevice'
  <2>1. CASE pc' = "idle"
    BY <2>1 DEF HandDevice, NotCommitted, BeforeLocal, RollbackControl
  <2>2. ASSUME pc' # "idle", ~unrestored' PROVE HandDevice'
    <3>1. pc' = "prepare" /\ (PlanApply \/ PlanUndo)
      BY <1>1, <2>2
         DEF Reuse, PlanApply, PlanUndo, PlanPlain, Goto, Finish, TypeInv, ControlOK, JobOK,
             DeviceContext, Alone
    <3>2. InStep
      <4>1. Pending \subseteq {mem.rcpt} /\ mem.rcpt = None
        BY <1>1 DEF DeviceContext, FilesContext, OneInv, PendingInv, TypeInv, ControlOK
      <4>2. Pending = {}
        BY <4>1, ConfigConstants DEF Pending
      <4> QED
        BY <1>1, <2>2, <4>2 DEF DeviceContext, DeviceInv, RestDevice
    <3>3. CASE PlanApply
      <4> DEFINE dr == drafts[job.draft]
      <4>1. mem'.rec = ApplyRecord(guard, dr) /\ guard \in Proc
        BY <1>1, <2>2, <3>3
           DEF PlanApply, NoMem, Finish, TypeInv, ControlOK, JobOK
      <4>2. cache[guard] = dbCur /\ Builtin
        BY <3>2, <4>1 DEF InStep, DeviceContext, Alone
      <4>3. Outgoing(guard) = dbCur
        BY <4>2 DEF Outgoing
      <4>4. ReceiptDevice(mem'.rec) /\ mem'.rec.undoOf = None /\ mem'.rec.ctx.local = dbCur
        BY <4>1, <4>2, <4>3 DEF ApplyRecord, ReceiptDevice, After
      <4>5. ReceiptDevice(mem.rec)'
        BY <4>4 DEF ReceiptDevice
      <4> QED
        BY <1>1, <3>1, <4>4, <4>5 DEF HandDevice, NotCommitted, BeforeLocal, RollbackControl
    <3>4. CASE PlanUndo
      <4>1. /\ mem'.rec.undoOf = job.target /\ mem'.rec.ctx = None
            /\ dbCur = journal[job.target].ctx.input.conn /\ job.target # None
        BY <1>1, <2>2, <3>4, ConfigConstants
           DEF PlanUndo, UndoValid, NoMem, Finish, TypeInv, ControlOK, JobOK
      <4>2. ReceiptDevice(mem.rec)'
        BY <4>1 DEF ReceiptDevice
      <4> QED
        BY <1>1, <3>1, <4>1, <4>2 DEF HandDevice, NotCommitted, BeforeLocal, RollbackControl
    <3> QED
      BY <3>1, <3>3, <3>4
  <2> QED
    BY <2>1, <2>2
<1> QED
  BY <1>1, <1>2, DeviceQuiet

LEMMA DevicePrepare ==
  ASSUME DeviceContext, NEW r \in Receipt, NEW io \in IO, Prepare(r, io)
  PROVE  DeviceInv'
<1>1. /\ TypeInv /\ pc = "prepare" /\ journal[r] = None /\ journal \in JournalType
      /\ UNCHANGED <<head, device, dbCur, cache, seen, unrestored>> /\ mem.rcpt = None
      /\ mem.rec \in ReceiptRec /\ mem.rec # None /\ ~Putting /\ OneInv
  BY HolderData
     DEF Prepare, At, Unused, DeviceContext, FilesContext, OneInv, TypeInv, TypeOK,
         ControlOK, Mem, Putting
<1>2. CASE UNCHANGED journal
  <2>1. pc' = "idle"
    BY <1>1, <1>2 DEF Prepare, Finish, Spend, JournalType
  <2>2. HandDevice'
    BY <2>1 DEF HandDevice, NotCommitted, BeforeLocal, RollbackControl
  <2> QED
    BY <1>1, <1>2, <2>2, DeviceQuiet
<1>3. CASE ~UNCHANGED journal
  <2>1. /\ journal' = [journal EXCEPT ![r] = mem.rec]
        /\ pc' = "idle" \/ (pc' = "check" /\ mem'.rcpt = r)
    BY <1>3 DEF Prepare, Finish, Goto, NoMem
  <2>2. /\ journal'[r] = mem.rec /\ \A x \in Receipt : x # r => journal'[x] = journal[x]
    BY <1>1, <2>1 DEF JournalType
  <2> SUFFICES ASSUME ~unrestored
               PROVE  ReceiptsDevice' /\ RestDevice' /\ PendingDevice' /\ HandDevice'
    BY <1>1 DEF DeviceInv, DeviceContext, NoneSeen
  <2>3. Pending = {} /\ Pending' \subseteq {r}
    <3>1. Pending = {}
      BY <1>1, ConfigConstants DEF OneInv, PendingInv, Pending
    <3> QED
      BY <2>2, <3>1 DEF Pending
  <2>4. InStep /\ InStep'
    BY <1>1, <2>3 DEF DeviceContext, DeviceInv, RestDevice, InStep
  <2>5. ReceiptsDevice'
    <3>1. ReceiptDevice(mem.rec) /\ ReceiptsDevice
      BY <1>1 DEF DeviceContext, DeviceInv, HandDevice
    <3> QED
      BY <2>2, <3>1 DEF ReceiptsDevice, ReceiptDevice
  <2>6. dbCur' = From(r)'
    <3>1. mem.rec.undoOf # None => mem.rec.undoOf # r
      <4>1. mem.rec.undoOf # None => journal[mem.rec.undoOf] # None
        BY <1>1, <2>1 DEF TypeInv, ControlOK, JobOK
      <4> QED
        BY <1>1, <4>1
    <3>2. mem.rec.undoOf # None => journal'[mem.rec.undoOf] = journal[mem.rec.undoOf]
      BY <1>1, <2>2, <3>1 DEF ReceiptRec
    <3>3. dbCur = IF mem.rec.undoOf # None THEN journal[mem.rec.undoOf].ctx.input.conn
                                           ELSE mem.rec.ctx.local
      BY <1>1 DEF DeviceContext, DeviceInv, HandDevice
    <3> QED
      BY <1>1, <2>2, <3>2, <3>3 DEF From, CtxOf
  <2>7. HandDevice'
    <3>1. CASE pc' = "idle"
      BY <3>1 DEF HandDevice, NotCommitted, BeforeLocal, RollbackControl
    <3>2. CASE pc' = "check" /\ mem'.rcpt = r
      <4>1. From(mem.rcpt)' = From(r)'
        BY <3>2 DEF From, CtxOf
      <4> QED
        BY <2>4, <2>6, <3>2, <4>1 DEF HandDevice, RollbackControl
    <3> QED
      BY <2>1, <3>1, <3>2
  <2> QED
    BY <2>3, <2>4, <2>5, <2>6, <2>7 DEF RestDevice, PendingDevice
<1> QED
  BY <1>2, <1>3

\* The database follows the setting the job made, or the setting has to go back.
LEMMA DeviceCommit ==
  ASSUME DeviceContext, NEW io \in IO, CommitApply(io) \/ CommitUndo(io)
  PROVE  DeviceInv'
<1>1. /\ pc = "commit" /\ pc \in NotCommitted /\ pc \in RcptControl /\ pc \in JobControl
      /\ UNCHANGED <<journal, device, cache, seen, unrestored>> /\ SameBytes
      /\ Pending' = Pending /\ FilesContext
  BY DEF CommitApply, CommitUndo, At, NotCommitted, RcptControl, Control, JobControl,
         SameBytes, Pending, DeviceContext
<1>2. TypeInv /\ mem \in Mem /\ OfJob
  BY <1>1, InHandFiles DEF TypeInv, ControlOK
<1>3. PICK r \in Receipt : r = mem.rcpt /\ mem.rcpt \in Pending /\ journal[r] # None
  BY <1>1, InHandFiles DEF HandFiles, Applying
<1>4. CASE StartRollback("commit") /\ UNCHANGED <<head, dbCur>>
  <2>1. pc' = "rbRead" /\ mem'.rcpt = mem.rcpt /\ mem'.caller = "commit"
    BY <1>2, <1>4 DEF StartRollback, Goto, Mem
  <2>2. RestDevice'
    BY <1>1, <1>3, <1>4, NotAtRest
  <2> QED
    BY <1>1, <1>4, <2>1, <2>2, DeviceMoves
       DEF BeforeLocal, RollbackControl, RcptControl, Control
<1>5. ASSUME ~(StartRollback("commit") /\ UNCHANGED <<head, dbCur>>)
      PROVE  DeviceInv'
  <2> SUFFICES ASSUME ~unrestored
               PROVE  ReceiptsDevice' /\ RestDevice' /\ PendingDevice' /\ HandDevice'
    BY <1>1 DEF DeviceInv, DeviceContext, NoneSeen
  <2>1. pc' = "complete" /\ UNCHANGED mem
    BY <1>5 DEF CommitApply, CommitUndo, Goto
  <2>2. dbCur' = To(r)
    <3>1. CASE CommitApply(io)
      <4>1. dbCur' = Txn.ctx.input.conn /\ Txn.undoOf = None
        BY <1>2, <1>5, <3>1 DEF CommitApply, OfJob
      <4> QED
        BY <1>1, <1>3, <4>1, HandFromTo DEF CtxOf, Txn
    <3>2. CASE CommitUndo(io)
      <4>1. /\ dbCur' = journal[job.target].ctx.dbCur /\ Txn.undoOf = job.target
            /\ job.target \in Receipt /\ job.target # None
            /\ journal[job.target] # None /\ journal[job.target].ctx # None
        BY <1>1, <1>2, <1>5, <3>2, ConfigConstants
           DEF CommitUndo, OfJob, TypeInv, ControlOK, JobOK
      <4>2. ReceiptDevice(journal[job.target])
        BY <4>1 DEF DeviceContext, DeviceInv, ReceiptsDevice
      <4>3. journal[job.target].ctx.local = journal[job.target].ctx.dbCur
        BY <4>1, <4>2 DEF ReceiptDevice
      <4> QED
        BY <1>1, <1>3, <4>1, <4>3, HandFromTo DEF CtxOf, Txn
    <3> QED
      BY <3>1, <3>2
  <2>3. InStep'
    <3>1. device = To(mem.rcpt) /\ \A p \in Proc : cache[p] = device
      BY <1>1 DEF DeviceContext, DeviceInv, HandDevice
    <3>2. To(mem.rcpt) = To(r)
      BY <1>3 DEF To, CtxOf
    <3> QED
      BY <1>1, <2>2, <3>1, <3>2 DEF InStep
  <2>4. FilesInv'
    BY <1>1, FilesCommit
  <2>5. Pending' \subseteq {mem.rcpt} /\ Committed(mem.rcpt)'
    BY <1>1, <2>1, <2>4
       DEF FilesInv, HandFiles, DoneControl, FilesContext, OneInv, PendingInv
  <2>6. PendingDevice'
    BY <1>3, <2>1, <2>5 DEF PendingDevice, Committed
  <2>7. ReceiptsDevice'
    BY <1>1, ReceiptsDeviceKept DEF DeviceContext, DeviceInv
  <2>8. HandDevice'
    BY <2>1 DEF HandDevice, NotCommitted, BeforeLocal, RollbackControl
  <2> QED
    BY <2>3, <2>6, <2>7, <2>8 DEF RestDevice
<1> QED
  BY <1>4, <1>5 DEF CommitApply, CommitUndo

LEMMA DeviceBegin ==
  ASSUME DeviceContext, StartJob
  PROVE  DeviceInv'
<1>1. /\ UNCHANGED <<journal, head, device, dbCur, cache, seen, unrestored>>
      /\ guard = None /\ pc' = "recover"
  BY DEF StartJob, BeginApply, BeginUndo, BeginRecover, BeginPlain, Begin, durable
<1>2. ~Putting
  <2>1. pc # "idle" => guard # None
    BY ConfigConstants DEF DeviceContext, FilesContext, OneInv, TypeInv, ControlOK, JobOK
  <2> QED
    BY <1>1, <2>1 DEF Putting
<1>3. HandDevice'
  BY <1>1 DEF HandDevice, NotCommitted, BeforeLocal, RollbackControl
<1> QED
  BY <1>1, <1>2, <1>3, DeviceQuiet

\* A crash while the device setting had to go back is remembered in unrestored.
LEMMA DeviceCrash ==
  ASSUME DeviceContext, Crash
  PROVE  DeviceInv'
<1>1. /\ UNCHANGED <<journal, head, device, dbCur>> /\ pc' = "idle" /\ SameBytes
      /\ Pending' = Pending /\ guard \in Proc /\ TypeInv
  <2>1. TypeInv /\ guard \in Proc
    BY DEF Crash, DeviceContext, FilesContext, OneInv, TypeInv, TypeOK
  <2> QED
    BY <2>1 DEF Crash, durable, Finish, SameBytes, Pending
<1>2. unrestored => unrestored'
  BY Zenon DEF Crash
<1>3. NoneSeen' /\ \A p \in Proc : cache'[p] = device
  BY <1>1 DEF Crash, DeviceContext, DeviceInv, NoneSeen, Alone, TypeInv, TypeOK
<1> SUFFICES ASSUME ~unrestored'
             PROVE  ReceiptsDevice' /\ RestDevice' /\ PendingDevice' /\ HandDevice'
  BY <1>3 DEF DeviceInv
<1>4. ReceiptsDevice /\ RestDevice /\ PendingDevice
  BY <1>2 DEF DeviceContext, DeviceInv
<1>5. \A r \in Pending : (Committed(r)' <=> Committed(r)) /\ From(r)' = From(r)
  BY <1>1 DEF Committed, From, CtxOf
<1>6. PendingDevice'
  BY <1>1, <1>4, <1>5 DEF PendingDevice
<1>7. (\A r \in Pending : Committed(r)) => ~Putting
  <2>1. Putting => mem.rcpt \in Pending /\ pc \in NotCommitted
    BY DEF Crash, At, Putting, NotCommitted
  <2>2. pc \in NotCommitted => ~Committed(mem.rcpt)
    BY DEF DeviceContext, FilesContext, FilesInv, HandFiles, Untaken
  <2>3. PICK r : r = mem.rcpt
    OBVIOUS
  <2>4. Putting => r \in Pending /\ ~Committed(r)
    BY <2>1, <2>2, <2>3 DEF Committed
  <2> QED
    BY <2>4
<1>8. RestDevice'
  BY <1>1, <1>3, <1>4, <1>5, <1>7 DEF RestDevice, InStep
<1>9. HandDevice'
  BY <1>1 DEF HandDevice, NotCommitted, BeforeLocal, RollbackControl
<1> QED
  BY <1>1, <1>4, <1>6, <1>8, <1>9, ReceiptsDeviceKept

LEMMA DeviceRestart ==
  ASSUME DeviceContext, NEW p \in Proc, Restart(p)
  PROVE  DeviceInv'
<1>1. /\ UNCHANGED <<journal, head, device, dbCur, pc, unrestored>> /\ SameBytes
      /\ Pending' = Pending /\ TypeInv
  BY DEF Restart, durable, SameBytes, Pending, DeviceContext, FilesContext, OneInv
<1>2. pc = "idle"
  BY <1>1 DEF Restart, TypeInv, ControlOK, JobOK, DeviceContext, Alone
<1>3. NoneSeen' /\ \A q \in Proc : cache'[q] = device
  BY <1>1 DEF Restart, DeviceContext, DeviceInv, NoneSeen, Alone, TypeInv, TypeOK
<1> SUFFICES ASSUME ~unrestored'
             PROVE  ReceiptsDevice' /\ RestDevice' /\ PendingDevice' /\ HandDevice'
  BY <1>3 DEF DeviceInv
<1>4. ReceiptsDevice /\ RestDevice /\ PendingDevice
  BY <1>1 DEF DeviceContext, DeviceInv
<1>5. \A r \in Pending : (Committed(r)' <=> Committed(r)) /\ From(r)' = From(r)
  BY <1>1 DEF Committed, From, CtxOf
<1>6. RestDevice' /\ PendingDevice'
  BY <1>1, <1>2, <1>3, <1>4, <1>5 DEF RestDevice, PendingDevice, InStep, Putting
<1>7. HandDevice'
  BY <1>1, <1>2 DEF HandDevice, NotCommitted, BeforeLocal, RollbackControl
<1> QED
  BY <1>1, <1>4, <1>6, <1>7, ReceiptsDeviceKept

LEMMA DeviceOthers ==
  ASSUME DeviceContext, Environment
  PROVE  DeviceInv'
<1>1. CASE UNCHANGED <<journal, head, device, dbCur, cache, seen, pc, mem, unrestored>>
  <2>1. HandDevice => HandDevice'
    BY <1>1 DEF HandDevice, ReceiptDevice, From, To, CtxOf, InStep
  <2>2. ~unrestored' => HandDevice'
    BY <1>1, <2>1 DEF DeviceContext, DeviceInv
  <2> QED
    BY <1>1, <2>2, DeviceQuiet DEF Putting
<1>2. \A p \in Proc : p \notin Viewer /\ seen[p] = None
  BY DEF DeviceContext, Alone, DeviceInv, NoneSeen
<1>3. ASSUME NEW p \in Proc PROVE ~DeleteRow(p) /\ ~ViewObserve(p)
  BY <1>2 DEF DeleteRow, ViewObserve, Think
<1>4. ASSUME NEW p \in Proc, NEW c \in Conn PROVE ~DeleteCheck(p, c)
  BY <1>2 DEF DeleteCheck, Think
<1>5. ASSUME NEW p \in Proc, NEW io \in IO PROVE ~ViewClear(p, io)
  BY <1>2 DEF ViewClear
<1>6. CASE \/ \E d \in Draft : \/ \E i \in Input : CreateDraft(d, i) \/ UpdateDraft(d, i)
                              \/ DeleteDraft(d)
           \/ \E f \in File, b \in ExtBytes : ExternalWrite(f, b)
           \/ \E p \in Proc, c \in Conn, i \in Input : EditConnection(p, c, i.cfg)
  BY <1>1, <1>6 DEF CreateDraft, UpdateDraft, DeleteDraft, ExternalWrite, EditConnection
<1> QED
  BY <1>3, <1>4, <1>5, <1>6, DeviceCrash, DeviceRestart DEF Environment

LEMMA DeviceNext == DeviceContext /\ [Next]_vars => DeviceInv'
<1> SUFFICES ASSUME DeviceContext, [Next]_vars PROVE DeviceInv'
  OBVIOUS
<1>1. CASE UNCHANGED vars
  <2>1. UNCHANGED <<journal, head, device, dbCur, cache, seen, pc, mem, unrestored>>
    BY <1>1 DEF vars
  <2>2. HandDevice => HandDevice'
    BY <2>1 DEF HandDevice, ReceiptDevice, From, To, CtxOf, InStep
  <2>3. ~unrestored' => HandDevice'
    BY <2>1, <2>2 DEF DeviceContext, DeviceInv
  <2> QED
    BY <2>1, <2>3, DeviceQuiet DEF Putting
<1>2. CASE StartJob \/ Environment
  BY <1>2, DeviceBegin, DeviceOthers
<1>3. CASE Recover
  BY <1>3, DeviceRecover, DeviceDone, DeviceRestore DEF Recover
<1>4. CASE Transact
  BY <1>4, DeviceBefore, DeviceDone, DevicePrepare DEF Transact, IO
<1>5. CASE Rollback
  BY <1>5, DeviceRollback, DeviceRbSave, DeviceRestore, DeviceFlag DEF Rollback
<1>6. CASE Work
  BY <1>6, DevicePlan, DeviceLocal, DeviceCommit DEF Work
<1> QED
  BY <1>1, <1>2, <1>3, <1>4, <1>5, <1>6 DEF Next, JobStep

LEMMA DeviceInit == Init /\ Builtin => DeviceInv
BY DEF Init, DeviceInv, NoneSeen, ReceiptsDevice, RestDevice, InStep, PendingDevice, Pending,
       HandDevice, NotCommitted, BeforeLocal, RollbackControl

LEMMA DeviceAlways == Alone /\ Spec => [](OneInv /\ HeadInv /\ FilesInv /\ DeviceInv)
<1> SUFFICES ASSUME Alone PROVE Spec => [](OneInv /\ HeadInv /\ FilesInv /\ DeviceInv)
  OBVIOUS
<1> Builtin
  BY DEF Alone
<1>1. Spec => [](OneInv /\ HeadInv /\ FilesInv)
  BY FilesAlways
<1>2. Init => DeviceInv
  BY DeviceInit
<1>3. OneInv /\ HeadInv /\ FilesInv /\ DeviceInv /\ [Next]_vars => DeviceInv'
  BY DeviceNext DEF DeviceContext, FilesContext
<1> QED
  BY <1>1, <1>2, <1>3, PTL DEF Spec

\* At rest the live files, settings.json and the database tell of one connection, whichever
\* of the three writes failed and wherever the one process crashed, unless the step that
\* puts settings.json back was lost (apply_editor_draft, undo_config_apply, recovery).
THEOREM RestIsInStep == Alone /\ Spec => []SettledIsInStep
<1> SUFFICES ASSUME Alone PROVE Spec => []SettledIsInStep
  OBVIOUS
<1>1. TypeInv /\ DeviceInv /\ ~unrestored /\ Settled => device = dbCur
  BY ConfigConstants
     DEF DeviceInv, RestDevice, Settled, InStep, Putting, TypeInv, ControlOK, JobOK
<1>2. OneInv /\ DeviceInv => DeviceFollowsDb
  BY <1>1 DEF OneInv, DeviceFollowsDb
<1> QED
  BY <1>2, DeviceAlways, FilesMatchHead, PTL DEF SettledIsInStep, Alone

\* An application changes the records of the connection it applies and of the one it
\* leaves, and of no third one: the drift it saves belongs to the connection the database
\* had in use (prepare_draft_application, commit_editor_application).
THEOREM DriftIsOfTheLeft == Alone /\ Spec => DriftSavedWhenInStep
<1> SUFFICES ASSUME Alone PROVE Spec => DriftSavedWhenInStep
  OBVIOUS
<1>1. ASSUME OneInv, HeadInv, FilesInv, DeviceInv, [Next]_vars, ~unrestored
      PROVE  OnlyLeftAndAppliedChange
  <2>1. SUFFICES ASSUME pc = "commit", job.kind = "apply", head' # head,
                        NEW c \in Conn, conns'[c] # conns[c]
                 PROVE  c \in {Txn.ctx.input.conn, dbCur}
    BY DEF OnlyLeftAndAppliedChange
  <2>2. PICK io \in IO : CommitApply(io)
    BY <1>1, <2>1, WhoMovesHead DEF CommitUndo
  <2>3. DeviceContext /\ pc \in NotCommitted /\ pc \in JobControl
    BY <1>1, <2>1 DEF DeviceContext, FilesContext, Alone, NotCommitted, JobControl
  <2>4. PICK r \in Receipt : r = mem.rcpt /\ journal[r] # None
    BY <2>3, InHandFiles DEF DeviceContext
  <2>5. Txn = journal[r] /\ Txn.undoOf = None /\ Txn.ctx # None
    BY <1>1, <2>1, <2>3, <2>4 DEF OneInv, TypeInv, ControlOK, OfJob, Txn
  <2>6. Txn.ctx.after[c] # None
    BY <2>1, <2>2 DEF CommitApply
  <2>7. ReceiptDevice(journal[r])
    BY <1>1, <2>4 DEF DeviceInv, ReceiptsDevice
  <2>8. dbCur = Txn.ctx.local
    BY <1>1, <2>3, <2>4, <2>5, HandFromTo DEF CtxOf, Txn
  <2> QED
    BY <2>5, <2>6, <2>7, <2>8 DEF ReceiptDevice
<1>2. OneInv /\ HeadInv /\ FilesInv /\ DeviceInv /\ [Next]_vars
        => [~unrestored => OnlyLeftAndAppliedChange]_vars
  BY <1>1
<1> QED
  BY <1>2, DeviceAlways, PTL DEF Spec, DriftSavedWhenInStep

-----------------------------------------------------------------------------
(* What a job reports *)

\* The outcome is that of the last job; an undo that has committed gave everything back.
UndoneInv ==
  /\ guard # None => outcome = "none"
  /\ pc \in {"recVerify", "recComplete"} => mem.caller = "recover"
  /\ pc = "markUndone" /\ mem.caller # "recover" => job.kind = "undo"
  /\ pc \in {"commit", "complete", "markUndone"} /\ job.kind = "undo" /\ mem.caller # "recover" =>
       device = journal[job.target].ctx.local
  /\ pc \in {"complete", "markUndone"} /\ job.kind = "undo" /\ mem.caller # "recover" =>
       /\ AllSame(journal[job.target].before)
       /\ dbCur = journal[job.target].ctx.dbCur /\ head = journal[job.target].ctx.head

UndoneContext == DeviceContext /\ UndoneInv

\* What the clauses of an undo speak of stays what it is.
LEMMA TargetKept ==
  ASSUME UndoneContext, job.kind = "undo", SameBytes
  PROVE  /\ journal'[job.target].before = journal[job.target].before
         /\ journal'[job.target].ctx = journal[job.target].ctx
  BY DEF UndoneContext, DeviceContext, FilesContext, OneInv, TypeInv, ControlOK, JobOK, SameBytes

LEMMA QuietOutcome ==
  ASSUME UndoneContext, [Next]_vars, guard' # None
  PROVE  outcome' = "none"
<1>1. CASE UNCHANGED vars
  BY <1>1 DEF vars, UndoneInv, UndoneContext
<1>2. CASE StartJob
  BY <1>2 DEF StartJob, BeginApply, BeginUndo, BeginRecover, BeginPlain, Begin
<1>3. CASE Environment
  BY <1>3
     DEF Environment, CreateDraft, UpdateDraft, DeleteDraft, ExternalWrite, EditConnection,
         DeleteCheck, DeleteRow, ViewObserve, ViewClear, Think, Crash, Restart, Finish,
          UndoneInv, UndoneContext
<1>4. CASE Recover
  BY <1>4
     DEF Recover, NoPending, PlainRefused, RecVerify, RecoverReceipt, RecComplete, RecLocal,
         Goto, Finish, UndoneInv, UndoneContext
<1>5. CASE Transact
  BY <1>5
     DEF Transact, Cas, Check, Write, Written, Complete, MarkUndone, Prepare, StartRollback,
         Goto, Finish, UndoneInv, UndoneContext
<1>6. CASE Rollback
  BY <1>6
     DEF Rollback, RbRead, RbWrite, RbSave, Restore, Flag, Goto, Finish, UndoneInv, UndoneContext
<1>7. CASE Work
  BY <1>7
     DEF Work, Reuse, PlanApply, PlanUndo, PlanPlain, Local, CommitApply, CommitUndo,
         StartRollback, Goto, Finish, UndoneInv, UndoneContext
<1> QED
  BY <1>1, <1>2, <1>3, <1>4, <1>5, <1>6, <1>7 DEF Next, JobStep

\* A step that writes neither files nor settings nor rows.
LEMMA UndoneStays ==
  ASSUME UndoneContext, [Next]_vars, SameBytes, Calm,
         UNCHANGED <<device, dbCur, head, job, mem>>,
         \/ pc' = pc
         \/ pc = "complete" /\ pc' = "markUndone" /\ job.kind = "undo"
         \/ pc = "recComplete" /\ pc' = "markUndone" /\ mem.caller = "recover"
         \/ pc' \notin {"recVerify", "recComplete", "commit", "complete", "markUndone"}
  PROVE  UndoneInv'
<1>1. UndoneInv
  BY DEF UndoneContext
<1>2. job.kind = "undo" => /\ journal'[job.target].before = journal[job.target].before
                           /\ journal'[job.target].ctx = journal[job.target].ctx
  BY TargetKept
<1>3. job.kind = "undo" /\ AllSame(journal[job.target].before) =>
        AllSame(journal[job.target].before)'
  BY <1>2, SameKept DEF AllSame, Same
<1> QED
  BY <1>1, <1>2, <1>3, QuietOutcome DEF UndoneInv

LEMMA UndoneElsewhere ==
  ASSUME UndoneContext, [Next]_vars,
         pc' \notin {"recVerify", "recComplete", "commit", "complete", "markUndone"}
  PROVE  UndoneInv'
  BY QuietOutcome DEF UndoneInv, UndoneContext

LEMMA UndoneLocal ==
  ASSUME UndoneContext, [Next]_vars, NEW io \in IO, Local(io)
  PROVE  UndoneInv'
<1>1. /\ pc = "local" /\ pc \in NotCommitted /\ pc \in JobControl /\ DeviceContext
      /\ pc \in RcptControl
  BY DEF Local, At, NotCommitted, JobControl, RcptControl, Control, UndoneContext
<1>2. TypeInv /\ OfJob /\ mem \in Mem /\ guard \in Proc
  BY <1>1, InHand DEF DeviceContext, FilesContext, OneInv, TypeInv, ControlOK
<1>3. CASE pc' = "rbRead"
  BY <1>3, UndoneElsewhere
<1>4. CASE pc' = "commit"
  <2>1. io = "ok" /\ UNCHANGED <<job, journal, mem>>
    BY <1>4 DEF Local, StartRollback, Goto
  <2>2. job.kind = "undo" => CtxOf(mem.rcpt) = journal[job.target].ctx
    BY <1>2, ConfigConstants DEF OfJob, CtxOf, Txn, TypeInv, ControlOK, JobOK
  <2>3. job.kind = "undo" => device' = journal[job.target].ctx.local
    BY <2>1, <2>2 DEF Local, SetDevice
  <2> QED
    BY <1>4, <2>1, <2>3, QuietOutcome DEF UndoneInv
<1> QED
  BY <1>3, <1>4 DEF Local, StartRollback, Goto

LEMMA UndoneCommit ==
  ASSUME UndoneContext, [Next]_vars, NEW io \in IO, CommitApply(io) \/ CommitUndo(io)
  PROVE  UndoneInv'
<1>1. /\ pc = "commit" /\ pc \in NotCommitted /\ pc \in JobControl /\ DeviceContext
      /\ FilesContext /\ UndoneInv
  BY DEF CommitApply, CommitUndo, At, NotCommitted, JobControl, UndoneContext, DeviceContext
<1>2. CASE pc' = "rbRead"
  BY <1>2, UndoneElsewhere
<1>3. CASE pc' = "complete" /\ CommitApply(io)
  <2>1. job'.kind = "apply"
    BY <1>3 DEF CommitApply, Goto, StartRollback
  <2> QED
    BY <1>3, <2>1, QuietOutcome DEF UndoneInv
<1>4. CASE pc' = "complete" /\ CommitUndo(io)
  <2>1. /\ job.kind = "undo" /\ UNCHANGED <<job, mem, journal, live, device>>
        /\ dbCur' = journal[job.target].ctx.dbCur /\ head' = journal[job.target].ctx.head
    BY <1>4 DEF CommitUndo, Goto, StartRollback
  <2>2. PICK r \in Receipt : r = mem.rcpt /\ ReceiptFiles(journal[r])
    BY <1>1, InHandFiles
  <2>3. Txn.undoOf = job.target /\ job.target # None /\ Txn = journal[r]
    BY <1>1, <2>1, <2>2, InHandFiles, ConfigConstants
       DEF TypeInv, ControlOK, OfJob, JobOK, Txn
  <2>4. Txn.after = journal[job.target].before
    BY <2>2, <2>3 DEF ReceiptFiles
  <2>5. AllSame(Txn.after)
    BY <1>1 DEF FilesContext, FilesInv, HandFiles
  <2>6. AllSame(journal[job.target].before)'
    BY <2>1, <2>4, <2>5 DEF AllSame, Same
  <2>7. mem.caller # "recover" => device' = journal[job.target].ctx.local
    BY <1>1, <2>1 DEF UndoneInv
  <2> QED
    BY <1>4, <2>1, <2>6, <2>7, QuietOutcome DEF UndoneInv
<1> QED
  BY <1>2, <1>3, <1>4 DEF CommitApply, CommitUndo, StartRollback, Goto

LEMMA UndoneFinish ==
  ASSUME UndoneContext, [Next]_vars, NEW io \in IO,
         Written(io) \/ Complete(io) \/ RecComplete(io) \/ MarkUndone(io)
  PROVE  UndoneInv'
<1>1. /\ pc \in RcptControl /\ TypeInv /\ journal \in JournalType
      /\ mem.rcpt \in Receipt /\ journal[mem.rcpt] # None
      /\ UNCHANGED <<head, dbCur, device, live>> /\ Alone
  BY InHand
     DEF Written, Complete, RecComplete, MarkUndone, At, RcptControl, Control, UndoneContext,
         DeviceContext, FilesContext, OneInv
<1>2. CASE pc' \notin {"commit", "complete", "markUndone"}
  BY <1>2, UndoneElsewhere
     DEF Written, Complete, RecComplete, MarkUndone, Goto, Finish, StartRollback
<1>3. CASE pc' \in {"commit", "complete", "markUndone"}
  <2>1. /\ UNCHANGED <<job, mem>>
        /\ \/ Complete(io) /\ pc = "complete" /\ pc' = "markUndone" /\ job.kind = "undo"
           \/ RecComplete(io) /\ pc = "recComplete" /\ pc' = "markUndone"
    BY <1>1, <1>3
       DEF Written, Complete, RecComplete, MarkUndone, Goto, Finish, StartRollback, At, Alone,
           TypeInv, ControlOK, OfJob, JobControl, JobOK
  <2>2. Persist(mem.rcpt, "Completed", io)
    BY <2>1 DEF Complete, RecComplete
  <2>3. SameBytes /\ Calm
    BY <1>1, <2>2, PersistBytes DEF ApplyState, Calm
  <2>4. pc = "recComplete" => mem.caller = "recover"
    BY DEF UndoneContext, UndoneInv
  <2> QED
    BY <1>1, <2>1, <2>3, <2>4, UndoneStays
<1> QED
  BY <1>2, <1>3

LEMMA UndoneRecover ==
  ASSUME UndoneContext, [Next]_vars,
         NoPending \/ PlainRefused \/ RecVerify \/ \E r \in Receipt : RecoverReceipt(r)
  PROVE  UndoneInv'
<1>1. CASE pc' \notin {"recVerify", "recComplete"}
  BY <1>1, UndoneElsewhere
     DEF NoPending, PlainRefused, RecVerify, RecoverReceipt, Goto, Finish
<1>2. CASE pc' \in {"recVerify", "recComplete"}
  <2>1. mem'.caller = "recover"
    BY <1>2
       DEF NoPending, PlainRefused, RecVerify, RecoverReceipt, Goto, Finish, NoMem, At,
           UndoneContext, UndoneInv
  <2> QED
    BY <1>2, <2>1, QuietOutcome DEF UndoneInv
<1> QED
  BY <1>1, <1>2

LEMMA UndoneOthers ==
  ASSUME UndoneContext, [Next]_vars, StartJob \/ Environment \/ UNCHANGED vars
  PROVE  UndoneInv'
<1>1. CASE UNCHANGED <<journal, head, device, dbCur, pc, mem, job>> /\ Calm
  BY <1>1, UndoneStays DEF SameBytes
<1>2. CASE pc' \in {"idle", "recover"}
  BY <1>2, UndoneElsewhere
<1>3. \A p \in Proc : p \notin Viewer /\ seen[p] = None
  BY DEF UndoneContext, DeviceContext, Alone, DeviceInv, NoneSeen
<1>4. ASSUME NEW p \in Proc PROVE ~DeleteRow(p) /\ ~ViewObserve(p)
  BY <1>3 DEF DeleteRow, ViewObserve, Think
<1>5. ASSUME NEW p \in Proc, NEW c \in Conn PROVE ~DeleteCheck(p, c)
  BY <1>3 DEF DeleteCheck, Think
<1>6. ASSUME NEW p \in Proc, NEW io \in IO PROVE ~ViewClear(p, io)
  BY <1>3 DEF ViewClear
<1>7. ASSUME NEW f \in File, NEW b \in ExtBytes, ExternalWrite(f, b) PROVE UndoneInv'
  <2>1. Calm
    BY <1>7 DEF ExternalWrite, Calm, UndoneContext, DeviceContext, FilesContext, OneInv,
                TypeInv, TypeOK, Cfg
  <2> QED
    BY <1>1, <1>7, <2>1 DEF ExternalWrite
<1>8. UNCHANGED live => Calm
  BY DEF Calm
<1>9. ASSUME UNCHANGED <<live, journal, head, device, dbCur, pc, mem, job>> PROVE UndoneInv'
  BY <1>1, <1>8, <1>9
<1>10. CASE UNCHANGED vars
  BY <1>9, <1>10 DEF vars
<1>11. CASE StartJob
  BY <1>2, <1>11 DEF StartJob, BeginApply, BeginUndo, BeginRecover, BeginPlain, Begin
<1>12. CASE Crash
  BY <1>2, <1>12 DEF Crash, Finish
<1>13. CASE \/ \E d \in Draft : \/ \E i \in Input : CreateDraft(d, i) \/ UpdateDraft(d, i)
                               \/ DeleteDraft(d)
            \/ \E p \in Proc : \/ \E c \in Conn, i \in Input : EditConnection(p, c, i.cfg)
                               \/ Restart(p)
  BY <1>9, <1>13
     DEF CreateDraft, UpdateDraft, DeleteDraft, EditConnection, Restart, durable
<1> QED
  BY <1>4, <1>5, <1>6, <1>7, <1>10, <1>11, <1>12, <1>13 DEF Environment

LEMMA UndoneNext == UndoneContext /\ [Next]_vars => UndoneInv'
<1> SUFFICES ASSUME UndoneContext, [Next]_vars PROVE UndoneInv'
  OBVIOUS
<1>0. Builtin
  BY DEF UndoneContext, DeviceContext, Alone
<1>1. CASE StartJob \/ Environment \/ UNCHANGED vars
  BY <1>1, UndoneOthers
<1>2. ASSUME NEW io \in IO, RecLocal(io) PROVE UndoneInv'
  BY <1>2, UndoneElsewhere DEF RecLocal, Goto, Finish
<1>3. CASE Recover
  BY <1>2, <1>3, UndoneRecover, UndoneFinish DEF Recover
<1>4. CASE Cas
  BY <1>4, UndoneElsewhere DEF Cas, Goto, StartRollback
<1>5. ASSUME NEW io \in IO, Check(io) \/ Write(io) \/ \E r \in Receipt : Prepare(r, io)
      PROVE  UndoneInv'
  BY <1>5, UndoneElsewhere DEF Check, Write, Prepare, Goto, Finish, StartRollback
<1>6. CASE Transact
  BY <1>4, <1>5, <1>6, UndoneFinish DEF Transact
<1>7. CASE Rollback
  <2>1. ASSUME NEW io \in IO,
               RbRead(io) \/ RbWrite(io) \/ RbSave(io) \/ Restore(io) \/ Flag(io)
        PROVE  UndoneInv'
    BY <2>1, UndoneElsewhere DEF RbRead, RbWrite, RbSave, Restore, Flag, Goto, Finish
  <2> QED
    BY <1>7, <2>1 DEF Rollback
<1>8. CASE Reuse \/ PlanApply \/ PlanUndo \/ PlanPlain
  BY <1>8, UndoneElsewhere DEF Reuse, PlanApply, PlanUndo, PlanPlain, Goto, Finish
<1>9. CASE Work
  BY <1>8, <1>9, UndoneLocal, UndoneCommit DEF Work
<1> QED
  BY <1>1, <1>3, <1>6, <1>7, <1>9 DEF Next, JobStep

LEMMA UndoneAlways == Alone /\ Spec => []UndoneContext
<1> SUFFICES ASSUME Alone PROVE Spec => []UndoneContext
  OBVIOUS
<1>1. Spec => [](OneInv /\ HeadInv /\ FilesInv /\ DeviceInv)
  BY DeviceAlways
<1>2. OneInv /\ HeadInv /\ FilesInv /\ DeviceInv => DeviceContext
  BY DEF DeviceContext, FilesContext, Alone
<1>3. Init => UndoneInv
  BY DEF Init, UndoneInv
<1>4. DeviceContext /\ UndoneInv /\ [Next]_vars => UndoneInv'
  BY UndoneNext DEF UndoneContext
<1> QED
  BY <1>1, <1>2, <1>3, <1>4, PTL DEF Spec, UndoneContext

\* The steps that report to the caller that a job failed.
LEMMA Reporting ==
  ASSUME UndoneContext, [Next]_vars, guard # None, outcome' \in {"failed", "undone"}
  PROVE  \/ mem.rcpt = None /\ outcome' = "failed"
         \/ \E io \in IO : Check(io) \/ RbSave(io) \/ Restore(io)
         \/ \E io \in IO : Complete(io) \/ MarkUndone(io)
<1>1. TypeInv /\ outcome = "none"
  BY DEF UndoneContext, DeviceContext, FilesContext, OneInv, UndoneInv
<1>2. CASE UNCHANGED vars
  BY <1>1, <1>2 DEF vars
<1>3. CASE StartJob
  BY <1>3 DEF StartJob, BeginApply, BeginUndo, BeginRecover, BeginPlain, Begin
<1>4. CASE Environment
  BY <1>1, <1>4
     DEF Environment, CreateDraft, UpdateDraft, DeleteDraft, ExternalWrite, EditConnection,
         DeleteCheck, DeleteRow, ViewObserve, ViewClear, Think, Crash, Restart, Finish
<1>5. CASE Recover
  BY <1>1, <1>5
     DEF Recover, NoPending, PlainRefused, RecVerify, RecoverReceipt, RecComplete, RecLocal,
         Goto, Finish
<1>6. CASE Transact
  BY <1>1, <1>6
     DEF Transact, Cas, Write, Written, Prepare, StartRollback, Goto, Finish, At, TypeInv,
         ControlOK
<1>7. CASE Rollback
  BY <1>1, <1>7 DEF Rollback, RbRead, RbWrite, Flag, Goto, Finish
<1>8. CASE Work
  BY <1>1, <1>8
     DEF Work, Reuse, PlanApply, PlanUndo, PlanPlain, Local, CommitApply, CommitUndo, At,
         StartRollback, Goto, Finish, TypeInv, ControlOK
<1> QED
  BY <1>2, <1>3, <1>4, <1>5, <1>6, <1>7, <1>8 DEF Next, JobStep

\* An application that failed and left nothing to inspect put everything back.
LEMMA FailedApply ==
  ASSUME UndoneContext, [Next]_vars, guard # None, job.kind = "apply", outcome' = "failed",
         mem.rcpt # None
  PROVE  /\ head' # mem.rcpt
         /\ \A f \in File : live'[f] \in {Txn.before[f]} \cup ExtBytes
         /\ ~unrestored' => device' = Txn.ctx.local
<1>0. /\ DeviceContext /\ FilesContext /\ TypeInv /\ Alone /\ UndoneInv
      /\ outcome = "none"
      /\ unrestored => unrestored'
  <2>1. DeviceContext /\ FilesContext /\ TypeInv /\ Alone /\ UndoneInv
        /\ outcome = "none"
    BY DEF UndoneContext, DeviceContext, FilesContext, OneInv, UndoneInv
  <2>2. ASSUME NEW io \in IO, Check(io) \/ Restore(io) \/ Complete(io) \/ MarkUndone(io)
        PROVE  UNCHANGED unrestored
    BY <2>2 DEF Check, Restore, Complete, MarkUndone
  <2>3. ASSUME NEW io \in IO, RbSave(io) PROVE unrestored => unrestored'
    BY <2>3, Zenon DEF RbSave
  <2> QED
    BY <2>1, <2>2, <2>3, Reporting
<1>1. PICK io \in IO :
        /\ Check(io) \/ RbSave(io) \/ Restore(io)
        /\ UNCHANGED <<live, head>> /\ UNCHANGED dbCur /\ pc \in NotCommitted
  <2>1. ASSUME NEW io \in IO, Complete(io) \/ MarkUndone(io) PROVE FALSE
    BY <1>0, <2>1 DEF Complete, MarkUndone, Finish, Goto, UndoneInv, At
  <2> QED
    BY <2>1, Reporting DEF Check, RbSave, Restore, At, NotCommitted
<1>2. RbSave(io) => mem.caller # "recover" /\ ~mem.bad
  BY <1>0 DEF RbSave, Finish, Goto
<1>3. Restore(io) => ~mem.bad
  BY <1>0 DEF Restore, Finish, Goto
<1>4. PICK r \in Receipt : r = mem.rcpt /\ journal[r] # None /\ Untaken(r)
  BY <1>0, <1>1, InHandFiles
<1>5. Txn = journal[r] /\ Txn.undoOf = None /\ Txn.ctx # None /\ OfJob
  BY <1>0, <1>1, <1>4, <1>2
     DEF Txn, Check, RbSave, Restore, At, TypeInv, ControlOK, OfJob, JobControl,
         RollbackControl
<1>6. head' # mem.rcpt
  BY <1>1, <1>4, <1>5 DEF Untaken, Committed
<1>7. AllSame(Txn.before)
  BY <1>0, <1>1, <1>2, <1>3
     DEF Check, RbSave, Restore, At, FilesContext, FilesInv, HandFiles
<1>8. ~unrestored' => device' = Txn.ctx.local
  <2>1. SUFFICES ASSUME ~unrestored' PROVE device' = Txn.ctx.local
    OBVIOUS
  <2>2. dbCur = Txn.ctx.local
    BY <1>0, <1>1, <1>4, <1>5, <2>1, HandFromTo DEF CtxOf, Txn
  <2>3. CASE Check(io) \/ RbSave(io)
    <3>1. CASE Check(io)
      <4>1. InStep
        BY <1>0, <2>1, <3>1 DEF Check, At, DeviceContext, DeviceInv, HandDevice, BeforeLocal
      <4> QED
        BY <2>2, <3>1, <4>1 DEF InStep, Check
    <3>2. CASE RbSave(io)
      <4>1. pc \in RollbackControl /\ mem.caller = "apply"
        BY <1>0, <1>1, <1>2, <3>2
           DEF RbSave, At, RollbackControl, TypeInv, TypeOK, ControlOK, Mem, Caller, Finish,
               Goto, Alone, UndoneInv
      <4>2. InStep
        BY <1>0, <2>1, <4>1 DEF DeviceContext, DeviceInv, HandDevice
      <4> QED
        BY <2>2, <3>2, <4>2 DEF InStep, RbSave
    <3> QED
      BY <2>3, <3>1, <3>2
  <2>4. CASE Restore(io)
    <3>1. io = "ok" /\ CtxOf(mem.rcpt) = Txn.ctx
      BY <1>4, <1>5, <2>4 DEF Restore, Goto, CtxOf, UndoneContext, UndoneInv
    <3> QED
      BY <2>4, <3>1 DEF Restore, SetDevice
  <2> QED
    BY <1>1, <2>3, <2>4
<1> QED
  BY <1>1, <1>6, <1>7, <1>8 DEF AllSame, Same

\* What the caller of an application or an undo is told is so: "failed" with nothing to
\* inspect means that the files, the device setting and the head are as before, "undone"
\* that all of them are as the application had found them (the returns and error paths of
\* apply_editor_draft and undo_config_apply, with every rollback and restore they make).
THEOREM ReportsHold == Alone /\ Spec => ReportsAreTrue
<1> SUFFICES ASSUME Alone PROVE Spec => ReportsAreTrue
  OBVIOUS
<1> DEFINE F == job.kind = "apply" /\ guard # None /\ outcome' = "failed" /\ mem.rcpt # None =>
                  /\ head' # mem.rcpt
                  /\ \A f \in File : live'[f] \in {Txn.before[f]} \cup ExtBytes
                  /\ Builtin /\ ~unrestored' => device' = Txn.ctx.local
           U == job.kind = "undo" /\ outcome' = "undone" /\ guard # None =>
                  LET r == journal[job.target]
                  IN /\ \A f \in File : live'[f] \in {r.before[f]} \cup ExtBytes
                     /\ dbCur' = r.ctx.dbCur /\ head' = r.ctx.head
                     /\ Builtin => device' = r.ctx.local
<1>1. UndoneContext /\ [Next]_vars => F
  BY FailedApply
<1>2. UndoneContext /\ [Next]_vars => U
  <2>1. SUFFICES ASSUME UndoneContext, [Next]_vars, job.kind = "undo", outcome' = "undone",
                        guard # None
                 PROVE  LET r == journal[job.target]
                        IN /\ \A f \in File : live'[f] \in {r.before[f]} \cup ExtBytes
                           /\ dbCur' = r.ctx.dbCur /\ head' = r.ctx.head
                           /\ device' = r.ctx.local
    OBVIOUS
  <2>2. PICK io \in IO : /\ MarkUndone(io) /\ pc = "markUndone" /\ mem.caller # "recover"
                         /\ UNCHANGED <<live, dbCur, head, device>>
    BY <2>1, Reporting
       DEF UndoneContext, UndoneInv, Check, RbSave, Restore, Complete, MarkUndone, Finish, Goto, At
  <2> QED
    BY <2>1, <2>2 DEF UndoneContext, UndoneInv, AllSame, Same
<1>3. UndoneContext /\ [Next]_vars => [F]_vars /\ [U]_vars
  BY <1>1, <1>2
<1> HIDE DEF F, U
<1>4. Spec => [][F]_vars /\ [][U]_vars
  BY <1>3, UndoneAlways, PTL DEF Spec
<1> QED
  BY <1>4 DEF F, U, ReportsAreTrue, FailedLeavesNoTrace, UndoRestores

-----------------------------------------------------------------------------
(* What is in hand, for the refinement *)

\* An application gives the files the record of the connection it applies; as the record
\* of another connection it stores at most what it found in them.
Shape(R) ==
  R.ctx # None =>
    /\ R.ctx.after[R.ctx.input.conn] = R.after
    /\ \A c \in Conn : R.ctx.after[c] # None /\ c # R.ctx.input.conn =>
         R.ctx.before[c] # None /\ R.ctx.after[c] = R.before

Shaped == \A r \in Receipt : journal[r] # None => Shape(journal[r])

\* What has been undone, or is to be, is done, and not in hand.
Originals ==
  \A r \in Receipt : journal[r] # None /\ journal[r].undoOf # None =>
    /\ journal[journal[r].undoOf].state \in {"Completed", "RolledBack"}
    /\ pc \in RcptControl => journal[r].undoOf # mem.rcpt

\* Where the receipt in hand is open, or about to be completed.
Working == Applying \cup RollbackControl \cup {"recVerify", "recComplete", "complete"}
Unsettled == {"Prepared", "FilesWritten"}

HandStates ==
  /\ pc = "prepare" =>
       /\ Shape(mem.rec)
       /\ mem.rec.ctx # None => mem.rec.ctx.dbCur = dbCur
       /\ mem.rec.undoOf # None => journal[mem.rec.undoOf].state = "Completed"
  /\ pc \in Applying /\ Txn.ctx # None => Txn.ctx.dbCur = dbCur
  /\ pc \in Working => Txn.state \in Unsettled
  /\ Putting => Txn.state # "Completed"

HoldInv == NoneSeen /\ Shaped /\ Originals /\ HandStates

HoldContext == FilesContext /\ Viewer = {} /\ HoldInv

LEMMA ShapeKept ==
  ASSUME SameBytes, Shaped
  PROVE  Shaped'
  BY DEF SameBytes, Shaped, Shape

\* A step that works on the receipt in hand.
LEMMA OriginalsHeld ==
  ASSUME TypeInv, Originals, pc \in RcptControl, NEW io \in IO, NEW state \in ApplyState,
         UNCHANGED journal \/ Persist(mem.rcpt, state, io),
         pc' \in {"idle", "recover"} \/ mem'.rcpt = mem.rcpt
  PROVE  Originals'
<1>1. mem.rcpt \in Receipt /\ journal[mem.rcpt] # None /\ journal \in JournalType
  BY InHand
<1>2. SUFFICES ASSUME NEW r \in Receipt, journal'[r] # None, journal'[r].undoOf # None
               PROVE  /\ journal'[journal'[r].undoOf].state \in {"Completed", "RolledBack"}
                      /\ journal'[r].undoOf # mem.rcpt
  BY DEF Originals, RcptControl
<1>3. journal[r] # None /\ journal'[r].undoOf = journal[r].undoOf
  BY <1>1, <1>2, PersistFacts
<1>4. journal[r].undoOf \in Receipt /\ journal[r].undoOf # mem.rcpt
      /\ journal[journal[r].undoOf].state \in {"Completed", "RolledBack"}
  BY <1>1, <1>2, <1>3 DEF Originals, JournalType, ReceiptRec
<1>5. journal'[journal[r].undoOf] = journal[journal[r].undoOf]
  BY <1>1, <1>4, PersistFacts
<1> QED
  BY <1>3, <1>4, <1>5

LEMMA StatesFree ==
  ASSUME pc' \in {"idle", "recover", "plan", "markUndone"}
  PROVE  HandStates'
  BY DEF HandStates, Working, Applying, RollbackControl, Putting

LEMMA StatesHeld ==
  ASSUME TypeInv, HandStates, pc \in RcptControl, pc' \in RcptControl, mem'.rcpt = mem.rcpt,
         SameReceipts, pc' \in Applying => pc \in Applying /\ UNCHANGED dbCur,
         pc' \in Working => Txn'.state \in Unsettled,
         Putting' => Txn'.state # "Completed"
  PROVE  HandStates'
<1>1. mem.rcpt \in Receipt /\ journal[mem.rcpt] # None
  BY InHand
<1>2. Txn'.ctx = Txn.ctx
  BY <1>1 DEF Txn, SameReceipts
<1>3. pc' # "prepare"
  BY DEF RcptControl
<1> QED
  BY <1>2, <1>3 DEF HandStates

\* The receipt in hand is neither gained nor lost.
LEMMA InHandKept ==
  ASSUME HoldContext, pc \in RcptControl, NEW io \in IO, NEW state \in ApplyState,
         UNCHANGED journal \/ Persist(mem.rcpt, state, io), UNCHANGED seen,
         \/ pc' \in {"idle", "recover"}
         \/ /\ mem'.rcpt = mem.rcpt /\ pc' \in RcptControl
            /\ pc' \in Applying => pc \in Applying /\ UNCHANGED dbCur
            /\ pc' \in Working => Txn'.state \in Unsettled
            /\ Putting' => Txn'.state # "Completed"
  PROVE  HoldInv'
<1>1. TypeInv /\ HandStates /\ Shaped /\ Originals /\ NoneSeen
  BY DEF HoldContext, FilesContext, OneInv, HoldInv
<1>2. mem.rcpt \in Receipt /\ journal[mem.rcpt] # None /\ journal \in JournalType
  BY <1>1, InHand
<1>3. SameReceipts /\ SameBytes
  BY <1>2, PersistKeeps, UnchangedKeeps, PersistBytes DEF SameBytes
<1>4. Shaped' /\ Originals' /\ NoneSeen'
  BY <1>1, <1>3, ShapeKept, OriginalsHeld DEF NoneSeen
<1>5. HandStates'
  BY <1>1, <1>3, StatesFree, StatesHeld
<1> QED
  BY <1>4, <1>5 DEF HoldInv

\* What InHandKept asks of a step, for those that write no receipt or one to settle.
LEMMA HoldWorks ==
  ASSUME HoldContext, NEW io \in IO,
         \/ Cas \/ RbRead(io) \/ Write(io) \/ RbWrite(io) \/ Local(io)
         \/ CommitApply(io) \/ CommitUndo(io) \/ RecVerify
  PROVE  HoldInv'
<1>1. TypeInv /\ HandStates /\ mem \in Mem
  BY DEF HoldContext, FilesContext, OneInv, HoldInv, TypeInv, TypeOK
<1>2. /\ pc \in Working /\ pc \in RcptControl
      /\ UNCHANGED journal /\ UNCHANGED seen
  BY DEF Cas, RbRead, Write, RbWrite, Local, CommitApply, CommitUndo, RecVerify, At, durable,
         Working, Applying, RollbackControl, RcptControl, Control
<1>3. pc' = "idle" \/ mem'.rcpt = mem.rcpt
  BY <1>1 DEF Cas, RbRead, Write, RbWrite, Local, CommitApply, CommitUndo, RecVerify, Goto,
              StartRollback, Finish, Mem
<1>4. pc' \in {"idle", "cas", "write", "written", "rbRead", "rbWrite", "rbSave", "commit",
               "complete", "recComplete"}
  BY DEF Cas, RbRead, Write, RbWrite, Local, CommitApply, CommitUndo, RecVerify, Goto,
         StartRollback, Finish
<1>5. pc' \in Applying => pc \in Applying /\ UNCHANGED dbCur
  BY DEF Cas, RbRead, Write, RbWrite, Local, CommitApply, CommitUndo, RecVerify, At, durable,
         Applying, Goto, StartRollback, Finish
<1>6. Txn.state \in Unsettled
  BY <1>1, <1>2 DEF HandStates
<1>7. ~Putting' /\ (pc' # "idle" => pc' \in RcptControl)
  BY <1>4 DEF Putting, RcptControl, Control
<1>8. mem'.rcpt = mem.rcpt => Txn' = Txn
  BY <1>2 DEF Txn
<1> QED
  BY <1>2, <1>3, <1>5, <1>6, <1>7, <1>8, InHandKept DEF ApplyState

\* What the receipt in hand is after it has been saved.
LEMMA SavedState ==
  ASSUME TypeInv, pc \in RcptControl, NEW io \in IO, NEW state \in ApplyState,
         Persist(mem.rcpt, state, io), mem'.rcpt = mem.rcpt
  PROVE  Txn'.state = IF io = "fail" THEN Txn.state ELSE state
<1>1. mem.rcpt \in Receipt /\ journal[mem.rcpt] # None /\ journal \in JournalType
  BY InHand
<1>2. journal'[mem.rcpt].state = IF io = "fail" THEN journal[mem.rcpt].state ELSE state
  BY <1>1, PersistFacts
<1> QED
  BY <1>2 DEF Txn

LEMMA HoldSaves ==
  ASSUME HoldContext, NEW io \in IO,
         Check(io) \/ Written(io) \/ Complete(io) \/ RecComplete(io)
  PROVE  HoldInv'
<1>1. TypeInv /\ HandStates /\ mem \in Mem
  BY DEF HoldContext, FilesContext, OneInv, HoldInv, TypeInv, TypeOK
<1>2. pc \in Working /\ pc \in RcptControl /\ UNCHANGED seen
  BY DEF Check, Written, Complete, RecComplete, At, Working, Applying, RollbackControl,
         RcptControl, Control
<1>3. PICK state \in {"RolledBack", "FilesWritten", "Completed"} :
        /\ UNCHANGED journal \/ Persist(mem.rcpt, state, io)
        /\ ~UNCHANGED journal /\ pc' \notin {"idle", "recover", "markUndone"} => state \in Unsettled
  BY DEF Check, Written, Complete, RecComplete, Finish, Goto, Unsettled
<1>4. pc' = "idle" \/ mem'.rcpt = mem.rcpt
  BY <1>1 DEF Check, Written, Complete, RecComplete, Goto, StartRollback, Finish, Mem
<1>5. pc' \in {"idle", "cas", "rbRead", "complete", "local", "commit", "markUndone", "recover"}
  BY DEF Check, Written, Complete, RecComplete, Goto, StartRollback, Finish
<1>6. pc' \in Applying => pc \in Applying /\ UNCHANGED dbCur
  BY DEF Check, Written, Complete, RecComplete, Goto, StartRollback, Finish, At, Applying
<1>7. pc' \in Working /\ mem'.rcpt = mem.rcpt /\ pc' # "idle" => Txn'.state \in Unsettled
  <2>1. Txn.state \in Unsettled
    BY <1>1, <1>2 DEF HandStates
  <2>2. CASE UNCHANGED journal
    BY <2>1, <2>2 DEF Txn
  <2>3. CASE ~UNCHANGED journal /\ pc' \in Working /\ mem'.rcpt = mem.rcpt /\ pc' # "idle"
    <3>1. pc' \notin {"idle", "recover", "markUndone"}
      BY <2>3 DEF Working, Applying, RollbackControl
    <3>2. state \in Unsettled /\ Persist(mem.rcpt, state, io)
      BY <1>3, <2>3, <3>1
    <3> QED
      BY <1>1, <1>2, <2>1, <2>3, <3>2, SavedState DEF Unsettled, ApplyState
  <2> QED
    BY <2>2, <2>3
<1>8. ~Putting' /\ (pc' \notin {"idle", "recover"} => pc' \in RcptControl)
  BY <1>5 DEF Putting, RcptControl, Control
<1>9. state \in ApplyState
  BY DEF ApplyState
<1> QED
  BY <1>2, <1>3, <1>4, <1>6, <1>7, <1>8, <1>9, InHandKept

\* The steps that give up, and the ones that put the device setting back.
LEMMA HoldGivesUp ==
  ASSUME HoldContext, NEW io \in IO, RbSave(io) \/ Restore(io) \/ RecLocal(io) \/ Flag(io)
  PROVE  HoldInv'
<1>1. TypeInv /\ HandStates /\ mem \in Mem
  BY DEF HoldContext, FilesContext, OneInv, HoldInv, TypeInv, TypeOK
<1>2. pc \in {"rbSave", "restore", "recLocal", "flag"} /\ pc \in RcptControl /\ UNCHANGED seen
  BY DEF RbSave, Restore, RecLocal, Flag, At, RcptControl, Control
<1>3. PICK state \in {"RolledBack", "RecoveryRequired"} :
        UNCHANGED journal \/ Persist(mem.rcpt, state, io)
  BY DEF RbSave, Restore, RecLocal, Flag
<1>4. pc' = "idle" \/ mem'.rcpt = mem.rcpt
  BY <1>1 DEF RbSave, Restore, RecLocal, Flag, Goto, Finish, Mem
<1>5. pc' \in {"idle", "restore", "flag", "recLocal", "recover"}
  BY DEF RbSave, Restore, RecLocal, Flag, Goto, Finish
<1>6. pc' # "idle" => Txn'.state # "Completed"
  <2>1. Txn.state # "Completed"
    BY <1>1, <1>2 DEF HandStates, Working, RollbackControl, Unsettled, Putting
  <2>2. CASE UNCHANGED journal
    BY <1>4, <2>1, <2>2 DEF Txn
  <2>3. CASE Persist(mem.rcpt, state, io)
    BY <1>1, <1>2, <1>4, <2>1, <2>3, SavedState DEF ApplyState
  <2> QED
    BY <1>3, <2>2, <2>3
<1>7. /\ pc' \notin Applying /\ pc' \notin Working
      /\ pc' \notin {"idle", "recover"} => pc' \in RcptControl
  BY <1>5 DEF Applying, Working, RollbackControl, RcptControl, Control
<1>8. state \in ApplyState
  BY DEF ApplyState
<1> QED
  BY <1>2, <1>3, <1>4, <1>5, <1>6, <1>7, <1>8, InHandKept DEF Putting

LEMMA HoldMarkUndone ==
  ASSUME HoldContext, NEW io \in IO, MarkUndone(io)
  PROVE  HoldInv'
<1>1. TypeInv /\ HandStates /\ Originals /\ Shaped /\ NoneSeen /\ mem \in Mem
  BY DEF HoldContext, FilesContext, OneInv, HoldInv, TypeInv, TypeOK
<1>2. /\ pc = "markUndone" /\ pc \in RcptControl /\ UNCHANGED seen
      /\ Persist(Txn.undoOf, "RolledBack", io)
      /\ pc' \in {"idle", "recover"} \/ mem'.rcpt = mem.rcpt
      /\ pc' \in {"idle", "recover"}
  BY <1>1 DEF MarkUndone, At, RcptControl, Control, Goto, Finish, Mem
<1>3. mem.rcpt \in Receipt /\ journal[mem.rcpt] # None /\ journal \in JournalType
  BY <1>1, <1>2, InHand
<1>4. Txn.undoOf \in Receipt /\ journal[Txn.undoOf] # None
  BY <1>1, <1>2, <1>3 DEF TypeInv, ControlOK, UndoesAnApply, Txn, JournalType, ReceiptRec
<1>5. SameBytes
  BY <1>2, <1>3, <1>4, PersistBytes DEF ApplyState
<1>6. Originals'
  <2>1. SUFFICES ASSUME NEW r \in Receipt, journal'[r] # None, journal'[r].undoOf # None
                 PROVE  journal'[journal'[r].undoOf].state \in {"Completed", "RolledBack"}
    BY <1>2 DEF Originals, RcptControl
  <2>2. journal[r] # None /\ journal'[r].undoOf = journal[r].undoOf
    BY <1>5, <2>1 DEF SameBytes
  <2>3. PICK o \in Receipt : o = journal[r].undoOf
    BY <1>3, <2>1, <2>2 DEF JournalType, ReceiptRec
  <2>4. journal[o].state \in {"Completed", "RolledBack"}
    BY <1>1, <2>1, <2>2, <2>3 DEF Originals
  <2>5. journal'[o].state \in {"Completed", "RolledBack"}
    BY <1>2, <1>3, <1>4, <2>4, PersistFacts DEF ApplyState
  <2> QED
    BY <2>2, <2>3, <2>5
<1> QED
  BY <1>1, <1>2, <1>5, <1>6, ShapeKept, StatesFree DEF HoldInv, NoneSeen

\* Steps that leave the journal alone and have nothing in hand.
LEMMA HoldFree ==
  ASSUME HoldContext, UNCHANGED journal, NoneSeen', pc' \notin RcptControl, HandStates'
  PROVE  HoldInv'
<1>1. SameBytes /\ Shaped /\ Originals
  BY DEF SameBytes, HoldContext, HoldInv
<1>2. Originals'
  BY <1>1 DEF Originals
<1> QED
  BY <1>1, <1>2, ShapeKept DEF HoldInv

LEMMA HoldRecover ==
  ASSUME HoldContext, NoPending \/ PlainRefused \/ \E r \in Receipt : RecoverReceipt(r)
  PROVE  HoldInv'
<1>1. UNCHANGED <<journal, seen>> /\ NoneSeen'
  BY DEF NoPending, PlainRefused, RecoverReceipt, durable, HoldContext, HoldInv, NoneSeen
<1>2. CASE pc' \in {"idle", "plan"}
  BY <1>1, <1>2, StatesFree, HoldFree DEF RcptControl
<1>3. ASSUME NEW r \in Receipt, RecoverReceipt(r), pc' # "idle" PROVE HoldInv'
  <2>1. /\ r \in Pending /\ mem'.rcpt = r /\ pc' \in {"recVerify", "flag", "rbRead"}
        /\ journal[r].state # "RecoveryRequired"
    BY <1>3 DEF RecoverReceipt, Goto, Finish, NoMem
  <2>2. journal[r].state \in Unsettled
    BY <2>1 DEF Pending, PendingState, Unsettled
  <2>3. Txn'.state \in Unsettled
    BY <1>1, <2>1, <2>2 DEF Txn
  <2>4. HandStates'
    BY <2>1, <2>3 DEF HandStates, Applying, Unsettled
  <2>5. Shaped' /\ Originals
    BY <1>1, ShapeKept DEF SameBytes, HoldContext, HoldInv
  <2>6. Originals'
    BY <1>1, <2>1, <2>2, <2>5 DEF Originals, Unsettled
  <2> QED
    BY <1>1, <2>4, <2>5, <2>6 DEF HoldInv
<1> QED
  BY <1>2, <1>3 DEF NoPending, PlainRefused, Goto, Finish

\* What a plan writes down.
LEMMA ApplyShape ==
  ASSUME TypeInv, guard \in Proc, NEW dr \in DraftRec,
         job.draft \in Draft, job.rev \in Nat, job.policy \in DriftPolicy
  PROVE  LET R == ApplyRecord(guard, dr)
         IN R.ctx # None /\ Shape(R) /\ R.ctx.dbCur = dbCur /\ R.undoOf = None
<1> DEFINE R == ApplyRecord(guard, dr)
<1>1. /\ R.after = dr.input.cfg /\ R.before = live /\ R.undoOf = None
      /\ R.ctx.input = dr.input /\ R.ctx.dbCur = dbCur
      /\ R.ctx.before = Before(guard, dr.input)
      /\ R.ctx.after = After(guard, dr.input, job.policy)
  BY DEF ApplyRecord
<1>2. dr.input.conn \in Conn /\ R.ctx \in Context
  <2>1. R \in ReceiptRec /\ R.ctx # None
    BY ApplyRecordType
  <2> QED
    BY <2>1 DEF DraftRec, InputType, ReceiptRec
<1>3. R.ctx # None
  BY <1>2, NoneIsNoRecord
<1>4. R.ctx.after[R.ctx.input.conn] = R.after
  BY <1>1, <1>2 DEF After
<1>5. ASSUME NEW c \in Conn, R.ctx.after[c] # None, c # R.ctx.input.conn
      PROVE  R.ctx.before[c] # None /\ R.ctx.after[c] = R.before
  <2>1. c = Outgoing(guard) /\ Record(c) # None /\ R.ctx.after[c] = live
    BY <1>1, <1>5 DEF After
  <2>2. conns[c] # None
    BY <2>1, ConfigConstants DEF Record
  <2> QED
    BY <1>1, <2>1, <2>2 DEF Before
<1> HIDE DEF R
<1>6. Shape(R)
  BY <1>4, <1>5 DEF Shape
<1> QED
  BY <1>1, <1>3, <1>6 DEF R

LEMMA HoldPlan ==
  ASSUME HoldContext, Reuse \/ PlanApply \/ PlanUndo \/ PlanPlain
  PROVE  HoldInv'
<1>1. TypeInv /\ pc = "plan" /\ guard \in Proc /\ job \in Job /\ journal \in JournalType
  BY DEF HoldContext, FilesContext, OneInv, TypeInv, TypeOK, ControlOK, JobOK, JournalType,
         Reuse, PlanApply, PlanUndo, PlanPlain, At
<1>2. UNCHANGED <<journal, seen, dbCur>> /\ NoneSeen'
  BY DEF Reuse, PlanApply, PlanUndo, PlanPlain, durable, HoldContext, HoldInv, NoneSeen
<1>3. CASE pc' = "idle"
  BY <1>2, <1>3, StatesFree, HoldFree DEF RcptControl
<1>4. CASE pc' # "idle" /\ PlanApply
  <2>1. PICK dr \in DraftRec : dr = drafts[job.draft]
    BY <1>1, <1>4 DEF PlanApply, TypeInv, TypeOK, ControlOK, JobOK
  <2>2. pc' = "prepare" /\ mem' = [NoMem EXCEPT !.rec = ApplyRecord(guard, dr)]
    BY <1>4, <2>1 DEF PlanApply, Goto, Finish
  <2>3. mem'.rec = ApplyRecord(guard, dr)
    BY <2>2 DEF NoMem
  <2>4. job.draft \in Draft /\ job.rev \in Nat /\ job.policy \in DriftPolicy
    BY <1>1, <1>4 DEF PlanApply, TypeInv, ControlOK, JobOK, Job
  <2>5. PICK R : R = ApplyRecord(guard, dr)
    OBVIOUS
  <2>6. Shape(R) /\ R.ctx.dbCur = dbCur /\ R.undoOf = None
    BY <1>1, <2>4, <2>5, ApplyShape
  <2>7. HandStates'
    BY <1>2, <2>2, <2>3, <2>5, <2>6
       DEF HandStates, Applying, Working, RollbackControl, Putting, Shape
  <2> QED
    BY <1>2, <2>2, <2>7, HoldFree DEF RcptControl
<1>5. CASE pc' # "idle" /\ (PlanUndo \/ PlanPlain)
  <2>1. /\ pc' = "prepare" /\ mem'.rec.ctx = None
        /\ mem'.rec.undoOf # None => journal[mem'.rec.undoOf].state = "Completed"
    BY <1>5 DEF PlanUndo, PlanPlain, UndoValid, Goto, Finish, NoMem
  <2>2. HandStates'
    BY <1>2, <2>1 DEF HandStates, Applying, Working, RollbackControl, Putting, Shape
  <2> QED
    BY <1>2, <2>1, <2>2, HoldFree DEF RcptControl
<1> QED
  BY <1>3, <1>4, <1>5 DEF Reuse, Finish

LEMMA HoldPrepare ==
  ASSUME HoldContext, NEW r \in Receipt, NEW io \in IO, Prepare(r, io)
  PROVE  HoldInv'
<1>1. /\ TypeInv /\ HandStates /\ Originals /\ Shaped /\ NoneSeen
      /\ pc = "prepare" /\ journal[r] = None /\ journal \in JournalType
      /\ mem.rec \in ReceiptRec /\ mem.rec.state = "Prepared" /\ UNCHANGED <<seen, dbCur>>
      /\ job.kind \in {"apply", "undo", "plain"}
  BY HolderData
     DEF Prepare, At, Unused, HoldContext, HoldInv, FilesContext, FilesInv, HandFiles, OneInv,
         TypeInv, TypeOK, ControlOK, Mem
<1>2. NoneSeen'
  BY <1>1 DEF NoneSeen
<1>3. CASE UNCHANGED journal
  <2>1. pc' = "idle"
    BY <1>1, <1>3, NoneIsNoRecord DEF Prepare, Finish, Spend, JournalType
  <2> QED
    BY <1>2, <1>3, <2>1, StatesFree, HoldFree DEF RcptControl
<1>4. CASE ~UNCHANGED journal
  <2>1. /\ journal' = [journal EXCEPT ![r] = mem.rec]
        /\ pc' = "idle" \/ (pc' = "check" /\ mem'.rcpt = r)
    BY <1>4 DEF Prepare, Finish, Goto, NoMem
  <2>2. /\ journal'[r] = mem.rec /\ \A x \in Receipt : x # r => journal'[x] = journal[x]
    BY <1>1, <2>1 DEF JournalType
  <2>3. mem.rec.undoOf # None => /\ mem.rec.undoOf \in Receipt /\ mem.rec.undoOf # r
                                 /\ journal[mem.rec.undoOf].state = "Completed"
    <3>1. mem.rec.undoOf # None => mem.rec.undoOf = job.target /\ job.kind = "undo"
      BY <1>1 DEF TypeInv, ControlOK
    <3> QED
      BY <1>1, <3>1 DEF TypeInv, ControlOK, JobOK, HandStates
  <2>4. Shaped'
    <3> SUFFICES ASSUME NEW x \in Receipt, journal'[x] # None PROVE Shape(journal'[x])
      BY DEF Shaped, Shape
    <3> QED
      BY <1>1, <2>2 DEF HandStates, Shaped
  <2>5. Originals'
    <3>1. SUFFICES ASSUME NEW x \in Receipt, journal'[x] # None, journal'[x].undoOf # None
                   PROVE  /\ journal'[journal'[x].undoOf].state \in {"Completed", "RolledBack"}
                          /\ journal'[x].undoOf # r
      BY <2>1 DEF Originals, RcptControl
    <3>2. CASE x = r
      BY <2>2, <2>3, <3>1, <3>2
    <3>3. CASE x # r
      <4>1. /\ journal'[x] = journal[x] /\ journal[x].undoOf \in Receipt
            /\ journal[journal[x].undoOf].state \in {"Completed", "RolledBack"}
            /\ journal[journal[x].undoOf] # None
        BY <1>1, <2>2, <3>1, <3>3 DEF Originals, JournalType, ReceiptRec, TypeInv, UndoesAnApply
      <4> QED
        BY <1>1, <2>2, <4>1
    <3> QED
      BY <3>2, <3>3
  <2>6. HandStates'
    <3>1. CASE pc' = "idle"
      BY <3>1, StatesFree
    <3>2. CASE pc' = "check" /\ mem'.rcpt = r
      <4>1. Txn' = mem.rec
        BY <2>2, <3>2 DEF Txn
      <4>2. Txn'.state \in Unsettled /\ (Txn'.ctx # None => Txn'.ctx.dbCur = dbCur')
        BY <1>1, <4>1 DEF HandStates, Unsettled
      <4> QED
        BY <3>2, <4>2 DEF HandStates, Putting
    <3> QED
      BY <2>1, <3>1, <3>2
  <2> QED
    BY <1>2, <2>4, <2>5, <2>6 DEF HoldInv
<1> QED
  BY <1>3, <1>4

LEMMA HoldOthers ==
  ASSUME HoldContext, StartJob \/ Environment
  PROVE  HoldInv'
<1>1. TypeInv /\ NoneSeen /\ Viewer = {} /\ HandStates /\ Shaped /\ Originals
  BY DEF HoldContext, FilesContext, OneInv, HoldInv
<1>2. \A p \in Proc : ~DeleteRow(p) /\ ~ViewObserve(p) /\ (\A c \in Conn : ~DeleteCheck(p, c))
                      /\ \A io \in IO : ~ViewClear(p, io)
  BY <1>1 DEF DeleteRow, ViewObserve, DeleteCheck, ViewClear, Think, NoneSeen
<1>3. CASE StartJob \/ Crash
  <2>1. UNCHANGED journal /\ NoneSeen' /\ pc' \in {"idle", "recover"}
    BY <1>1, <1>3 DEF StartJob, BeginApply, BeginUndo, BeginRecover, BeginPlain, Begin, Crash,
                      Finish, durable, NoneSeen, TypeInv, TypeOK
  <2> QED
    BY <2>1, StatesFree, HoldFree DEF RcptControl
<1>4. CASE Environment /\ ~Crash
  <2>1. UNCHANGED <<journal, pc, mem, dbCur>>
    BY <1>2, <1>4 DEF Environment, CreateDraft, UpdateDraft, DeleteDraft, ExternalWrite,
                      EditConnection, Restart, durable
  <2>2. NoneSeen'
    BY <1>1, <1>2, <1>4 DEF Environment, CreateDraft, UpdateDraft, DeleteDraft, ExternalWrite,
                      EditConnection, Restart, NoneSeen, TypeInv, TypeOK
  <2> QED
    BY <1>1, <2>1, <2>2 DEF HoldInv, Shaped, Shape, Originals, HandStates, Txn, Putting
<1> QED
  BY <1>3, <1>4

LEMMA HoldNext == HoldContext /\ [Next]_vars => HoldInv'
<1> SUFFICES ASSUME HoldContext, [Next]_vars PROVE HoldInv'
  OBVIOUS
<1>1. CASE UNCHANGED vars
  BY <1>1 DEF vars, HoldContext, HoldInv, NoneSeen, Shaped, Shape, Originals, HandStates, Txn,
              Putting
<1>2. CASE StartJob \/ Environment
  BY <1>2, HoldOthers
<1>3. CASE Recover
  BY <1>3, HoldRecover, HoldWorks, HoldSaves, HoldGivesUp DEF Recover, IO
<1>4. CASE Transact
  BY <1>4, HoldWorks, HoldSaves, HoldMarkUndone, HoldPrepare DEF Transact, IO
<1>5. CASE Rollback
  BY <1>5, HoldWorks, HoldGivesUp DEF Rollback
<1>6. CASE Work
  BY <1>6, HoldPlan, HoldWorks DEF Work
<1> QED
  BY <1>1, <1>2, <1>3, <1>4, <1>5, <1>6 DEF Next, JobStep

LEMMA HoldInit == Init => HoldInv
BY DEF Init, HoldInv, NoneSeen, Shaped, Originals, HandStates, Applying, Working,
       RollbackControl, Putting

-----------------------------------------------------------------------------
(* The refinement of AtomicConfig *)

Flagged == \E r \in Pending : journal[r].state = "RecoveryRequired"

\* What every step of the mapping starts from.
MapContext == HoldContext /\ WindowInv /\ ~InWindow

\* The files l for whom R is being applied.
Undone(l, R) == [f \in File |-> IF l[f] = R.after[f] THEN R.before[f] ELSE l[f]]

LEMMA OneOpen ==
  ASSUME NEW r
  PROVE  /\ Open = {r} => EffectiveFiles = Undone(live, journal[r])
         /\ Open' = {r} => EffectiveFiles' = Undone(live', journal'[r])
<1>1. ASSUME NEW l, NEW j
      PROVE  [f \in File |-> IF \E q \in {r} : l[f] = j[q].after[f]
                             THEN LET q == CHOOSE q \in {r} : l[f] = j[q].after[f]
                                  IN j[q].before[f]
                             ELSE l[f]]
               = Undone(l, j[r])
  <2>1. ASSUME NEW f \in File, l[f] = j[r].after[f]
        PROVE  (CHOOSE q \in {r} : l[f] = j[q].after[f]) = r
    BY <2>1
  <2> QED
    BY <2>1 DEF Undone
<1>2. CASE Open = {r}
  BY <1>1, <1>2 DEF EffectiveFiles
<1>3. CASE Open' = {r}
  BY <1>1, <1>3 DEF EffectiveFiles
<1> QED
  BY <1>2, <1>3

LEMMA OpenIs ==
  ASSUME OneInv, NEW r \in Open
  PROVE  /\ Open = {r} /\ Pending = {r} /\ r \in Receipt /\ ~Flagged
         /\ EffectiveFiles = Undone(live, journal[r])
<1>1. r \in Pending /\ r \in Receipt /\ AtMostOnePending /\ Open \subseteq Pending
  BY DEF Open, Pending, OneInv, PendingInv
<1>2. Pending = {r} /\ Open = {r}
  BY <1>1 DEF AtMostOnePending
<1>3. ~Flagged
  BY <1>2 DEF Flagged, Open
<1> QED
  BY <1>1, <1>2, <1>3, OneOpen

LEMMA NothingOpen ==
  /\ live \in Cfg /\ Open = {} => EffectiveFiles = live
  /\ live' \in Cfg /\ Open' = {} => EffectiveFiles' = live'
BY DEF EffectiveFiles, Cfg

\* An open receipt: every file is as it found it or gives it, or foreign.
LEMMA OpenFiles ==
  ASSUME FilesContext, NEW r \in Open
  PROVE  /\ r \in Receipt /\ journal[r] \in ReceiptRec /\ journal[r] # None
         /\ Untaken(r) /\ journal[r].before \in Cfg /\ journal[r].after \in Cfg
<1>1. r \in Pending /\ r \in Receipt /\ journal[r] # None /\ ~Committed(r)
  BY DEF Open, Pending
<1>2. journal[r] \in ReceiptRec
  BY <1>1 DEF FilesContext, OneInv, TypeInv, TypeOK
<1> QED
  BY <1>1, <1>2 DEF FilesContext, FilesInv, PendingFiles, ReceiptRec

LEMMA EffectiveType ==
  ASSUME FilesContext
  PROVE  EffectiveFiles \in Cfg
<1>1. live \in Cfg
  BY DEF FilesContext, OneInv, TypeInv, TypeOK
<1>2. ASSUME NEW r \in Open PROVE EffectiveFiles \in Cfg
  <2>1. journal[r].before \in [File -> Bytes] /\ live \in [File -> Bytes]
    BY <1>1, OpenFiles DEF Cfg
  <2>2. \A f \in File : EffectiveFiles[f] \in Bytes
    BY <2>1, OpenIs DEF FilesContext, Undone
  <2>3. EffectiveFiles = [f \in File |-> EffectiveFiles[f]]
    BY DEF EffectiveFiles
  <2> QED
    BY <2>2, <2>3 DEF Cfg
<1> QED
  BY <1>1, <1>2, NothingOpen

\* A step the abstract specification does not see.
Hidden == UNCHANGED <<EffectiveFiles, conns, dbCur, head, SavedByApply>> /\ (Flagged' <=> Flagged)

LEMMA HiddenStutters == Hidden => [Atomic!Next]_(Atomic!vars)
BY DEF Hidden, Flagged, Atomic!vars

LEMMA QuietHidden ==
  ASSUME UNCHANGED <<live, journal, conns, dbCur, head>>
  PROVE  Hidden
<1>1. Pending' = Pending /\ Open' = Open
  BY DEF Pending, Open, Committed
<1>2. EffectiveFiles' = EffectiveFiles
  BY <1>1 DEF EffectiveFiles
<1>3. SavedByApply' = SavedByApply
  BY DEF SavedByApply
<1> QED
  BY <1>1, <1>2, <1>3 DEF Hidden, Flagged

\* Where the receipt in hand is open.
LEMMA HandOpen ==
  ASSUME HoldContext, pc \in Applying \cup RollbackControl
  PROVE  mem.rcpt \in Open /\ pc \in NotCommitted /\ pc \in RcptControl
<1>1. pc \in NotCommitted /\ pc \in RcptControl /\ pc \in Working
  BY DEF NotCommitted, Applying, RollbackControl, RcptControl, Control, Working
<1>2. PICK r \in Receipt : r = mem.rcpt /\ journal[r] # None /\ Untaken(r)
  BY <1>1, InHandFiles DEF HoldContext
<1>3. journal[r].state \in Unsettled
  BY <1>1, <1>2 DEF HoldContext, HoldInv, HandStates, Txn
<1> QED
  BY <1>1, <1>2, <1>3 DEF Open, Pending, PendingState, Unsettled, Untaken

\* What an application found is known while it is in force, whatever becomes of others.
LEMMA SavedKept ==
  ASSUME journal \in JournalType, NEW r \in Receipt, journal[r] # None,
         NEW state \in ApplyState, NEW io \in IO, Persist(r, state, io), UNCHANGED head,
         \/ journal[r].ctx = None
         \/ head = r
         \/ journal[r].state # "Completed" /\ state # "Completed"
  PROVE  SavedByApply' = SavedByApply
<1>1. \A x \in Receipt : x # r => journal'[x] = journal[x]
  BY PersistFacts
<1>2. /\ journal'[r] # None /\ journal'[r].ctx = journal[r].ctx
      /\ journal'[r].before = journal[r].before
      /\ journal'[r].state \in {journal[r].state, state}
  BY PersistFacts
<1>3. \A x \in Receipt : SavedByApply'[x] = SavedByApply[x]
  BY <1>1, <1>2 DEF SavedByApply
<1>4. SavedByApply = [x \in Receipt |-> SavedByApply[x]]
      /\ SavedByApply' = [x \in Receipt |-> SavedByApply'[x]]
  BY DEF SavedByApply
<1> HIDE DEF SavedByApply
<1> QED
  BY <1>3, <1>4

\* A receipt is saved in a state in which it is no longer open.
LEMMA OpenDropped ==
  ASSUME OneInv, NEW r \in Open, NEW state \in ApplyState \ Unsettled, NEW io \in IO,
         Persist(r, state, io), UNCHANGED head, ~UNCHANGED journal
  PROVE  Open' = {} /\ Pending' \subseteq {r} /\ journal'[r].state = state /\ r \in Receipt
<1>1. r \in Receipt /\ journal[r] # None /\ journal \in JournalType /\ Pending = {r}
  BY OpenIs, HolderData DEF Open, Pending, OneInv
<1>2. journal'[r].state = state
  BY <1>1, PersistFacts DEF Persist
<1>3. Pending' \subseteq {r}
  BY <1>1, PendingPersist
<1>4. r \notin Open'
  BY <1>2 DEF Open, Pending, PendingState, Unsettled
<1> QED
  BY <1>1, <1>2, <1>3, <1>4 DEF Open

LEMMA MapWritten ==
  ASSUME MapContext, NEW io \in IO, Written(io)
  PROVE  Hidden
<1>1. HoldContext /\ OneInv /\ journal \in JournalType
  BY HolderData DEF MapContext, HoldContext, FilesContext, OneInv
<1>2. /\ pc \in Applying /\ UNCHANGED <<live, conns, dbCur, head>>
      /\ Persist(mem.rcpt, "FilesWritten", io)
  BY DEF Written, At, Applying
<1>3. PICK r \in Receipt : r = mem.rcpt /\ r \in Open /\ Pending = {r} /\ Open = {r} /\ ~Flagged
  BY <1>1, <1>2, HandOpen, OpenIs
<1>4. journal[r] # None /\ journal[r].state # "Completed"
  BY <1>3 DEF Open, Pending, PendingState
<1>5. SameBytes /\ SavedByApply' = SavedByApply
  BY <1>1, <1>2, <1>3, <1>4, PersistBytes, SavedKept DEF ApplyState
<1>6. journal'[r] # None /\ journal'[r].state \in Unsettled
  BY <1>1, <1>2, <1>3, <1>4, PersistFacts DEF ApplyState, Unsettled, Open, Pending, PendingState
<1>7. Pending' = {r}
  <2>1. Pending' \subseteq {r}
    BY <1>1, <1>2, <1>3, <1>4, PendingPersist DEF ApplyState
  <2> QED
    BY <2>1, <1>6 DEF Pending, Unsettled, PendingState
<1>8. Open' = {r} /\ ~Flagged'
  <2>1. ~Committed(r)'
    BY <1>2, <1>3, <1>4, <1>5, CommittedKept DEF Open
  <2> QED
    BY <1>6, <1>7, <2>1 DEF Open, Flagged, Unsettled
<1>9. EffectiveFiles' = EffectiveFiles
  <2>1. Undone(live', journal'[r]) = Undone(live, journal[r])
    BY <1>2, <1>4, <1>5 DEF Undone, SameBytes
  <2> QED
    BY <1>3, <1>8, <2>1, OneOpen
<1> QED
  BY <1>2, <1>3, <1>5, <1>8, <1>9 DEF Hidden

LEMMA MapComplete ==
  ASSUME MapContext, NEW io \in IO, Complete(io) \/ RecComplete(io)
  PROVE  Hidden
<1>1. HoldContext /\ OneInv /\ journal \in JournalType /\ live \in Cfg
  BY HolderData DEF MapContext, HoldContext, FilesContext, OneInv, TypeInv, TypeOK
<1>2. /\ pc \in {"complete", "recComplete"} /\ UNCHANGED <<live, conns, dbCur, head>>
      /\ Persist(mem.rcpt, "Completed", io) /\ pc \in RcptControl
  BY DEF Complete, RecComplete, At, RcptControl, Control
<1>3. PICK r \in Receipt : r = mem.rcpt /\ journal[r] # None
  BY <1>1, <1>2, InHand DEF OneInv
<1>4. Committed(r) /\ journal[r].state \in Unsettled
  BY <1>1, <1>2, <1>3
     DEF HoldContext, FilesContext, FilesInv, HandFiles, DoneControl, HoldInv, HandStates,
         Working, Txn, Committed
<1>5. journal[r].ctx = None \/ head = r
  BY <1>1, <1>3, <1>4 DEF Committed, OneInv, TypeInv, UndoesAnApply
<1>6. SameBytes /\ SavedByApply' = SavedByApply
  BY <1>1, <1>2, <1>3, <1>5, PersistBytes, SavedKept DEF ApplyState
<1>7. Pending \subseteq {r} /\ Pending' \subseteq {r}
  <2>1. Pending \subseteq {r}
    BY <1>1, <1>2, <1>3 DEF OneInv, PendingInv
  <2> QED
    BY <1>1, <1>2, <1>3, <2>1, PendingPersist DEF ApplyState
<1>8. Committed(r)' /\ journal'[r].state # "RecoveryRequired"
  BY <1>1, <1>2, <1>3, <1>4, <1>6, CommittedKept, PersistFacts DEF ApplyState, Unsettled
<1>9. Open = {} /\ Open' = {} /\ ~Flagged /\ ~Flagged'
  BY <1>4, <1>7, <1>8 DEF Open, Flagged, Unsettled
<1> QED
  BY <1>1, <1>2, <1>6, <1>9, NothingOpen DEF Hidden

\* A step of AtomicConfig, or none.
Mapped == [Atomic!Next]_(Atomic!vars)

LEMMA HiddenMapped == Hidden => Mapped
BY HiddenStutters DEF Mapped

LEMMA ExternalMapped ==
  ASSUME EffectiveFiles' \in Cfg, UNCHANGED <<conns, dbCur, head, SavedByApply>>,
         Flagged' <=> Flagged,
         \A f \in File : EffectiveFiles'[f] = EffectiveFiles[f] \/ EffectiveFiles'[f] \in ExtBytes
  PROVE  Mapped
<1>1. Atomic!External
  BY DEF Atomic!External, Atomic!Cfg, Cfg, Flagged
<1> QED
  BY <1>1 DEF Mapped, Atomic!Next

LEMMA FlagMapped ==
  ASSUME EffectiveFiles' \in Cfg, UNCHANGED <<conns, dbCur, head, SavedByApply>>,
         ~Flagged, Flagged'
  PROVE  Mapped
<1>1. Atomic!Flag
  BY DEF Atomic!Flag, Atomic!Cfg, Cfg, Flagged
<1> QED
  BY <1>1 DEF Mapped, Atomic!Next

LEMMA ForgetMapped ==
  ASSUME NEW r \in Receipt, r # head, SavedByApply' = [SavedByApply EXCEPT ![r] = None],
         UNCHANGED <<EffectiveFiles, conns, dbCur, head>>, Flagged' <=> Flagged
  PROVE  Mapped
<1>1. Atomic!Forget(r)
  BY DEF Atomic!Forget, Flagged
<1> QED
  BY <1>1 DEF Mapped, Atomic!Next

LEMMA EditMapped ==
  ASSUME NEW c \in Conn, conns[c] # None, NEW cfg \in Cfg, conns' = [conns EXCEPT ![c] = cfg],
         UNCHANGED <<EffectiveFiles, dbCur, head, SavedByApply>>, Flagged' <=> Flagged
  PROVE  Mapped
<1>1. Atomic!Edit(c)
  BY DEF Atomic!Edit, Atomic!Cfg, Cfg, Flagged
<1> QED
  BY <1>1 DEF Mapped, Atomic!Next

LEMMA MapMarkUndone ==
  ASSUME MapContext, NEW io \in IO, MarkUndone(io)
  PROVE  Mapped
<1>1. HoldContext /\ OneInv /\ TypeInv /\ journal \in JournalType /\ live \in Cfg
  BY HolderData DEF MapContext, HoldContext, FilesContext, OneInv, TypeInv, TypeOK
<1>2. /\ pc = "markUndone" /\ pc \in RcptControl /\ UNCHANGED <<live, conns, dbCur, head>>
      /\ Persist(Txn.undoOf, "RolledBack", io)
  BY DEF MarkUndone, At, RcptControl, Control
<1>3. PICK u \in Receipt : u = mem.rcpt /\ journal[u] # None
  BY <1>1, <1>2, InHand
<1>4. journal[u].undoOf # None /\ journal[u] \in ReceiptRec
  BY <1>1, <1>2, <1>3 DEF TypeInv, ControlOK, Txn, JournalType
<1>5. PICK o \in Receipt : /\ o = journal[u].undoOf /\ o = Txn.undoOf /\ o # u /\ journal[o] # None
                           /\ journal[o].state \in {"Completed", "RolledBack"}
  BY <1>1, <1>2, <1>3, <1>4
     DEF HoldContext, HoldInv, Originals, Txn, ReceiptRec, TypeInv, UndoesAnApply
<1>6. Committed(u) /\ head # o
  BY <1>1, <1>2, <1>3, <1>4, <1>5
     DEF HoldContext, FilesContext, FilesInv, HandFiles, DoneControl, Committed
<1>7. CASE UNCHANGED journal
  BY <1>2, <1>7, QuietHidden, HiddenMapped
<1>8. CASE ~UNCHANGED journal
  <2>1. /\ \A x \in Receipt : x # o => journal'[x] = journal[x]
        /\ journal'[o] # None /\ journal'[o].state = "RolledBack"
        /\ SameBytes
    <3>1. Persist(o, "RolledBack", io) /\ io # "fail"
      BY <1>2, <1>5, <1>8 DEF Persist
    <3> QED
      BY <1>1, <1>5, <3>1, PersistFacts, PersistBytes DEF ApplyState
  <2>2. Pending' = Pending /\ Pending \subseteq {u}
    BY <1>1, <1>2, <1>3, <1>5, <2>1 DEF OneInv, PendingInv, Pending, PendingState
  <2>3. Committed(u)'
    BY <1>2, <1>3, <1>6, <2>1, CommittedKept
  <2>4. UNCHANGED EffectiveFiles
    BY <1>1, <1>2, <1>6, <2>2, <2>3, NothingOpen DEF Open
  <2>5. Flagged' <=> Flagged
    BY <1>5, <2>1, <2>2 DEF Flagged
  <2>6. SavedByApply' = [SavedByApply EXCEPT ![o] = None]
    <3>1. \A x \in Receipt : x # o => SavedByApply'[x] = SavedByApply[x]
      BY <1>2, <2>1 DEF SavedByApply
    <3>2. SavedByApply'[o] = None
      BY <1>2, <1>6, <2>1 DEF SavedByApply
    <3>3. SavedByApply' = [x \in Receipt |-> SavedByApply'[x]]
          /\ [SavedByApply EXCEPT ![o] = None]
               = [x \in Receipt |-> IF x = o THEN None ELSE SavedByApply[x]]
      BY DEF SavedByApply
    <3> HIDE DEF SavedByApply
    <3> QED
      BY <3>1, <3>2, <3>3
  <2> QED
    BY <1>2, <1>6, <2>4, <2>5, <2>6, ForgetMapped
<1> QED
  BY <1>7, <1>8

\* The receipt in hand is given up, all its files being as it found them.
LEMMA MapDrop ==
  ASSUME MapContext, NEW io \in IO, NEW r \in Open, Persist(r, "RolledBack", io),
         UNCHANGED <<live, conns, dbCur, head>>, AllSame(journal[r].before)
  PROVE  Mapped
<1>1. HoldContext /\ FilesContext /\ OneInv /\ journal \in JournalType /\ live \in Cfg
  BY HolderData DEF MapContext, HoldContext, FilesContext, OneInv, TypeInv, TypeOK
<1>2. CASE UNCHANGED journal
  BY <1>2, QuietHidden, HiddenMapped
<1>3. CASE ~UNCHANGED journal
  <2>1. r \in Receipt /\ journal[r] # None /\ journal[r].state # "Completed"
        /\ ~Flagged /\ EffectiveFiles = Undone(live, journal[r])
    BY <1>1, OpenIs DEF Open, Pending, PendingState
  <2>2. Open' = {} /\ Pending' \subseteq {r} /\ journal'[r].state = "RolledBack"
    BY <1>1, <1>3, OpenDropped DEF ApplyState, Unsettled
  <2>3. ~Flagged'
    BY <2>2 DEF Flagged
  <2>4. EffectiveFiles' = live
    BY <1>1, <2>2, NothingOpen
  <2>5. SavedByApply' = SavedByApply
    BY <1>1, <2>1, SavedKept DEF ApplyState
  <2>6. \A f \in File : live[f] = Undone(live, journal[r])[f] \/ live[f] \in ExtBytes
    BY DEF AllSame, Same, Undone
  <2> QED
    BY <1>1, <2>1, <2>3, <2>4, <2>5, <2>6, ExternalMapped
<1> QED
  BY <1>2, <1>3

\* The receipt in hand is left to a person.
LEMMA MapFlagged ==
  ASSUME MapContext, NEW io \in IO, Persist(mem.rcpt, "RecoveryRequired", io),
         pc \in NotCommitted, Txn.state # "Completed", UNCHANGED <<live, conns, dbCur, head>>
  PROVE  Mapped
<1>1. HoldContext /\ FilesContext /\ OneInv /\ journal \in JournalType /\ live \in Cfg
      /\ pc \notin {"idle", "recover"}
  BY HolderData DEF MapContext, HoldContext, FilesContext, OneInv, TypeInv, TypeOK,
                    NotCommitted
<1>2. PICK r \in Receipt : r = mem.rcpt /\ journal[r] # None /\ Untaken(r)
  BY <1>1, InHandFiles
<1>3. Pending \subseteq {r} /\ journal[r].state # "Completed"
  BY <1>1, <1>2 DEF OneInv, PendingInv, Txn
<1>4. CASE UNCHANGED journal
  BY <1>4, QuietHidden, HiddenMapped
<1>5. CASE ~UNCHANGED journal
  <2>1. journal'[r] # None /\ journal'[r].state = "RecoveryRequired"
    <3>1. Persist(r, "RecoveryRequired", io) /\ io # "fail"
      BY <1>2, <1>5 DEF Persist
    <3> QED
      BY <1>1, <1>2, <3>1, PersistFacts DEF ApplyState
  <2>2. Pending' = {r}
    <3>1. Pending' \subseteq {r}
      BY <1>1, <1>2, <1>3, PendingPersist DEF ApplyState
    <3> QED
      BY <2>1, <3>1 DEF Pending, PendingState
  <2>3. Flagged' /\ Open' = {}
    BY <2>1, <2>2 DEF Flagged, Open
  <2>4. EffectiveFiles' = live
    BY <1>1, <2>3, NothingOpen
  <2>5. SavedByApply' = SavedByApply
    BY <1>1, <1>2, <1>3, SavedKept DEF ApplyState
  <2>6. CASE Flagged
    <3>1. Open = {}
      BY <1>3, <2>6 DEF Flagged, Open
    <3> QED
      BY <1>1, <2>3, <2>4, <2>5, <2>6, <3>1, NothingOpen, HiddenMapped DEF Hidden
  <2>7. CASE ~Flagged
    BY <1>1, <2>3, <2>4, <2>5, <2>7, FlagMapped
  <2> QED
    BY <2>6, <2>7
<1> QED
  BY <1>4, <1>5

\* The steps that drop or flag the receipt in hand, and those before them.
LEMMA MapGivesUp ==
  ASSUME MapContext, NEW io \in IO, Check(io) \/ RbSave(io) \/ Flag(io)
  PROVE  Mapped
<1>1. HoldContext /\ FilesContext /\ HandFiles /\ HandStates
  BY DEF MapContext, HoldContext, FilesContext, FilesInv, HoldInv
<1>2. UNCHANGED <<live, conns, dbCur, head>> /\ pc \in NotCommitted
  BY DEF Check, RbSave, Flag, At, NotCommitted
<1>3. CASE Check(io)
  <2>1. mem.rcpt \in Open /\ AllSame(Txn.before)
    BY <1>1, <1>3, HandOpen DEF Check, At, Applying, HandFiles
  <2>2. PICK r \in Open : r = mem.rcpt
    BY <2>1
  <2>3. UNCHANGED journal \/ Persist(r, "RolledBack", io)
    BY <1>3, <2>2 DEF Check
  <2>4. AllSame(journal[r].before)
    BY <2>1, <2>2 DEF Txn
  <2> QED
    BY <1>2, <2>3, <2>4, MapDrop, QuietHidden, HiddenMapped
<1>4. CASE RbSave(io) /\ ~mem.bad
  <2>1. mem.rcpt \in Open /\ AllSame(Txn.before) /\ Persist(mem.rcpt, "RolledBack", io)
    BY <1>1, <1>4, HandOpen DEF RbSave, At, RollbackControl, HandFiles
  <2>2. PICK r \in Open : r = mem.rcpt
    BY <2>1
  <2>3. Persist(r, "RolledBack", io) /\ AllSame(journal[r].before)
    BY <2>1, <2>2 DEF Txn
  <2> QED
    BY <1>2, <2>3, MapDrop
<1>5. CASE (RbSave(io) /\ mem.bad) \/ Flag(io)
  <2>1. Persist(mem.rcpt, "RecoveryRequired", io)
    BY <1>5 DEF RbSave, Flag
  <2>2. Txn.state # "Completed"
    BY <1>1, <1>5
       DEF RbSave, Flag, At, HandStates, Working, RollbackControl, Unsettled, Putting
  <2> QED
    BY <1>2, <2>1, <2>2, MapFlagged
<1> QED
  BY <1>3, <1>4, <1>5

\* A file of the open receipt is written, or put back: it still counts as what it was.
LEMMA MapWrites ==
  ASSUME MapContext, NEW io \in IO, Write(io) \/ RbWrite(io)
  PROVE  Mapped
<1>1. /\ HoldContext /\ FilesContext /\ OneInv /\ TypeInv /\ WindowInv
      /\ live \in [File -> Bytes]
  BY DEF MapContext, HoldContext, FilesContext, OneInv, TypeInv, TypeOK, Cfg
<1>2. /\ UNCHANGED <<journal, conns, dbCur, head>> /\ pc \in {"write", "rbWrite"}
      /\ pc \in Applying \cup RollbackControl
  BY DEF Write, RbWrite, At, Applying, RollbackControl
<1>3. mem.idx \in File
  BY <1>1, <1>2 DEF TypeInv, ControlOK
<1>4. PICK r \in Open : r = mem.rcpt /\ Open = {r} /\ EffectiveFiles = Undone(live, journal[r])
  BY <1>1, <1>2, HandOpen, OpenIs
<1>5. Pending' = Pending /\ Open' = {r} /\ Flagged' = Flagged /\ SavedByApply' = SavedByApply
  BY <1>2, <1>4 DEF Pending, Open, Committed, Flagged, SavedByApply
<1>6. EffectiveFiles' = Undone(live', journal[r])
  BY <1>2, <1>5, OneOpen
<1>7. \A f \in File : Undone(live', journal[r])[f] = Undone(live, journal[r])[f]
  <2>1. CASE Write(io)
    <3>1. live[mem.idx] = journal[r].before[mem.idx]
      BY <1>1, <1>4, <2>1 DEF Write, At, WindowInv, Txn
    <3>2. UNCHANGED live \/ live' = [live EXCEPT ![mem.idx] = journal[r].after[mem.idx]]
      BY <1>4, <2>1 DEF Write, WriteFile, Txn
    <3> QED
      BY <1>1, <1>3, <3>1, <3>2 DEF Undone
  <2>2. CASE RbWrite(io)
    <3>1. live[mem.idx] \in {journal[r].before[mem.idx], journal[r].after[mem.idx]}
      BY <1>1, <1>4, <2>2 DEF RbWrite, At, WindowInv, Foreign, Txn
    <3>2. UNCHANGED live \/ live' = [live EXCEPT ![mem.idx] = journal[r].before[mem.idx]]
      BY <1>4, <2>2 DEF RbWrite, WriteFile, Txn
    <3> QED
      BY <1>1, <1>3, <3>1, <3>2 DEF Undone
  <2> QED
    BY <2>1, <2>2
<1>8. EffectiveFiles' = EffectiveFiles
  <2>1. \A l : Undone(l, journal[r]) = [f \in File |-> Undone(l, journal[r])[f]]
    BY DEF Undone
  <2>2. Undone(live', journal[r]) = Undone(live, journal[r])
    BY <1>7, <2>1
  <2> QED
    BY <1>4, <1>6, <2>2
<1> QED
  BY <1>2, <1>5, <1>8, HiddenMapped DEF Hidden

\* No other program writes, over bytes that the open receipt did not find, exactly those
\* it gives: nobody could tell such a write from the receipt's own.
NoCoincidence ==
  \A r \in Open, f \in File :
    edits' # edits /\ live'[f] # live[f] /\ live'[f] = journal[r].after[f]
      => live[f] = journal[r].before[f]

LEMMA MapExternal ==
  ASSUME MapContext, NoCoincidence, NEW g \in File, NEW b \in ExtBytes, ExternalWrite(g, b)
  PROVE  Mapped
<1>1. /\ HoldContext /\ FilesContext /\ OneInv /\ live \in [File -> Bytes] /\ live \in Cfg
      /\ edits \in Nat
  BY ConfigConstants DEF MapContext, HoldContext, FilesContext, OneInv, TypeInv, TypeOK, Cfg
<1>2. /\ UNCHANGED <<journal, conns, dbCur, head>> /\ edits' # edits
      /\ live' = [live EXCEPT ![g] = b] /\ live[g] # b
  BY <1>1 DEF ExternalWrite
<1>3. live' \in Cfg /\ live'[g] = b /\ \A f \in File : f # g => live'[f] = live[f]
  BY <1>1, <1>2, ConfigConstants DEF Cfg
<1>4. Pending' = Pending /\ Open' = Open /\ (Flagged' <=> Flagged) /\ SavedByApply' = SavedByApply
  BY <1>2 DEF Pending, Open, Committed, Flagged, SavedByApply
<1>5. CASE Open = {}
  <2>1. EffectiveFiles = live /\ EffectiveFiles' = live'
    BY <1>1, <1>3, <1>4, <1>5, NothingOpen
  <2> QED
    BY <1>2, <1>3, <1>4, <2>1, ExternalMapped
<1>6. ASSUME NEW r \in Open PROVE Mapped
  <2>1. EffectiveFiles = Undone(live, journal[r]) /\ EffectiveFiles' = Undone(live', journal[r])
    BY <1>1, <1>2, <1>4, OpenIs, OneOpen
  <2>2. journal[r].before \in [File -> Bytes]
    BY <1>1, OpenFiles DEF Cfg
  <2>3. Undone(live', journal[r]) \in Cfg
    BY <1>3, <2>2 DEF Undone, Cfg
  <2>4. \A f \in File : \/ Undone(live', journal[r])[f] = Undone(live, journal[r])[f]
                        \/ Undone(live', journal[r])[f] \in ExtBytes
    BY <1>2, <1>3 DEF NoCoincidence, Undone
  <2> QED
    BY <1>2, <1>4, <2>1, <2>3, <2>4, ExternalMapped
<1> QED
  BY <1>5, <1>6

LEMMA MapEdit ==
  ASSUME MapContext, NEW p \in Proc, NEW c \in Conn, NEW i \in Input,
         EditConnection(p, c, i.cfg)
  PROVE  Mapped
<1>1. i.cfg \in Cfg
  BY ConfigConstants DEF InputType
<1>2. /\ conns[c] # None /\ conns' = [conns EXCEPT ![c] = i.cfg]
      /\ UNCHANGED <<live, journal, dbCur, head>>
  BY DEF EditConnection
<1>3. Pending' = Pending /\ Open' = Open
  BY <1>2 DEF Pending, Open, Committed
<1>4. EffectiveFiles' = EffectiveFiles /\ SavedByApply' = SavedByApply /\ (Flagged' <=> Flagged)
  BY <1>2, <1>3 DEF EffectiveFiles, SavedByApply, Flagged
<1> QED
  BY <1>1, <1>2, <1>4, EditMapped

\* A receipt is prepared: the files are as it found them.
LEMMA MapPrepare ==
  ASSUME MapContext, NEW r \in Receipt, NEW io \in IO, Prepare(r, io)
  PROVE  Mapped
<1>1. /\ HoldContext /\ FilesContext /\ OneInv /\ TypeInv /\ pc = "prepare"
      /\ journal[r] = None /\ journal \in JournalType /\ live \in Cfg
      /\ UNCHANGED <<live, conns, dbCur, head>> /\ mem.rcpt = None /\ mem.rec \in ReceiptRec
      /\ mem.rec.state = "Prepared" /\ job.kind \in {"apply", "undo", "plain"}
  BY HolderData
     DEF Prepare, At, Unused, MapContext, HoldContext, FilesContext, FilesInv, HandFiles,
         OneInv, TypeInv, TypeOK, ControlOK, Mem
<1>2. CASE UNCHANGED journal
  BY <1>1, <1>2, QuietHidden, HiddenMapped
<1>3. CASE ~UNCHANGED journal
  <2>1. live = mem.rec.before /\ journal' = [journal EXCEPT ![r] = mem.rec]
    BY <1>3 DEF Prepare
  <2>2. /\ journal'[r] = mem.rec /\ \A x \in Receipt : x # r => journal'[x] = journal[x]
        /\ mem.rec # None
    BY <1>1, <2>1, NoneIsNoRecord DEF JournalType
  <2>3. Pending = {} /\ Pending' = {r}
    <3>1. Pending = {}
      BY <1>1, ConfigConstants DEF OneInv, PendingInv, Pending
    <3> QED
      BY <1>1, <2>2, <3>1 DEF Pending, PendingState
  <2>4. head # r
    BY <1>1, HeadThere, ConfigConstants DEF FilesContext
  <2>5. ~Committed(r)'
    <3>1. PICK S \in SUBSET Receipt : Linked(S)
      BY <1>1 DEF FilesContext, HeadInv, Linked
    <3>2. mem.rec.undoOf # None => mem.rec.undoOf = head
      BY <1>1, <3>1 DEF Linked, HandChain, TypeInv, ControlOK, JobOK, FilesContext
    <3> QED
      BY <1>1, <2>2, <2>4, <3>2 DEF Committed
  <2>6. Open = {} /\ Open' = {r} /\ ~Flagged /\ ~Flagged'
    BY <1>1, <2>2, <2>3, <2>5 DEF Open, Flagged
  <2>7. EffectiveFiles' = live /\ EffectiveFiles = live
    <3>1. Undone(live, mem.rec) = live
      BY <1>1, <2>1 DEF Undone, Cfg
    <3> QED
      BY <1>1, <2>2, <2>6, <3>1, OneOpen, NothingOpen
  <2>8. SavedByApply' = SavedByApply
    <3>1. \A x \in Receipt : SavedByApply'[x] = SavedByApply[x]
      BY <1>1, <2>2, <2>4 DEF SavedByApply
    <3>2. SavedByApply = [x \in Receipt |-> SavedByApply[x]]
          /\ SavedByApply' = [x \in Receipt |-> SavedByApply'[x]]
      BY DEF SavedByApply
    <3> HIDE DEF SavedByApply
    <3> QED
      BY <3>1, <3>2
  <2> QED
    BY <1>1, <2>6, <2>7, <2>8, HiddenMapped DEF Hidden
<1> QED
  BY <1>2, <1>3

\* What the application r found.
FoundBy(r) == [conf |-> journal[r].before, cur |-> journal[r].ctx.dbCur,
               head |-> journal[r].ctx.head, stored |-> journal[r].ctx.before]

LEMMA FoundIsKnown ==
  ASSUME journal \in JournalType, NEW r \in Receipt, journal[r] # None, journal[r].ctx # None
  PROVE  FoundBy(r) # None
<1>1. journal[r].before \in Cfg /\ journal[r].ctx \in Context
  BY DEF JournalType, ReceiptRec
<1>2. FoundBy(r) \in [conf : Cfg, cur : Conn \cup {None}, head : Receipt \cup {None},
                      stored : Records]
  BY <1>1 DEF FoundBy, Context
<1> QED
  BY <1>2, NoneIsNotFound

LEMMA SavedIs ==
  /\ SavedByApply = [r \in Receipt |->
       IF /\ journal[r] # None /\ journal[r].ctx # None
          /\ head = r \/ journal[r].state = "Completed" THEN FoundBy(r) ELSE None]
  /\ UNCHANGED journal =>
       SavedByApply' = [r \in Receipt |->
         IF /\ journal[r] # None /\ journal[r].ctx # None
            /\ head' = r \/ journal[r].state = "Completed" THEN FoundBy(r) ELSE None]
BY DEF SavedByApply, FoundBy

\* With no other receipt pending, the head is completed.
LEMMA HeadIsDone ==
  ASSUME FilesContext, NEW r \in Open, head # None
  PROVE  /\ journal[head].state = "Completed"
         /\ journal[head].ctx.head # None => journal[journal[head].ctx.head].state = "Completed"
<1>1. PICK S \in SUBSET Receipt : Chain(S)
  BY DEF FilesContext, HeadInv
<1>2. PICK h \in Receipt : h = head /\ h \in S
  BY <1>1 DEF Chain
<1>3. /\ journal[h] # None /\ journal[h].ctx # None
      /\ journal[h].state \in {"FilesWritten", "Completed"}
  BY <1>1, <1>2 DEF Chain
<1>4. journal[h].undoOf = None
  BY <1>3 DEF FilesContext, OneInv, TypeInv, UndoesAnApply
<1>5. h # r /\ Pending = {r}
  BY <1>2, <1>3, <1>4, OpenIs DEF FilesContext, Open, Committed
<1>6. journal[h].state = "Completed"
  BY <1>3, <1>5 DEF Pending, PendingState
<1> QED
  BY <1>1, <1>2, <1>6 DEF Chain

LEMMA ApplyMapped ==
  ASSUME NEW r \in Receipt, NEW c \in Conn, NEW s, ~Flagged, ~Flagged', SavedByApply[r] = None,
         SavedByApply' = [SavedByApply EXCEPT ![r] = s], s # None, s.cur = dbCur, s.head = head,
         \A f \in File : s.conf[f] = EffectiveFiles[f] \/ EffectiveFiles[f] \in ExtBytes,
         \A x \in Conn : s.stored[x] \in {None, conns[x]},
         \A x \in Conn : conns'[x] # conns[x] =>
           x = c \/ (s.stored[x] # None /\ conns'[x] = s.conf),
         conns'[c] # None, EffectiveFiles' \in Cfg,
         \A f \in File : EffectiveFiles'[f] # conns'[c][f] =>
           EffectiveFiles'[f] = EffectiveFiles[f] /\ EffectiveFiles[f] \in ExtBytes,
         dbCur' = c, head' = r
  PROVE  Mapped
<1>1. SavedByApply'[r] = s
  <2>1. SavedByApply = [x \in Receipt |-> SavedByApply[x]]
    BY DEF SavedByApply
  <2> HIDE DEF SavedByApply
  <2> QED
    BY <2>1
<1>2. Atomic!Apply(r, c)
  BY <1>1 DEF Atomic!Apply, Atomic!Become, Atomic!Cfg, Cfg, Flagged
<1> QED
  BY <1>2 DEF Mapped, Atomic!Next

LEMMA UndoMapped ==
  ASSUME NEW r \in Receipt, NEW s, ~Flagged, ~Flagged', head = r, SavedByApply[r] = s, s # None,
         EffectiveFiles' \in Cfg,
         \A f \in File : EffectiveFiles'[f] # s.conf[f] =>
           EffectiveFiles'[f] = EffectiveFiles[f] /\ EffectiveFiles[f] \in ExtBytes,
         dbCur' = s.cur, head' = s.head, UNCHANGED SavedByApply,
         \A x \in Conn : conns'[x] \in {conns[x], s.stored[x]}
  PROVE  Mapped
<1>1. Atomic!Undo(r)
  BY DEF Atomic!Undo, Atomic!Become, Atomic!Cfg, Cfg, Flagged
<1> QED
  BY <1>1 DEF Mapped, Atomic!Next

\* The transaction that makes an application the head.
LEMMA MapApply ==
  ASSUME MapContext, NEW io \in IO, CommitApply(io)
  PROVE  Mapped
<1>1. /\ HoldContext /\ FilesContext /\ OneInv /\ TypeInv /\ HandFiles /\ HandStates /\ Shaped
      /\ journal \in JournalType /\ live \in Cfg /\ conns \in [Conn -> Cfg \cup {None}]
  BY HolderData
     DEF MapContext, HoldContext, FilesContext, FilesInv, HoldInv, OneInv, TypeInv, TypeOK
<1>2. /\ pc = "commit" /\ pc \in Applying /\ pc \in JobControl /\ job.kind = "apply"
      /\ UNCHANGED <<live, journal>>
  BY DEF CommitApply, At, Applying, JobControl
<1>3. PICK r \in Receipt : /\ r = mem.rcpt /\ r \in Open /\ Open = {r} /\ Pending = {r}
                           /\ ~Flagged /\ EffectiveFiles = Undone(live, journal[r])
                           /\ journal[r] # None /\ journal[r] \in ReceiptRec /\ Untaken(r)
  BY <1>1, <1>2, HandOpen, OpenIs, OpenFiles
<1>4. PICK ctx : ctx = journal[r].ctx
  OBVIOUS
<1>5. /\ ctx # None /\ ctx \in Context /\ journal[r].undoOf = None
      /\ ctx.head = head /\ ctx.dbCur = dbCur /\ head # r
  BY <1>1, <1>2, <1>3, <1>4
     DEF TypeInv, ControlOK, OfJob, Txn, ReceiptRec, Untaken, HandStates, Committed
<1>6. PICK c \in Conn : c = ctx.input.conn
  BY <1>5 DEF Context, InputType
<1>7. /\ journal[r].before \in Cfg /\ journal[r].after \in Cfg
      /\ ctx.after \in Records /\ ctx.before \in Records
  BY <1>3, <1>5 DEF ReceiptRec, Context
<1>8. /\ ctx.after[c] = journal[r].after
      /\ \A x \in Conn : ctx.after[x] # None /\ x # c =>
           ctx.before[x] # None /\ ctx.after[x] = journal[r].before
  BY <1>1, <1>3, <1>4, <1>5, <1>6 DEF Shaped, Shape
<1>9. \A f \in File : live[f] \in {journal[r].after[f]} \cup ExtBytes
  BY <1>1, <1>2, <1>3 DEF HandFiles, AllSame, Same, Txn
<1>10. CASE ~(io = "ok" /\ CommitValid(ctx))
  <2>1. UNCHANGED <<conns, dbCur, head>>
    BY <1>3, <1>4, <1>10 DEF CommitApply, Txn
  <2> QED
    BY <1>2, <2>1, QuietHidden, HiddenMapped
<1>11. CASE io = "ok" /\ CommitValid(ctx)
  <2>1. /\ conns' = [x \in Conn |-> IF ctx.after[x] # None THEN ctx.after[x] ELSE conns[x]]
        /\ dbCur' = c /\ head' = r
    BY <1>3, <1>4, <1>6, <1>11 DEF CommitApply, Txn
  <2>2. \A x \in Conn : ctx.before[x] \in {None, conns[x]}
    BY <1>11 DEF CommitValid
  <2>3. Pending' = {r} /\ ~Flagged' /\ Open' = {}
    <3>1. Pending' = {r} /\ ~Flagged'
      BY <1>2, <1>3 DEF Pending, Flagged
    <3>2. Committed(r)'
      BY <1>2, <1>4, <1>5, <2>1 DEF Committed
    <3> QED
      BY <3>1, <3>2 DEF Open
  <2>4. EffectiveFiles' = live
    BY <1>1, <1>2, <2>3, NothingOpen
  <2>5. SavedByApply[r] = None /\ SavedByApply' = [SavedByApply EXCEPT ![r] = FoundBy(r)]
    <3>1. journal[r].state # "Completed"
      BY <1>3 DEF Open, Pending, PendingState
    <3>2. head # None => journal[head].state = "Completed"
      BY <1>1, <1>3, HeadIsDone
    <3>3. SavedByApply[r] = None
      BY <1>5, <3>1, SavedIs
    <3>4. \A x \in Receipt :
            (IF /\ journal[x] # None /\ journal[x].ctx # None
                /\ head' = x \/ journal[x].state = "Completed" THEN FoundBy(x) ELSE None)
            = IF x = r THEN FoundBy(r) ELSE SavedByApply[x]
      <4> TAKE x \in Receipt
      <4>1. CASE x = r
        BY <4>1, <1>3, <1>4, <1>5, <2>1
      <4>2. CASE x # r
        BY <4>2, <2>1, <3>2, SavedIs, ConfigConstants
      <4> QED
        BY <4>1, <4>2
    <3>5. SavedByApply' = [x \in Receipt |-> IF x = r THEN FoundBy(r) ELSE SavedByApply[x]]
      BY <1>2, <3>4, SavedIs
    <3>6. [SavedByApply EXCEPT ![r] = FoundBy(r)]
            = [x \in Receipt |-> IF x = r THEN FoundBy(r) ELSE SavedByApply[x]]
      BY SavedIs
    <3> QED
      BY <3>3, <3>5, <3>6
  <2>6. FoundBy(r) # None
    BY <1>1, <1>3, <1>4, <1>5, FoundIsKnown
  <2>7. /\ FoundBy(r).conf = journal[r].before /\ FoundBy(r).cur = dbCur
        /\ FoundBy(r).head = head /\ FoundBy(r).stored = ctx.before
    BY <1>4, <1>5 DEF FoundBy
  <2>8. \A f \in File : journal[r].before[f] = EffectiveFiles[f] \/ EffectiveFiles[f] \in ExtBytes
    BY <1>3, <1>9 DEF Undone
  <2>9. conns'[c] = journal[r].after /\ conns'[c] # None
    BY <1>7, <1>8, <2>1, ConfigConstants
  <2>10. \A x \in Conn : conns'[x] # conns[x] =>
           x = c \/ (ctx.before[x] # None /\ conns'[x] = journal[r].before)
    BY <1>8, <2>1
  <2>11. \A f \in File : EffectiveFiles'[f] # conns'[c][f] =>
           EffectiveFiles'[f] = EffectiveFiles[f] /\ EffectiveFiles[f] \in ExtBytes
    BY <1>3, <1>9, <2>4, <2>9 DEF Undone
  <2>12. EffectiveFiles' \in Cfg
    BY <1>1, <2>4
  <2>13. PICK s : s = FoundBy(r)
    OBVIOUS
  <2>14. /\ s # None /\ s.cur = dbCur /\ s.head = head
         /\ SavedByApply' = [SavedByApply EXCEPT ![r] = s]
         /\ \A f \in File : s.conf[f] = EffectiveFiles[f] \/ EffectiveFiles[f] \in ExtBytes
         /\ \A x \in Conn : s.stored[x] \in {None, conns[x]}
         /\ \A x \in Conn : conns'[x] # conns[x] =>
              x = c \/ (s.stored[x] # None /\ conns'[x] = s.conf)
    BY <2>2, <2>5, <2>6, <2>7, <2>8, <2>10, <2>13
  <2> HIDE DEF SavedByApply
  <2> QED
    <3>1. /\ r \in Receipt /\ c \in Conn /\ ~Flagged /\ ~Flagged' /\ SavedByApply[r] = None
          /\ conns'[c] # None /\ EffectiveFiles' \in Cfg /\ dbCur' = c /\ head' = r
          /\ \A f \in File : EffectiveFiles'[f] # conns'[c][f] =>
                EffectiveFiles'[f] = EffectiveFiles[f] /\ EffectiveFiles[f] \in ExtBytes
      BY <1>3, <2>1, <2>3, <2>5, <2>9, <2>11, <2>12
    <3> QED
      BY <2>14, <3>1, ApplyMapped, Zenon
<1> QED
  BY <1>10, <1>11

\* The transaction that takes the head back.
LEMMA MapUndo ==
  ASSUME MapContext, NEW io \in IO, CommitUndo(io)
  PROVE  Mapped
<1>1. /\ HoldContext /\ FilesContext /\ OneInv /\ HeadInv /\ TypeInv /\ HandFiles /\ AllReceipts
      /\ Originals /\ journal \in JournalType /\ live \in Cfg
  BY HolderData
     DEF MapContext, HoldContext, FilesContext, FilesInv, HoldInv, OneInv, TypeInv, TypeOK
<1>2. /\ pc = "commit" /\ pc \in Applying /\ pc \in JobControl /\ job.kind = "undo"
      /\ UNCHANGED <<live, journal>>
  BY DEF CommitUndo, At, Applying, JobControl
<1>3. PICK u \in Receipt : /\ u = mem.rcpt /\ u \in Open /\ Open = {u} /\ Pending = {u}
                           /\ ~Flagged /\ EffectiveFiles = Undone(live, journal[u])
                           /\ journal[u] # None /\ journal[u] \in ReceiptRec /\ Untaken(u)
  BY <1>1, <1>2, HandOpen, OpenIs, OpenFiles
<1>4. PICK r \in Receipt : /\ r = job.target /\ journal[u].undoOf = r /\ journal[r] # None
                           /\ journal[r] \in ReceiptRec /\ r # None
  BY <1>1, <1>2, <1>3, ConfigConstants DEF TypeInv, ControlOK, OfJob, Txn, JobOK, JournalType
<1>5. head = r /\ journal[r].ctx # None /\ journal[r].ctx.head # r
  BY <1>1, <1>3, <1>4, HeadThere DEF Untaken, Committed
<1>6. journal[u].after = journal[r].before /\ journal[r].before \in Cfg
  BY <1>1, <1>3, <1>4 DEF AllReceipts, ReceiptFiles, ReceiptRec
<1>7. \A f \in File : live[f] \in {journal[r].before[f]} \cup ExtBytes
  BY <1>1, <1>2, <1>3, <1>6 DEF HandFiles, AllSame, Same, Txn
<1>8. CASE UNCHANGED <<conns, dbCur, head>>
  BY <1>2, <1>8, QuietHidden, HiddenMapped
<1>9. CASE ~UNCHANGED <<conns, dbCur, head>>
  <2>1. PICK ctx : ctx = journal[r].ctx
    OBVIOUS
  <2>2. /\ conns' = [x \in Conn |-> IF ctx.before[x] # None THEN ctx.before[x]
                                    ELSE IF ctx.after[x] # None THEN None ELSE conns[x]]
        /\ dbCur' = ctx.dbCur /\ head' = ctx.head
    BY <1>4, <1>9, <2>1 DEF CommitUndo
  <2>3. Pending' = {u} /\ ~Flagged' /\ Open' = {}
    <3>1. Pending' = {u} /\ ~Flagged'
      BY <1>2, <1>3 DEF Pending, Flagged
    <3>2. Committed(u)'
      BY <1>2, <1>4, <1>5, <2>1, <2>2 DEF Committed
    <3> QED
      BY <3>1, <3>2 DEF Open
  <2>4. EffectiveFiles' = live
    BY <1>1, <1>2, <2>3, NothingOpen
  <2>5. /\ journal[r].state = "Completed"
        /\ ctx.head # None => journal[ctx.head].state = "Completed"
    BY <1>1, <1>3, <1>4, <1>5, <2>1, HeadIsDone
  <2>6. SavedByApply' = SavedByApply
    <3>1. \A x \in Receipt :
            (head = x \/ journal[x].state = "Completed")
              <=> (head' = x \/ journal[x].state = "Completed")
      BY <1>5, <2>2, <2>5, ConfigConstants
    <3> QED
      BY <1>2, <3>1, SavedIs
  <2>7. SavedByApply[r] = FoundBy(r)
    BY <1>4, <1>5, SavedIs
  <2>8. FoundBy(r) # None
    BY <1>1, <1>4, <1>5, FoundIsKnown
  <2>9. /\ FoundBy(r).conf = journal[r].before /\ FoundBy(r).cur = dbCur'
        /\ FoundBy(r).head = head' /\ FoundBy(r).stored = ctx.before
    BY <2>1, <2>2 DEF FoundBy
  <2>10. \A f \in File : EffectiveFiles'[f] # journal[r].before[f] =>
           EffectiveFiles'[f] = EffectiveFiles[f] /\ EffectiveFiles[f] \in ExtBytes
    BY <1>3, <1>6, <1>7, <2>4 DEF Undone
  <2>11. \A x \in Conn : conns'[x] \in {conns[x], ctx.before[x]}
    BY <2>2
  <2>12. EffectiveFiles' \in Cfg
    BY <1>1, <2>4
  <2>13. PICK s : s = FoundBy(r)
    OBVIOUS
  <2> HIDE DEF SavedByApply
  <2> QED
    BY <1>3, <1>5, <2>3, <2>6, <2>7, <2>8, <2>9, <2>10, <2>11, <2>12, <2>13, UndoMapped
<1> QED
  BY <1>8, <1>9

\* The steps that touch nothing the mapping looks at.
LEMMA MapQuiet ==
  ASSUME MapContext,
         \/ StartJob \/ NoPending \/ PlainRefused \/ RecVerify \/ Cas
         \/ Reuse \/ PlanApply \/ PlanUndo \/ PlanPlain \/ Crash
         \/ \E r \in Receipt : RecoverReceipt(r)
         \/ \E io \in IO : RecLocal(io) \/ RbRead(io) \/ Restore(io) \/ Local(io)
         \/ \E d \in Draft :
              DeleteDraft(d) \/ \E i \in Input : CreateDraft(d, i) \/ UpdateDraft(d, i)
         \/ \E p \in Proc : Restart(p)
         \/ UNCHANGED vars
  PROVE  Mapped
<1>1. UNCHANGED <<live, journal, conns, dbCur, head>>
  BY DEF StartJob, BeginApply, BeginUndo, BeginRecover, BeginPlain, Begin, NoPending,
         PlainRefused, RecVerify, Cas, Reuse, PlanApply, PlanUndo, PlanPlain, Crash,
         RecoverReceipt, RecLocal, RbRead, Restore, Local, DeleteDraft, CreateDraft,
         UpdateDraft, Restart, durable, vars
<1> QED
  BY <1>1, QuietHidden, HiddenMapped

LEMMA MapNext == MapContext /\ NoCoincidence /\ [Next]_vars => Mapped
<1> SUFFICES ASSUME MapContext, NoCoincidence, [Next]_vars PROVE Mapped
  OBVIOUS
<1>1. CASE StartJob \/ UNCHANGED vars
  BY <1>1, MapQuiet
<1>2. CASE Recover
  BY <1>2, MapQuiet, MapComplete, HiddenMapped DEF Recover
<1>3. CASE Transact
  BY <1>3, MapQuiet, MapGivesUp, MapWrites, MapWritten, MapComplete, MapMarkUndone, MapPrepare,
     HiddenMapped DEF Transact
<1>4. CASE Rollback
  BY <1>4, MapQuiet, MapGivesUp, MapWrites DEF Rollback
<1>5. CASE Work
  BY <1>5, MapQuiet, MapApply, MapUndo DEF Work
<1>6. CASE Environment
  <2>1. \A p \in Proc : ~DeleteRow(p) /\ ~ViewObserve(p) /\ (\A c \in Conn : ~DeleteCheck(p, c))
                        /\ \A io \in IO : ~ViewClear(p, io)
    BY DEF MapContext, HoldContext, HoldInv, NoneSeen, DeleteRow, ViewObserve, DeleteCheck,
           ViewClear, Think
  <2> QED
    BY <1>6, <2>1, MapQuiet, MapExternal, MapEdit DEF Environment
<1> QED
  BY <1>1, <1>2, <1>3, <1>4, <1>5, <1>6 DEF Next, JobStep

LEMMA MapInit == Init => Atomic!Init
<1> SUFFICES ASSUME Init PROVE Atomic!Init
  OBVIOUS
<1>1. live \in Cfg /\ Pending = {} /\ Open = {}
  BY ConfigConstants DEF Init, Pending, Open
<1>2. EffectiveFiles = live
  BY <1>1, NothingOpen
<1>3. SavedByApply = [r \in Receipt |-> None]
  BY DEF Init, SavedByApply
<1> QED
  BY <1>1, <1>2, <1>3 DEF Init, Atomic!Init

\* Files are written one by one, receipts are saved around them, and a crash or a failed
\* write may come anywhere; still applying and undoing connections is what AtomicConfig
\* says: with the database transaction files, connection, records and head change at once,
\* or nothing does, and what could be neither done nor undone is flagged first
\* (FileCommitTransaction, apply_editor_draft, undo_config_apply, recover_config_commits).
\* It is shown for a built-in application whose connections nobody deletes meanwhile, as
\* long as no other program writes between a check and its rename or, over bytes of its
\* own, exactly what the open receipt gives the file.
THEOREM AtomicIsImplemented ==
  Builtin /\ Viewer = {} /\ ~InWindow /\ Spec /\ [][NoCoincidence]_vars
    => ImplementsAtomicConfig
<1> SUFFICES ASSUME Builtin, Viewer = {}, ~InWindow
             PROVE  Spec /\ [][NoCoincidence]_vars => ImplementsAtomicConfig
  OBVIOUS
<1>1. Spec => [](OneInv /\ HeadInv /\ FilesInv)
  BY FilesAlways
<1>2. Init => WindowInv /\ HoldInv
  BY HoldInit DEF Init, WindowInv
<1>3. OneInv /\ HeadInv /\ FilesInv /\ WindowInv /\ HoldInv /\ [Next]_vars
        => WindowInv' /\ HoldInv'
  BY WindowNext, HoldNext DEF OneInv, CheckedInv, HoldContext, FilesContext
<1>4. OneInv /\ HeadInv /\ FilesInv /\ WindowInv /\ HoldInv /\ [Next]_vars /\ [NoCoincidence]_vars
        => Mapped
  <2> SUFFICES ASSUME OneInv, HeadInv, FilesInv, WindowInv, HoldInv, [Next]_vars,
                      [NoCoincidence]_vars
               PROVE  Mapped
    OBVIOUS
  <2>1. MapContext
    BY DEF MapContext, HoldContext, FilesContext
  <2>2. CASE UNCHANGED vars
    BY <2>1, <2>2, MapQuiet
  <2>3. CASE NoCoincidence
    BY <2>1, <2>3, MapNext
  <2> QED
    BY <2>2, <2>3
<1>5. Mapped => [Atomic!Next]_(Atomic!vars)
  BY DEF Mapped
<1>6. Init => Atomic!Init
  BY MapInit
<1> QED
  BY <1>1, <1>2, <1>3, <1>4, <1>5, <1>6, PTL DEF Spec, ImplementsAtomicConfig, Atomic!Spec
=============================================================================
