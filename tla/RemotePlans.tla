---------------------------- MODULE RemotePlans ----------------------------
(***************************************************************************)
(* A remote node: desktops reach it over SSH, plan a switch, review it and  *)
(* apply it, or send another mutation with an idempotency key.  Each        *)
(* request is handled by a session process, which asks the node's owner to  *)
(* execute commands.  Three files keep what must outlive the processes: the *)
(* plans and results of remote-operations.json, and the operation journal.  *)
(***************************************************************************)
EXTENDS FiniteSets, Naturals

CONSTANTS
  Plan,       \* ids of planned switches, also their ids in the journal
  Req,        \* requests that change something; a direct one is a journal id
  Key,        \* idempotency keys
  View,       \* what the preview of a switch may find: connection and live files
  Direct,     \* a request for any mutation other than a planned switch
  None,
  MaxPlans,   \* MAX_STORED_PLANS
  MaxKeys,    \* MAX_IDEMPOTENCY_RESULTS
  MaxChanges, \* bound on changes made on the node itself
  MaxFaults,  \* bound on failed writes and deaths of the owner
  Overlap     \* may a plan be sent again while an attempt at it is under way?

ASSUME RemoteConstants ==
  /\ MaxPlans \in Nat \ {0} /\ MaxKeys \in Nat \ {0}
  /\ MaxChanges \in Nat /\ MaxFaults \in Nat /\ Overlap \in BOOLEAN
  /\ Direct \notin Plan \cup {None} /\ None \notin Plan \cup Key \cup View
  /\ Plan \cap Req = {} /\ Plan \cap Key = {}
  /\ IsFiniteSet(Plan) /\ IsFiniteSet(Key)

VARIABLES
  current,  \* what a preview would find now
  plan,     \* how far each plan request is, what it found, what it switches to
  stored,   \* the plans on file that have not expired
  results,  \* what each key on file was used for
  journal,  \* state of each operation
  begun,    \* operations that may have changed a part of what they change
  req,      \* the session's side of each request: handler, purpose, key
  cmd,      \* the owner's side: the command of the request
  took,     \* how often each plan and each key took effect, up to twice
  changes, faults

sessions == <<plan, stored, results, req>>
owner == <<current, begun, took>>
vars == <<sessions, owner, journal, cmd, changes, faults>>

Final == {"idle", "applied", "refused"}
Locked == {"running", "changed", "failed"}

TypeOK ==
  /\ current \in View
  /\ plan \in [Plan -> [pc : {"none", "previewed", "stored", "ready", "over"},
                        rev : View \cup {None}, target : View \cup {None}]]
  /\ stored \subseteq Plan
  /\ results \in [Key -> Plan \cup {Direct, None}]
  /\ journal \in [Plan \cup Req -> {"none", "Planned", "Prepared", "Completed", "Failed"}]
  /\ begun \subseteq Plan \cup Req
  /\ req \in [Req -> [pc : Final \cup {"sent", "asked", "known", "fresh", "read", "noted",
                                       "waiting", "done"},
                      what : Plan \cup {Direct, None}, key : Key \cup {None}]]
  /\ cmd \in [Req -> {"none", "queued", "ok", "err"} \cup Locked]
  /\ took \in [Plan \cup Key -> 0 .. 2]
  /\ changes \in 0 .. MaxChanges /\ faults \in 0 .. MaxFaults

Init ==
  /\ current \in View
  /\ plan = [p \in Plan |-> [pc |-> "none", rev |-> None, target |-> None]]
  /\ stored = {} /\ results = [k \in Key |-> None]
  /\ journal = [o \in Plan \cup Req |-> "none"] /\ begun = {}
  /\ req = [r \in Req |-> [pc |-> "idle", what |-> None, key |-> None]]
  /\ cmd = [r \in Req |-> "none"]
  /\ took = [x \in Plan \cup Key |-> 0]
  /\ changes = 0 /\ faults = 0

\* A write reports failure before ("fail") or after ("late") it has taken place.
IO == {"ok", "fail", "late"}
Spend(io) == \/ io = "ok" /\ UNCHANGED faults
             \/ io # "ok" /\ faults < MaxFaults /\ faults' = faults + 1

\* The owner's commands wait for one another, and hold mutation.lock while they run.
LockFree == \A r \in Req : cmd[r] \notin Locked

OpOf(r) == IF req[r].what = Direct THEN r ELSE req[r].what
EffectOf(r) == IF req[r].what = Direct THEN req[r].key ELSE req[r].what

At(r, pc) == req[r].pc = pc
Goto(r, pc) == req' = [req EXCEPT ![r].pc = pc]

-----------------------------------------------------------------------------
(* provider.switch.plan.  Its first look at the number of plans only refuses  *)
(* earlier; a request that ends on the way stays where it is.                 *)

\* execute --dry-run: what it finds is the revision.
Preview(p) ==
  /\ plan[p].pc = "none" /\ LockFree
  /\ \E c \in View :
       plan' = [plan EXCEPT ![p] = [pc |-> "previewed", rev |-> current, target |-> c]]
  /\ UNCHANGED <<stored, results, req, owner, journal, cmd, changes, faults>>

StorePlan(p, io) ==
  /\ plan[p].pc = "previewed" /\ Spend(io)
  /\ LET room == Cardinality(stored) < MaxPlans IN
       /\ stored' = IF room /\ io # "fail" THEN stored \cup {p} ELSE stored
       /\ plan' = [plan EXCEPT ![p].pc = IF room /\ io = "ok" THEN "stored" ELSE "over"]
  /\ UNCHANGED <<results, req, owner, journal, cmd, changes>>

\* OperationHandle::plan; when it fails the plan is removed, if that succeeds.
JournalPlan(p, io) ==
  /\ plan[p].pc = "stored" /\ Spend(io)
  /\ journal' = IF io = "fail" THEN journal ELSE [journal EXCEPT ![p] = "Planned"]
  /\ plan' = [plan EXCEPT ![p].pc = IF io = "ok" THEN "ready" ELSE "over"]
  /\ stored' \in IF io = "ok" THEN {stored} ELSE {stored, stored \ {p}}
  /\ UNCHANGED <<results, req, owner, cmd, changes>>

\* PLAN_TTL is over: whoever next opens the file does not see the plan any more.
Expire(p) ==
  /\ p \in stored /\ stored' = stored \ {p}
  /\ UNCHANGED <<plan, results, req, owner, journal, cmd, changes, faults>>

-----------------------------------------------------------------------------
(* provider.switch.apply and the direct mutations, in the session *)

\* An attempt at p is under way, in a session or still in the owner.
Busy(p) == \E r \in Req : /\ req[r].what = p
                          /\ req[r].pc \notin Final \/ cmd[r] \in Locked \cup {"queued"}

\* A desktop applies a plan it was given, or asks for something else; a retry uses
\* the same key or a new one.
Send(r, w, k) ==
  /\ At(r, "idle")
  /\ w # Direct => plan[w].pc = "ready" /\ (Overlap \/ ~Busy(w))
  /\ req' = [req EXCEPT ![r] = [pc |-> "sent", what |-> w, key |-> k]]
  /\ UNCHANGED <<plan, stored, results, owner, journal, cmd, changes, faults>>

\* cached_remote_mutation: a known key is answered from the file, if it was for this.
Lookup(r) ==
  /\ At(r, "sent")
  /\ LET known == results[req[r].key] IN
       Goto(r, IF known = None THEN (IF req[r].what = Direct THEN "noted" ELSE "asked")
               ELSE IF known = req[r].what THEN "applied" ELSE "refused")
  /\ UNCHANGED <<plan, stored, results, owner, journal, cmd, changes, faults>>

GetPlan(r) ==
  /\ At(r, "asked")
  /\ Goto(r, IF req[r].what \in stored THEN "known" ELSE "refused")
  /\ UNCHANGED <<plan, stored, results, owner, journal, cmd, changes, faults>>

\* The dry run again; the lock is given back before the plan is applied.
Refresh(r) ==
  /\ At(r, "known") /\ LockFree
  /\ Goto(r, IF current = plan[req[r].what].rev THEN "fresh" ELSE "refused")
  /\ UNCHANGED <<plan, stored, results, owner, journal, cmd, changes, faults>>

\* annotate_operation takes no lock between reading the record ...
ReadRecord(r) ==
  /\ At(r, "fresh")
  /\ Goto(r, IF journal[req[r].what] = "Planned" THEN "read" ELSE "refused")
  /\ UNCHANGED <<plan, stored, results, owner, journal, cmd, changes, faults>>

\* ... and writing it back, in the state it was read in.
Annotate(r, io) ==
  /\ At(r, "read") /\ Spend(io)
  /\ journal' = IF io = "fail" THEN journal ELSE [journal EXCEPT ![req[r].what] = "Planned"]
  /\ Goto(r, IF io = "ok" THEN "noted" ELSE "refused")
  /\ UNCHANGED <<plan, stored, results, owner, cmd, changes>>

Call(r) ==
  /\ At(r, "noted") /\ Goto(r, "waiting")
  /\ cmd' = [cmd EXCEPT ![r] = "queued"]
  /\ UNCHANGED <<plan, stored, results, owner, journal, changes, faults>>

Receive(r) ==
  /\ At(r, "waiting") /\ cmd[r] \in {"ok", "err"}
  /\ Goto(r, IF cmd[r] = "ok" THEN "done" ELSE "refused")
  /\ UNCHANGED <<plan, stored, results, owner, journal, cmd, changes, faults>>

\* Mutant of Record: the result of a direct request is filed under its operation.
RecordById(r, io) ==
  /\ At(r, "done") /\ Spend(io)
  /\ results' = IF io = "fail" THEN results ELSE [results EXCEPT ![req[r].key] = OpOf(r)]
  /\ stored' = IF io = "fail" THEN stored ELSE stored \ {req[r].what}
  /\ Goto(r, IF io = "ok" THEN "applied" ELSE "refused")
  /\ UNCHANGED <<plan, owner, journal, cmd, changes>>

\* complete_remote_mutation, cache_remote_mutation: a full file loses its oldest
\* result, which by a clock of seconds that may be set may be any.
Record(r, io) ==
  /\ At(r, "done") /\ Spend(io)
  /\ LET known == {k \in Key : results[k] # None} IN
       \E old \in IF Cardinality(known) >= MaxKeys THEN known ELSE {None} :
         results' = IF io = "fail" THEN results
                    ELSE [k \in Key |-> IF k = req[r].key THEN req[r].what
                                        ELSE IF k = old THEN None ELSE results[k]]
  /\ stored' = IF io = "fail" THEN stored ELSE stored \ {req[r].what}
  /\ Goto(r, IF io = "ok" THEN "applied" ELSE "refused")
  /\ UNCHANGED <<plan, owner, journal, cmd, changes>>

\* An error is answered, the time limit of a command is over, the session dies or its
\* answer is lost: the desktop is not told that it is applied.  A command goes on.
GiveUp(r) ==
  /\ req[r].pc \notin Final /\ Goto(r, "refused")
  /\ UNCHANGED <<plan, stored, results, owner, journal, cmd, changes, faults>>

-----------------------------------------------------------------------------
(* The command, in the owner: execute_with_application under mutation.lock *)

Blocked == \E o \in Plan \cup Req : journal[o] = "Prepared"

\* Mutant of Begin: nobody looks for interrupted operations.
BeginAnyway(r, io) ==
  /\ cmd[r] = "queued" /\ LockFree /\ Spend(io)
  /\ req[r].what # Direct => journal[req[r].what] = "Planned"
  /\ journal' = IF io = "fail" THEN journal ELSE [journal EXCEPT ![OpOf(r)] = "Prepared"]
  /\ begun' = IF io = "ok" THEN begun \cup {OpOf(r)} ELSE begun
  /\ cmd' = [cmd EXCEPT ![r] = IF io = "ok" THEN "running" ELSE "err"]
  /\ UNCHANGED <<sessions, current, took, changes>>

\* blocking_operations, then OperationHandle::prepare of a plan or begin.
Begin(r, io) ==
  /\ cmd[r] = "queued" /\ LockFree /\ Spend(io) /\ ~Blocked
  /\ req[r].what # Direct => journal[req[r].what] = "Planned"
  /\ journal' = IF io = "fail" THEN journal ELSE [journal EXCEPT ![OpOf(r)] = "Prepared"]
  /\ begun' = IF io = "ok" THEN begun \cup {OpOf(r)} ELSE begun
  /\ cmd' = [cmd EXCEPT ![r] = IF io = "ok" THEN "running" ELSE "err"]
  /\ UNCHANGED <<sessions, current, took, changes>>

\* It is refused: by the journal, or because another process holds the lock.
Reject(r) ==
  /\ cmd[r] = "queued" /\ cmd' = [cmd EXCEPT ![r] = "err"]
  /\ UNCHANGED <<sessions, owner, journal, changes, faults>>

\* dispatch: a switch, or any other change; it may refuse, or fail after it has taken
\* effect.
Dispatch(r, io) ==
  /\ cmd[r] = "running"
  /\ IF io = "late" THEN Spend(io) ELSE UNCHANGED faults
  /\ IF io = "fail" THEN UNCHANGED <<current, took>>
     ELSE /\ \E c \in View : /\ req[r].what # Direct => c = plan[req[r].what].target
                             /\ current' = c
          /\ took' = [took EXCEPT ![EffectOf(r)] = IF @ = 0 THEN 1 ELSE 2]
  /\ cmd' = [cmd EXCEPT ![r] = IF io = "ok" THEN "changed" ELSE "failed"]
  /\ UNCHANGED <<sessions, begun, journal, changes>>

\* complete, whose failure is the command's, or fail, whose failure is logged.
Finish(r, io) ==
  /\ cmd[r] \in {"changed", "failed"} /\ Spend(io)
  /\ journal' = IF io = "fail" THEN journal
                ELSE [journal EXCEPT ![OpOf(r)] =
                        IF cmd[r] = "changed" THEN "Completed" ELSE "Failed"]
  /\ begun' = IF io = "fail" THEN begun ELSE begun \ {OpOf(r)}
  /\ cmd' = [cmd EXCEPT ![r] = IF cmd[r] = "changed" /\ io = "ok" THEN "ok" ELSE "err"]
  /\ UNCHANGED <<sessions, current, took, changes>>

\* The owner dies; sessions that wait for it get an error, the files stay.
KillOwner ==
  /\ Spend("fail")
  /\ cmd' = [r \in Req |-> IF cmd[r] \in Locked \cup {"queued"} THEN "err" ELSE cmd[r]]
  /\ UNCHANGED <<sessions, owner, journal, changes>>

\* Mutant of Accept: an interrupted operation may be tried once more.
AcceptReopens(o) ==
  /\ LockFree /\ journal[o] = "Prepared"
  /\ journal' = [journal EXCEPT ![o] = "Planned"] /\ begun' = begun \ {o}
  /\ UNCHANGED <<sessions, current, took, cmd, changes, faults>>

\* operation recover: a person has looked at what the operation left.
Accept(o) ==
  /\ LockFree /\ journal[o] = "Prepared"
  /\ journal' = [journal EXCEPT ![o] = "Completed"] /\ begun' = begun \ {o}
  /\ UNCHANGED <<sessions, current, took, cmd, changes, faults>>

\* The node's own user: its desktop application takes no lock, other programs none.
ChangeHere(c) ==
  /\ changes < MaxChanges /\ changes' = changes + 1
  /\ current' = c
  /\ UNCHANGED <<sessions, begun, took, journal, cmd, faults>>

-----------------------------------------------------------------------------

PlanStep(p) == \/ Preview(p) \/ Expire(p)
               \/ \E io \in IO : StorePlan(p, io) \/ JournalPlan(p, io)
SessionStep(r) ==
  \/ \E w \in Plan \cup {Direct}, k \in Key : Send(r, w, k)
  \/ Lookup(r) \/ GetPlan(r) \/ Refresh(r) \/ ReadRecord(r) \/ Call(r) \/ Receive(r) \/ GiveUp(r)
  \/ \E io \in IO : Annotate(r, io) \/ Record(r, io)
CommandStep(r) == \/ Reject(r)
                  \/ \E io \in IO : Begin(r, io) \/ Dispatch(r, io) \/ Finish(r, io)
Others == \/ KillOwner
          \/ \E o \in Plan \cup Req : Accept(o)
          \/ \E c \in View : ChangeHere(c)

Next == \/ \E p \in Plan : PlanStep(p)
        \/ \E r \in Req : SessionStep(r) \/ CommandStep(r)
        \/ Others

Spec == Init /\ [][Next]_vars

-----------------------------------------------------------------------------

\* However often a plan is sent, with whatever keys, and whoever dies on the way: it
\* takes effect at most once (apply_provider_switch with the journal's Planned,
\* Prepared and Completed).
AppliedOnce == \A p \in Plan : took[p] <= 1

\* Who is told "applied", from the execution or from the results on file, is told so of
\* something that has taken effect (CachedMutation is stored after the execution).
AppliedIsTrue == \A r \in Req : At(r, "applied") => took[EffectOf(r)] > 0

\* What is reported as applied was applied, and a plan once only: a lost answer, a retry
\* under another key and a death before the result is on file can neither make it up nor
\* repeat it.
AppliedOnceAndTruly == AppliedOnce /\ AppliedIsTrue

\* While a command changes things, nothing else is half changed: what an owner that died
\* left open blocks the plans and the direct mutations of every session until a person
\* accepts it (blocking_operations in execute_with_application).
InterruptedBlocks == \A r \in Req : cmd[r] = "running" => begun \subseteq {OpOf(r)}

\* What docs/REMOTE-NODES-DESIGN.md says: the revision is computed again before the
\* execution, and a plan whose revision has changed is not carried out.
StaleNeverApplied ==
  [][\A p \in Plan : took'[p] # took[p] => current = plan[p].rev]_vars
=============================================================================
