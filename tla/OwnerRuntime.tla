---------------------------- MODULE OwnerRuntime ----------------------------
(***************************************************************************)
(* Who may change anything on this machine: the runtime owner (a daemon    *)
(* that holds owner.lock, describes itself in owner.json and listens on    *)
(* ochub.sock), the command-line processes that look for it, start, stop   *)
(* and restart it, forward commands to it or run them directly, and the    *)
(* operation journal that every mutation is written into under             *)
(* mutation.lock.                                                          *)
(***************************************************************************)
EXTENDS Naturals

CONSTANTS
  Daemon,     \* processes of run_foreground, by pid
  Client,     \* command-line processes
  Op,         \* the commands they run, which are also the journal's operation ids
  Goals,      \* what each command-line process may be asked to do
  None,
  MaxPolls,   \* how often start_background and stop_running look (50 times)
  MaxFaults   \* bound on crashes and failed I/O

ASSUME RuntimeConstants ==
  /\ MaxPolls \in Nat \ {0} /\ MaxFaults \in Nat
  /\ Goals \in [Client -> SUBSET {"run", "start", "stop", "restart"}]
  /\ Daemon \cap Client = {} /\ None \notin Daemon \cup Client \cup Op

Proc == Daemon \cup Client

VARIABLES
  ownerLock,  \* holder of owner.lock, a client while it probes included
  record,     \* the daemon owner.json describes
  socket,     \* the daemon that created the file ochub.sock
  mutLock,    \* holder of mutation.lock
  daemon,     \* where each daemon is
  stopping,   \* daemons told to shut down
  client,     \* what each command-line process does
  stage,      \* where each command is
  by,         \* the process that runs it, or has it in its backlog
  half,       \* the commands that have changed a part of what they have to change
  journal,    \* its operation record
  faults

locks == <<ownerLock, record, socket>>
ops == <<mutLock, stage, by, half, journal>>
vars == <<locks, ops, daemon, stopping, client, faults>>

DaemonState == {"off", "starting", "locked", "recorded", "bound", "serving", "closing",
                "dropping", "unrecorded", "exiting", "gone"}
Goal == {"none", "run", "start", "up", "stop", "down"}
ClientRec == [pc : {"idle", "probe", "probing", "reading", "found", "waiting"},
              goal : Goal, restart : BOOLEAN, seen : Daemon \cup {None},
              polls : 0 .. MaxPolls - 1, op : Op \cup {None}]
Stage == {"none", "backlog", "queued", "locked", "clear", "running", "over"}
Idle == [pc |-> "idle", goal |-> "none", restart |-> FALSE, seen |-> None,
         polls |-> 0, op |-> None]

TypeOK ==
  /\ ownerLock \in Proc \cup {None} /\ mutLock \in Proc \cup {None}
  /\ record \in Daemon \cup {None} /\ socket \in Daemon \cup {None}
  /\ daemon \in [Daemon -> DaemonState] /\ stopping \subseteq Daemon
  /\ client \in [Client -> ClientRec]
  /\ stage \in [Op -> Stage] /\ by \in [Op -> Proc \cup {None}]
  /\ half \subseteq Op
  /\ journal \in [Op -> {"none", "Prepared", "Completed", "Failed", "Accepted"}]
  /\ faults \in 0 .. MaxFaults

Init ==
  /\ ownerLock = None /\ record = None /\ socket = None /\ mutLock = None
  /\ daemon = [d \in Daemon |-> "off"] /\ stopping = {}
  /\ client = [c \in Client |-> Idle]
  /\ stage = [o \in Op |-> "none"] /\ by = [o \in Op |-> None]
  /\ half = {} /\ journal = [o \in Op |-> "none"]
  /\ faults = 0

\* A write reports failure before ("fail") or after ("late") it has taken place.
IO == {"ok", "fail", "late"}
Spend(io) == \/ io = "ok" /\ UNCHANGED faults
             \/ io # "ok" /\ faults < MaxFaults /\ faults' = faults + 1

\* The commands of S end here, answered or not.
End(S) ==
  /\ stage' = [o \in Op |-> IF o \in S THEN "over" ELSE stage[o]]
  /\ by' = [o \in Op |-> IF o \in S THEN None ELSE by[o]]
Backlog(d) == {o \in Op : by[o] = d /\ stage[o] = "backlog"}
Unfinished(p) == {o \in Op : by[o] = p}
Release(lock, p) == IF lock = p THEN None ELSE lock

-----------------------------------------------------------------------------
(* The daemon: run_foreground and the guard it holds *)

Step(d, from, to) == daemon[d] = from /\ daemon' = [daemon EXCEPT ![d] = to]

\* OwnerGuard::acquire: the lock is tried once, then owner.json is written.
AcquireOwner(d) ==
  /\ \/ ownerLock = None /\ ownerLock' = d /\ Step(d, "starting", "locked")
     \/ ownerLock # None /\ UNCHANGED ownerLock /\ Step(d, "starting", "gone")
  /\ UNCHANGED <<record, socket, ops, stopping, client, faults>>

\* Without its record there is no guard, and no Drop: closing the file unlocks.
WriteRecord(d, io) ==
  /\ Spend(io)
  /\ record' = IF io = "fail" THEN record ELSE d
  /\ IF io = "ok" THEN Step(d, "locked", "recorded") /\ UNCHANGED ownerLock
                  ELSE Step(d, "locked", "gone") /\ ownerLock' = None
  /\ UNCHANGED <<socket, ops, stopping, client>>

\* A stale socket file is removed before the new one is created.
Bind(d, io) ==
  /\ Spend(io)
  /\ IF io = "fail" THEN socket' \in {socket, None} ELSE socket' = d
  /\ Step(d, "recorded", IF io = "ok" THEN "bound" ELSE "dropping")
  /\ UNCHANGED <<ownerLock, record, ops, stopping, client>>

\* Application::open and the gateway; connections wait in the listener's backlog.
OpenApplication(d, io) ==
  /\ io \in {"ok", "fail"} /\ Spend(io)
  /\ Step(d, "bound", IF io = "ok" THEN "serving" ELSE "dropping")
  /\ End(IF io = "ok" THEN {} ELSE Backlog(d))
  /\ UNCHANGED <<locks, mutLock, half, journal, stopping, client>>

\* Ctrl-C; a shutdown request does the same.
Interrupt(d) ==
  /\ daemon[d] = "serving" /\ d \notin stopping /\ stopping' = stopping \cup {d}
  /\ UNCHANGED <<locks, ops, daemon, client, faults>>

\* Mutant of LeaveLoop: the guard is dropped as soon as the loop ends.
LeaveLoopUnlocked(d) ==
  /\ d \in stopping /\ Step(d, "serving", "closing")
  /\ ownerLock' = Release(ownerLock, d)
  /\ UNCHANGED <<record, socket, ops, stopping, client, faults>>

LeaveLoop(d) ==
  /\ d \in stopping /\ Step(d, "serving", "closing")
  /\ UNCHANGED <<locks, ops, stopping, client, faults>>

\* accept, peer_cred or the signal handler fails: the function returns from the
\* loop, and the socket file stays.
LoopFails(d) ==
  /\ Spend("fail") /\ Step(d, "serving", "dropping")
  /\ End(Backlog(d))
  /\ UNCHANGED <<locks, mutLock, half, journal, stopping, client>>

\* drop(listener): whoever was not accepted yet is dropped; then remove_file(&socket),
\* whose failure is ignored.
RemoveSocket(d, io) ==
  /\ Spend(io) /\ Step(d, "closing", "dropping")
  /\ socket' = IF io = "fail" THEN socket ELSE None
  /\ End(Backlog(d))
  /\ UNCHANGED <<ownerLock, record, mutLock, half, journal, stopping, client>>

\* Drop for OwnerGuard: its own record first, if it can, then the lock.
DropRecord(d, io) ==
  /\ Spend(io) /\ Step(d, "dropping", "unrecorded")
  /\ record' = IF io = "fail" THEN record ELSE Release(record, d)
  /\ UNCHANGED <<ownerLock, socket, ops, stopping, client>>

Unlock(d) ==
  /\ Step(d, "unrecorded", "exiting")
  /\ ownerLock' = None
  /\ UNCHANGED <<record, socket, ops, stopping, client, faults>>

\* main returns: the tokio runtime drops the connections still being handled.
Exit(d) ==
  /\ Step(d, "exiting", "gone")
  /\ End(Unfinished(d)) /\ mutLock' = Release(mutLock, d)
  /\ UNCHANGED <<locks, half, journal, stopping, client, faults>>

-----------------------------------------------------------------------------
(* Running a command: handle_request in the daemon, execute in a direct    *)
(* process, and execute_with_application in both                           *)

Alive(p) == p \in Client \/ (p \in Daemon /\ daemon[p] \notin {"off", "gone"})
Elsewhere == <<locks, daemon, stopping, client>>
Advance(o, from, to) ==
  /\ stage[o] = from /\ Alive(by[o])
  /\ stage' = [stage EXCEPT ![o] = to]
  /\ UNCHANGED <<Elsewhere, by>>
\* The function returns: its guards are dropped.
Conclude(o, from) ==
  /\ stage[o] = from /\ Alive(by[o])
  /\ End({o}) /\ mutLock' = Release(mutLock, by[o])
  /\ UNCHANGED Elsewhere

AcceptConnection(o) ==
  /\ Advance(o, "backlog", "queued")
  /\ daemon[by[o]] = "serving"
  /\ UNCHANGED <<mutLock, half, journal, faults>>

\* A command that is past MutationGuard::acquire and has not returned.
Active(o) == stage[o] \in {"locked", "clear", "running"}
\* serial.lock(): one command at a time inside a process.
Alone(o) == \A q \in Op : by[q] = by[o] => ~Active(q)

\* serial.lock() is waited for, MutationGuard::acquire is not.
LockMutation(o) ==
  /\ Alone(o)
  /\ \/ mutLock = None /\ mutLock' = by[o] /\ Advance(o, "queued", "locked")
     \/ mutLock # None /\ Conclude(o, "queued")
  /\ UNCHANGED <<half, journal, faults>>

\* A command that changes nothing is not journaled.
ReadOnly(o) ==
  /\ Conclude(o, "locked")
  /\ UNCHANGED <<half, journal, faults>>

Blocking == {o \in Op : journal[o] = "Prepared"}

\* Mutant of CheckJournal: operations that were interrupted are not looked for.
CheckNothing(o) ==
  /\ Advance(o, "locked", "clear")
  /\ UNCHANGED <<mutLock, half, journal, faults>>

\* execute_with_application refuses while blocking_operations finds any.
CheckJournal(o) ==
  /\ \/ Blocking = {} /\ Advance(o, "locked", "clear") /\ UNCHANGED mutLock
     \/ Blocking # {} /\ Conclude(o, "locked")
  /\ UNCHANGED <<half, journal, faults>>

\* OperationHandle::begin; once it has returned the change may be under way.
Begin(o, io) ==
  /\ Spend(io)
  /\ journal' = IF io = "fail" THEN journal ELSE [journal EXCEPT ![o] = "Prepared"]
  /\ IF io = "ok" THEN /\ Advance(o, "clear", "running") /\ half' = half \cup {o}
                       /\ UNCHANGED mutLock
                  ELSE Conclude(o, "clear") /\ UNCHANGED half

\* Mutant of Finish: the mutation guard outlives the command.
FinishLocked(o, io) ==
  /\ Spend(io) /\ Alive(by[o]) /\ stage[o] = "running" /\ End({o})
  /\ journal' = IF io = "fail" THEN journal ELSE [journal EXCEPT ![o] = "Completed"]
  /\ half' = half \ {o}
  /\ UNCHANGED <<Elsewhere, mutLock>>

\* dispatch has done all of it, or has failed half way or before; then
\* journal.complete or journal.fail, whose own failure changes nothing more.
Finish(o, io) ==
  /\ Spend(io) /\ Conclude(o, "running")
  /\ \E failed \in BOOLEAN :
       /\ journal' = IF io = "fail" THEN journal
                     ELSE [journal EXCEPT ![o] = IF failed THEN "Failed" ELSE "Completed"]
       /\ half' \in IF failed THEN {half, half \ {o}} ELSE {half \ {o}}

\* operation recover, itself a command under the mutation lock: a person accepts
\* what an interrupted operation has left.
RecoverOperation(o) ==
  /\ mutLock = None /\ o \in Blocking
  /\ journal' = [journal EXCEPT ![o] = "Accepted"]
  /\ UNCHANGED <<locks, mutLock, stage, by, half, daemon, stopping, client, faults>>

-----------------------------------------------------------------------------
(* The command line *)

Become(c, r) == client' = [client EXCEPT ![c] = r]
Return(c) == Become(c, Idle)
At(c, pc) == client[c].pc = pc
Seeks(c, goal) == client[c].pc = "found" /\ client[c].goal = goal

\* A restart is a stop and then a start.
Command(c, goal) ==
  /\ At(c, "idle") /\ goal \in Goals[c]
  /\ Become(c, [Idle EXCEPT !.pc = "probe", !.restart = (goal = "restart"),
                            !.goal = IF goal = "restart" THEN "stop" ELSE goal])
  /\ UNCHANGED <<locks, ops, daemon, stopping, faults>>

\* active_owner: whoever can take the owner lock concludes that there is no owner,
\* and gives the lock back; whoever cannot reads owner.json.
Probe(c) ==
  /\ At(c, "probe")
  /\ \/ ownerLock = None /\ ownerLock' = c /\ Become(c, [client[c] EXCEPT !.pc = "probing"])
     \/ /\ ownerLock # None /\ UNCHANGED ownerLock
        /\ Become(c, [client[c] EXCEPT !.pc = "reading"])
  /\ UNCHANGED <<record, socket, ops, daemon, stopping, faults>>
ProbeUnlock(c) ==
  /\ At(c, "probing") /\ ownerLock' = None
  /\ Become(c, [client[c] EXCEPT !.pc = "found", !.seen = None])
  /\ UNCHANGED <<record, socket, ops, daemon, stopping, faults>>
ReadRecord(c) ==
  /\ At(c, "reading")
  /\ Become(c, [client[c] EXCEPT !.pc = "found", !.seen = record])
  /\ UNCHANGED <<locks, ops, daemon, stopping, faults>>

\* The socket file leads to a process that listens on it, or answers on it.
Listening == socket # None /\ daemon[socket] \in {"bound", "serving", "closing"}
Answering == socket # None /\ daemon[socket] = "serving"

\* No owner: the command runs in this process.
RunDirect(c, o) ==
  /\ Seeks(c, "run") /\ client[c].seen = None /\ stage[o] = "none"
  /\ stage' = [stage EXCEPT ![o] = "queued"] /\ by' = [by EXCEPT ![o] = c]
  /\ Become(c, [Idle EXCEPT !.pc = "waiting", !.op = o])
  /\ UNCHANGED <<locks, mutLock, half, journal, daemon, stopping, faults>>
\* An owner: the command is sent to its socket.
Forward(c, o) ==
  /\ Seeks(c, "run") /\ client[c].seen # None /\ Listening /\ stage[o] = "none"
  /\ stage' = [stage EXCEPT ![o] = "backlog"] /\ by' = [by EXCEPT ![o] = socket]
  /\ Become(c, [Idle EXCEPT !.pc = "waiting", !.op = o])
  /\ UNCHANGED <<locks, mutLock, half, journal, daemon, stopping, faults>>
\* --direct was asked for and there is an owner, the owner refuses the command, its
\* socket cannot be connected to; or the instance has no operation left.
GiveUp(c) ==
  /\ Seeks(c, "run")
  /\ client[c].seen # None \/ \A o \in Op : stage[o] # "none"
  /\ Return(c) /\ UNCHANGED <<locks, ops, daemon, stopping, faults>>

\* start_background: spawn a daemon if there is no owner, then poll until it answers.
Start(c) ==
  /\ Seeks(c, "start")
  /\ \/ /\ client[c].seen # None \/ \A d \in Daemon : daemon[d] # "off"
        /\ Return(c) /\ UNCHANGED daemon
     \/ /\ client[c].seen = None
        /\ \E d \in Daemon : Step(d, "off", "starting")
        /\ Become(c, [Idle EXCEPT !.pc = "probe", !.goal = "up"])
  /\ UNCHANGED <<locks, ops, stopping, faults>>

\* Mutant of PollAgain: the polls are not counted.
PollForever(c) ==
  Become(c, [client[c] EXCEPT !.pc = "probe", !.seen = None])
\* Mutant of PollAgain: one poll too many.
PollOnceMore(c) ==
  IF client[c].polls = MaxPolls THEN Return(c)
  ELSE Become(c, [client[c] EXCEPT !.pc = "probe", !.seen = None, !.polls = @ + 1])
\* Fifty polls, then an error.
PollAgain(c) ==
  IF client[c].polls + 1 = MaxPolls THEN Return(c)
  ELSE Become(c, [client[c] EXCEPT !.pc = "probe", !.seen = None, !.polls = @ + 1])

AwaitUp(c) ==
  /\ Seeks(c, "up")
  /\ IF client[c].seen # None /\ Answering THEN Return(c) ELSE PollAgain(c)
  /\ UNCHANGED <<locks, ops, daemon, stopping, faults>>

\* A stopped daemon is the end of a stop, and half of a restart.
Stopped(c) ==
  IF client[c].restart THEN Become(c, [Idle EXCEPT !.pc = "probe", !.goal = "start"])
                       ELSE Return(c)
\* stop_running: ask the owner to shut down, then poll until there is none.
Stop(c) ==
  /\ Seeks(c, "stop")
  /\ \/ client[c].seen = None /\ Stopped(c) /\ UNCHANGED stopping
     \/ /\ client[c].seen # None /\ Listening /\ stopping' = stopping \cup {socket}
        /\ \/ Return(c)    \* the answer is late, the request stays
           \/ /\ Answering
              /\ Become(c, [client[c] EXCEPT !.pc = "probe", !.seen = None, !.goal = "down"])
     \/ client[c].seen # None /\ ~Listening /\ Return(c) /\ UNCHANGED stopping
  /\ UNCHANGED <<locks, ops, daemon, faults>>
AwaitDown(c) ==
  /\ Seeks(c, "down")
  /\ IF client[c].seen = None THEN Stopped(c) ELSE PollAgain(c)
  /\ UNCHANGED <<locks, ops, daemon, stopping, faults>>

\* The answer arrives, or the connection is closed without one.
Answer(c) ==
  /\ At(c, "waiting") /\ stage[client[c].op] = "over"
  /\ Return(c) /\ UNCHANGED <<locks, ops, daemon, stopping, faults>>
\* A forwarded command has a deadline; the owner goes on with it.
Timeout(c) ==
  /\ At(c, "waiting") /\ by[client[c].op] \in Daemon
  /\ Return(c) /\ UNCHANGED <<locks, ops, daemon, stopping, faults>>

-----------------------------------------------------------------------------
(* Crashes: the kernel drops the locks, the files stay *)

Die(p) ==
  /\ faults < MaxFaults /\ faults' = faults + 1
  /\ ownerLock' = Release(ownerLock, p) /\ mutLock' = Release(mutLock, p)
  /\ End(Unfinished(p))
  /\ UNCHANGED <<record, socket, half, journal, stopping>>
KillDaemon(d) ==
  /\ daemon[d] \notin {"off", "gone"} /\ daemon' = [daemon EXCEPT ![d] = "gone"]
  /\ Die(d) /\ UNCHANGED client
KillClient(c) == ~At(c, "idle") /\ Return(c) /\ Die(c) /\ UNCHANGED daemon

-----------------------------------------------------------------------------
DaemonStep(d) ==
  \/ AcquireOwner(d) \/ LeaveLoop(d) \/ Unlock(d) \/ Exit(d)
  \/ \E io \in IO : \/ WriteRecord(d, io) \/ Bind(d, io) \/ OpenApplication(d, io)
                   \/ RemoveSocket(d, io) \/ DropRecord(d, io)

CommandStep(o) ==
  \/ AcceptConnection(o) \/ LockMutation(o) \/ ReadOnly(o) \/ CheckJournal(o)
  \/ \E io \in IO : Begin(o, io) \/ Finish(o, io)

ClientStep(c) ==
  \/ Probe(c) \/ ProbeUnlock(c) \/ ReadRecord(c) \/ GiveUp(c)
  \/ \E o \in Op : RunDirect(c, o) \/ Forward(c, o)
  \/ Start(c) \/ AwaitUp(c) \/ Stop(c) \/ AwaitDown(c) \/ Answer(c) \/ Timeout(c)

Next ==
  \/ \E d \in Daemon : DaemonStep(d) \/ Interrupt(d) \/ LoopFails(d) \/ KillDaemon(d)
  \/ \E o \in Op : CommandStep(o) \/ RecoverOperation(o)
  \/ \E c \in Client :
       \/ ClientStep(c) \/ KillClient(c)
       \/ \E goal \in Goals[c] : Command(c, goal)

Spec == Init /\ [][Next]_vars

-----------------------------------------------------------------------------
(* Safety *)

\* The states in which a daemon has its OwnerGuard.
Guarded == {"locked", "recorded", "bound", "serving", "closing", "dropping", "unrecorded"}

\* A daemon that accepts commands can be found and reached: it holds the owner
\* lock, owner.json describes it and the socket file is its own, however its
\* predecessors were stopped, killed or failed, and whoever is probing.
ServingIsReachable ==
  \A d \in Daemon : daemon[d] = "serving" => ownerLock = d /\ record = d /\ socket = d

\* No lock outlives its use: mutation.lock is held for a command that is being run, and
\* owner.lock by a daemon with a guard or by a process that is probing it.
NoLockIsLeaked ==
  /\ mutLock # None => \E o \in Op : by[o] = mutLock /\ Active(o)
  /\ ownerLock # None => \/ ownerLock \in Daemon /\ daemon[ownerLock] \in Guarded
                         \/ ownerLock \in Client /\ At(ownerLock, "probing")

\* At most one operation is ever prepared and not resolved: the journal is read and
\* written under the mutation lock, and an interrupted operation stops the next one.
AtMostOnePrepared == \A o, q \in Blocking : o = q

\* A change is made only while no other is half made, in any process, unless the
\* other's failure is on record or a person has accepted what it left.
NoMutationOverInterrupted ==
  \A o, q \in Op :
    o # q /\ stage[o] = "running" /\ q \in half => journal[q] \in {"Failed", "Accepted"}

\* Changes are made one after the other, each on record and each on top of finished ones,
\* by whichever daemon, forwarded or direct command (execute_with_application).
OneChangeAtATime == AtMostOnePrepared /\ NoMutationOverInterrupted

-----------------------------------------------------------------------------
(* Liveness: every process is scheduled, nobody has to crash. *)

Fairness ==
  /\ \A d \in Daemon : WF_vars(DaemonStep(d))
  /\ \A o \in Op : WF_vars(CommandStep(o))
  /\ \A c \in Client : WF_vars(ClientStep(c))

FairSpec == Spec /\ Fairness

\* Every command line returns: it polls a bounded number of times, a forwarded
\* command has a deadline and a direct one comes to its end.  And a command that was
\* accepted is finished, or dropped with its process, though its client may be gone.
CommandsReturn ==
  /\ \A c \in Client : ~At(c, "idle") ~> At(c, "idle")
  /\ \A o \in Op : stage[o] = "queued" ~> stage[o] = "over"
=============================================================================
