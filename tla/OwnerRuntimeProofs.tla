-------------------------- MODULE OwnerRuntimeProofs --------------------------
(* Theorems about OwnerRuntime, for any number of processes and commands. *)
EXTENDS OwnerRuntime, TLAPS

(***************************************************************************)
(* Type correctness                                                        *)
(***************************************************************************)

\* What End(S) and Release leave has the right type.
LEMMA EndType ==
  ASSUME TypeOK, NEW S, End(S)
  PROVE  stage' \in [Op -> Stage] /\ by' \in [Op -> Proc \cup {None}]
BY DEF End, TypeOK, Stage

LEMMA StepType ==
  ASSUME TypeOK, NEW d \in Daemon, NEW from, NEW to \in DaemonState, Step(d, from, to)
  PROVE  daemon' \in [Daemon -> DaemonState]
BY DEF Step, TypeOK

LEMMA BecomeType ==
  ASSUME TypeOK, NEW c \in Client, NEW r \in ClientRec, Become(c, r)
  PROVE  client' \in [Client -> ClientRec]
BY DEF Become, TypeOK

LEMMA IdleType == Idle \in ClientRec
BY RuntimeConstants DEF Idle, ClientRec, Goal

LEMMA SpendType ==
  ASSUME TypeOK, NEW io, Spend(io)
  PROVE  faults' \in 0 .. MaxFaults
BY RuntimeConstants DEF Spend, TypeOK

LEMMA DaemonType ==
  ASSUME TypeOK, NEW d \in Daemon, DaemonStep(d) \/ Interrupt(d) \/ LoopFails(d) \/ KillDaemon(d)
  PROVE  TypeOK'
<1> USE DEF locks, ops, Proc
<1> DaemonState = {"off", "starting", "locked", "recorded", "bound", "serving", "closing",
                   "dropping", "unrecorded", "exiting", "gone"}
  BY DEF DaemonState
<1>1. CASE AcquireOwner(d)
  BY <1>1, StepType DEF TypeOK, AcquireOwner
<1>2. CASE LeaveLoop(d)
  BY <1>2, StepType DEF TypeOK, LeaveLoop
<1>3. CASE Unlock(d)
  BY <1>3, StepType DEF TypeOK, Unlock
<1>4. CASE Exit(d)
  BY <1>4, StepType, EndType DEF TypeOK, Exit, Release
<1>5. ASSUME NEW io \in IO, WriteRecord(d, io)
      PROVE  TypeOK'
  BY <1>5, StepType, SpendType DEF TypeOK, WriteRecord
<1>6. ASSUME NEW io \in IO, Bind(d, io)
      PROVE  TypeOK'
  <2>1. daemon' \in [Daemon -> DaemonState]
    BY <1>6, StepType DEF Bind
  <2>2. socket' \in Daemon \cup {None}
    BY <1>6 DEF Bind, TypeOK
  <2> QED BY <1>6, <2>1, <2>2, SpendType DEF TypeOK, Bind
<1>7. ASSUME NEW io \in IO, OpenApplication(d, io)
      PROVE  TypeOK'
  <2>1. daemon' \in [Daemon -> DaemonState]
    BY <1>7, StepType DEF OpenApplication
  <2> QED BY <1>7, <2>1, SpendType, EndType DEF TypeOK, OpenApplication
<1>8. ASSUME NEW io \in IO, RemoveSocket(d, io)
      PROVE  TypeOK'
  BY <1>8, StepType, SpendType, EndType DEF TypeOK, RemoveSocket
<1>9. ASSUME NEW io \in IO, DropRecord(d, io)
      PROVE  TypeOK'
  BY <1>9, StepType, SpendType DEF TypeOK, DropRecord, Release
<1>10. CASE Interrupt(d)
  BY <1>10 DEF TypeOK, Interrupt
<1>11. CASE LoopFails(d)
  BY <1>11, StepType, SpendType, EndType DEF TypeOK, LoopFails
<1>12. CASE KillDaemon(d)
  <2>1. Die(d)
    BY <1>12 DEF KillDaemon
  <2> QED BY <1>12, <2>1, EndType, RuntimeConstants DEF TypeOK, KillDaemon, Die, Release
<1> QED
  BY <1>1, <1>2, <1>3, <1>4, <1>5, <1>6, <1>7, <1>8, <1>9, <1>10, <1>11, <1>12
  DEF DaemonStep

LEMMA CommandType ==
  ASSUME TypeOK, NEW o \in Op, CommandStep(o) \/ RecoverOperation(o)
  PROVE  TypeOK'
<1> USE DEF Elsewhere, locks, Proc
<1>0. /\ \A from, to : Advance(o, from, to) /\ to \in Stage => stage' \in [Op -> Stage]
      /\ \A from, to : Advance(o, from, to) => UNCHANGED <<Elsewhere, by>>
      /\ \A from : Conclude(o, from) =>
           /\ stage' \in [Op -> Stage] /\ by' \in [Op -> Proc \cup {None}]
           /\ mutLock' \in Proc \cup {None} /\ UNCHANGED Elsewhere
  BY EndType DEF Advance, Conclude, TypeOK, Release
<1> "queued" \in Stage /\ "locked" \in Stage /\ "clear" \in Stage /\ "running" \in Stage
  BY DEF Stage
<1>1. CASE AcceptConnection(o)
  BY <1>0, <1>1 DEF TypeOK, AcceptConnection
<1>2. CASE LockMutation(o)
  <2>1. by[o] \in Proc \cup {None}
    BY DEF TypeOK
  <2> QED BY <1>0, <1>2, <2>1 DEF TypeOK, LockMutation
<1>3. CASE ReadOnly(o)
  BY <1>0, <1>3 DEF TypeOK, ReadOnly
<1>4. CASE CheckJournal(o)
  BY <1>0, <1>4 DEF TypeOK, CheckJournal
<1>5. ASSUME NEW io \in IO, Begin(o, io)
      PROVE  TypeOK'
  BY <1>0, <1>5, SpendType DEF TypeOK, Begin
<1>6. ASSUME NEW io \in IO, Finish(o, io)
      PROVE  TypeOK'
  BY <1>0, <1>6, SpendType DEF TypeOK, Finish
<1>7. CASE RecoverOperation(o)
  BY <1>7 DEF TypeOK, RecoverOperation
<1> QED
  BY <1>1, <1>2, <1>3, <1>4, <1>5, <1>6, <1>7 DEF CommandStep

\* Where a command-line process goes next has the right type.
LEMMA NextRecord ==
  ASSUME TypeOK, NEW c \in Client
  PROVE  /\ client[c] \in ClientRec
         /\ \A g \in Goal, r \in BOOLEAN :
              [Idle EXCEPT !.pc = "probe", !.restart = r, !.goal = g] \in ClientRec
         /\ \A g \in Goal : [Idle EXCEPT !.pc = "probe", !.goal = g] \in ClientRec
         /\ \A o \in Op : [Idle EXCEPT !.pc = "waiting", !.op = o] \in ClientRec
         /\ \A pc \in {"probing", "reading"} : [client[c] EXCEPT !.pc = pc] \in ClientRec
         /\ \A s \in Daemon \cup {None}, pc \in {"found", "probe"} :
              [client[c] EXCEPT !.pc = pc, !.seen = s] \in ClientRec
         /\ [client[c] EXCEPT !.pc = "probe", !.seen = None, !.goal = "down"] \in ClientRec
         /\ client[c].polls + 1 # MaxPolls =>
              [client[c] EXCEPT !.pc = "probe", !.seen = None, !.polls = @ + 1] \in ClientRec
<1>1. client[c] \in ClientRec
  BY DEF TypeOK
<1>2. client[c].polls + 1 # MaxPolls => client[c].polls + 1 \in 0 .. MaxPolls - 1
  BY <1>1, RuntimeConstants DEF ClientRec
<1> QED BY <1>1, <1>2, IdleType DEF ClientRec, Idle, Goal

LEMMA ClientType ==
  ASSUME TypeOK, NEW c \in Client,
         \/ ClientStep(c) \/ KillClient(c)
         \/ \E goal \in Goals[c] : Command(c, goal)
  PROVE  TypeOK'
<1> USE DEF locks, ops, Proc, Return
<1>0. PollAgain(c) \/ Stopped(c) \/ Return(c) => client' \in [Client -> ClientRec]
  BY NextRecord, BecomeType, IdleType DEF PollAgain, Stopped, Goal
<1>1. ASSUME NEW goal \in Goals[c], Command(c, goal)
      PROVE  TypeOK'
  <2> DEFINE g == IF goal = "restart" THEN "stop" ELSE goal
  <2>1. g \in Goal /\ (goal = "restart") \in BOOLEAN
    BY RuntimeConstants DEF Goal
  <2>2. [Idle EXCEPT !.pc = "probe", !.restart = (goal = "restart"), !.goal = g] \in ClientRec
    BY <2>1, NextRecord
  <2> QED BY <1>1, <2>2, BecomeType DEF TypeOK, Command
<1>2. CASE Probe(c)
  <2>1. client' \in [Client -> ClientRec]
    BY <1>2, NextRecord, BecomeType DEF Probe
  <2> QED BY <1>2, <2>1 DEF TypeOK, Probe
<1>3. CASE ProbeUnlock(c)
  <2>1. client' \in [Client -> ClientRec]
    BY <1>3, NextRecord, BecomeType DEF ProbeUnlock
  <2> QED BY <1>3, <2>1 DEF TypeOK, ProbeUnlock
<1>4. CASE ReadRecord(c)
  <2>1. client' \in [Client -> ClientRec]
    BY <1>4, NextRecord, BecomeType DEF ReadRecord, TypeOK
  <2> QED BY <1>4, <2>1 DEF TypeOK, ReadRecord
<1>5. CASE GiveUp(c)
  BY <1>0, <1>5 DEF TypeOK, GiveUp
<1>6. ASSUME NEW o \in Op, RunDirect(c, o)
      PROVE  TypeOK'
  <2>1. client' \in [Client -> ClientRec]
    BY <1>6, NextRecord, BecomeType DEF RunDirect
  <2> QED BY <1>6, <2>1 DEF TypeOK, RunDirect, Stage
<1>7. ASSUME NEW o \in Op, Forward(c, o)
      PROVE  TypeOK'
  <2>1. client' \in [Client -> ClientRec]
    BY <1>7, NextRecord, BecomeType DEF Forward
  <2> QED BY <1>7, <2>1 DEF TypeOK, Forward, Stage
<1>8. CASE Start(c)
  <2>1. client' \in [Client -> ClientRec]
    BY <1>0, <1>8, NextRecord, BecomeType DEF Start, Goal
  <2>2. daemon' \in [Daemon -> DaemonState]
    BY <1>8, StepType DEF Start, DaemonState, TypeOK
  <2> QED BY <1>8, <2>1, <2>2 DEF TypeOK, Start
<1>9. CASE AwaitUp(c)
  BY <1>0, <1>9 DEF TypeOK, AwaitUp
<1>10. CASE Stop(c)
  <2>1. client' \in [Client -> ClientRec]
    BY <1>0, <1>10, NextRecord, BecomeType DEF Stop
  <2>2. stopping' \subseteq Daemon
    BY <1>10 DEF Stop, TypeOK, Listening
  <2> QED BY <1>10, <2>1, <2>2 DEF TypeOK, Stop
<1>11. CASE AwaitDown(c)
  BY <1>0, <1>11 DEF TypeOK, AwaitDown
<1>12. CASE Answer(c)
  BY <1>0, <1>12 DEF TypeOK, Answer
<1>13. CASE Timeout(c)
  BY <1>0, <1>13 DEF TypeOK, Timeout
<1>14. CASE KillClient(c)
  <2>1. Die(c) /\ client' \in [Client -> ClientRec]
    BY <1>0, <1>14 DEF KillClient
  <2> QED BY <1>14, <2>1, EndType, RuntimeConstants DEF TypeOK, KillClient, Die, Release
<1> QED
  BY <1>1, <1>2, <1>3, <1>4, <1>5, <1>6, <1>7, <1>8, <1>9, <1>10, <1>11, <1>12, <1>13, <1>14
  DEF ClientStep

\* Every variable keeps its type: in particular the polls stay under their bound.
THEOREM RuntimeTypeCorrect == Spec => []TypeOK
<1>1. Init => TypeOK
  BY RuntimeConstants, IdleType DEF Init, TypeOK, Proc, DaemonState, Stage
<1>2. TypeOK /\ [Next]_vars => TypeOK'
  <2> SUFFICES ASSUME TypeOK, [Next]_vars PROVE TypeOK'
    OBVIOUS
  <2>1. CASE Next
    BY <2>1, DaemonType, CommandType, ClientType DEF Next
  <2>2. CASE UNCHANGED vars
    BY <2>2 DEF vars, locks, ops, TypeOK
  <2> QED BY <2>1, <2>2
<1> QED BY <1>1, <1>2, PTL DEF Spec

(***************************************************************************)
(* The owner                                                               *)
(***************************************************************************)

\* A daemon has a guard exactly while it holds owner.lock, a command line exactly
\* while it probes; and nobody writes the record or binds the socket without it.
OwnerInv ==
  /\ \A d \in Daemon : daemon[d] \in Guarded <=> ownerLock = d
  /\ \A c \in Client : At(c, "probing") <=> ownerLock = c
  /\ \A d \in Daemon : daemon[d] \in {"recorded", "bound", "serving", "closing"} => record = d
  /\ \A d \in Daemon : daemon[d] \in {"bound", "serving", "closing"} => socket = d

LEMMA OwnerDaemonStep ==
  ASSUME TypeOK, OwnerInv, NEW d \in Daemon,
         DaemonStep(d) \/ Interrupt(d) \/ LoopFails(d) \/ KillDaemon(d)
  PROVE  OwnerInv'
<1> USE RuntimeConstants DEF locks, ops, OwnerInv, TypeOK, Guarded, At
<1>1. CASE AcquireOwner(d)
  BY <1>1 DEF AcquireOwner, Step
<1>2. CASE LeaveLoop(d)
  BY <1>2 DEF LeaveLoop, Step
<1>3. CASE Unlock(d)
  BY <1>3 DEF Unlock, Step
<1>4. CASE Exit(d)
  BY <1>4 DEF Exit, Step
<1>5. ASSUME NEW io \in IO, WriteRecord(d, io)
      PROVE  OwnerInv'
  BY <1>5 DEF WriteRecord, Step
<1>6. ASSUME NEW io \in IO, Bind(d, io)
      PROVE  OwnerInv'
  BY <1>6 DEF Bind, Step
<1>7. ASSUME NEW io \in IO, OpenApplication(d, io)
      PROVE  OwnerInv'
  BY <1>7 DEF OpenApplication, Step
<1>8. ASSUME NEW io \in IO, RemoveSocket(d, io)
      PROVE  OwnerInv'
  BY <1>8 DEF RemoveSocket, Step
<1>9. ASSUME NEW io \in IO, DropRecord(d, io)
      PROVE  OwnerInv'
  BY <1>9 DEF DropRecord, Step, Release
<1>10. CASE Interrupt(d)
  BY <1>10 DEF Interrupt
<1>11. CASE LoopFails(d)
  BY <1>11 DEF LoopFails, Step
<1>12. CASE KillDaemon(d)
  BY <1>12 DEF KillDaemon, Die, Release
<1> QED
  BY <1>1, <1>2, <1>3, <1>4, <1>5, <1>6, <1>7, <1>8, <1>9, <1>10, <1>11, <1>12
  DEF DaemonStep

\* A command line that was not probing and goes elsewhere is not probing there.
LEMMA NotProbing ==
  ASSUME TypeOK, NEW c \in Client, ~At(c, "probing"),
         NEW r, r.pc # "probing", Become(c, r)
  PROVE  \A b \in Client : At(b, "probing")' <=> At(b, "probing")
BY DEF At, TypeOK, Become

\* To poll again, to have stopped the owner and to return are to go elsewhere.
LEMMA PollsAndReturns ==
  ASSUME TypeOK, NEW c \in Client, ~At(c, "probing"),
         PollAgain(c) \/ Stopped(c) \/ Return(c)
  PROVE  \A b \in Client : At(b, "probing")' <=> At(b, "probing")
<1> DEFINE again == [client[c] EXCEPT !.pc = "probe", !.seen = None, !.polls = @ + 1]
           start == [Idle EXCEPT !.pc = "probe", !.goal = "start"]
<1>1. client[c] \in ClientRec
  BY DEF TypeOK
<1>2. again.pc = "probe" /\ start.pc = "probe" /\ Idle.pc = "idle"
  BY <1>1 DEF ClientRec, Idle
<1>3. Become(c, again) \/ Become(c, start) \/ Become(c, Idle)
  BY DEF PollAgain, Stopped, Return
<1> HIDE DEF again, start
<1> QED BY <1>2, <1>3, NotProbing

LEMMA OwnerClientStep ==
  ASSUME TypeOK, OwnerInv, NEW c \in Client,
         \/ ClientStep(c) \/ KillClient(c)
         \/ \E goal \in Goals[c] : Command(c, goal)
  PROVE  OwnerInv'
<1> USE DEF locks, ops
<1>0. client[c] \in ClientRec
  BY DEF TypeOK
\* Neither the locks nor the daemons change, and nobody starts or ends a probe.
<1>s. ASSUME UNCHANGED <<locks, daemon>>,
             \A b \in Client : At(b, "probing")' <=> At(b, "probing")
      PROVE  OwnerInv'
  BY <1>s DEF OwnerInv, Guarded
<1>1. ASSUME NEW goal \in Goals[c], Command(c, goal)
      PROVE  OwnerInv'
  <2> DEFINE r == [Idle EXCEPT !.pc = "probe", !.restart = (goal = "restart"),
                               !.goal = IF goal = "restart" THEN "stop" ELSE goal]
  <2>1. r.pc = "probe" /\ Become(c, r) /\ ~At(c, "probing")
    BY <1>1 DEF Command, Idle, At
  <2> HIDE DEF r
  <2> QED BY <1>1, <1>s, <2>1, NotProbing DEF Command
<1>2. CASE Probe(c)
  BY <1>0, <1>2, RuntimeConstants DEF Probe, Become, At, OwnerInv, TypeOK, ClientRec, Guarded
<1>3. CASE ProbeUnlock(c)
  BY <1>0, <1>3, RuntimeConstants DEF ProbeUnlock, Become, At, OwnerInv, TypeOK, ClientRec, Guarded
<1>4. CASE ReadRecord(c)
  BY <1>0, <1>4, RuntimeConstants DEF ReadRecord, Become, At, OwnerInv, TypeOK, ClientRec, Guarded
<1>5. CASE GiveUp(c)
  BY <1>5, <1>s, PollsAndReturns DEF GiveUp, Seeks, At
<1>6. ASSUME NEW o \in Op, RunDirect(c, o)
      PROVE  OwnerInv'
  <2> DEFINE r == [Idle EXCEPT !.pc = "waiting", !.op = o]
  <2>1. r.pc = "waiting" /\ Become(c, r) /\ ~At(c, "probing")
    BY <1>6 DEF RunDirect, Seeks, Idle, At
  <2> HIDE DEF r
  <2> QED BY <1>6, <1>s, <2>1, NotProbing DEF RunDirect
<1>7. ASSUME NEW o \in Op, Forward(c, o)
      PROVE  OwnerInv'
  <2> DEFINE r == [Idle EXCEPT !.pc = "waiting", !.op = o]
  <2>1. r.pc = "waiting" /\ Become(c, r) /\ ~At(c, "probing")
    BY <1>7 DEF Forward, Seeks, Idle, At
  <2> HIDE DEF r
  <2> QED BY <1>7, <1>s, <2>1, NotProbing DEF Forward
<1>8. CASE Start(c)
  <2>1. \A b \in Client : At(b, "probing")' <=> At(b, "probing")
    <3> DEFINE r == [Idle EXCEPT !.pc = "probe", !.goal = "up"]
    <3>1. r.pc = "probe" /\ (Return(c) \/ Become(c, r)) /\ ~At(c, "probing")
      BY <1>8 DEF Start, Seeks, Idle, At
    <3> HIDE DEF r
    <3> QED BY <3>1, NotProbing, PollsAndReturns
  <2>2. \A d \in Daemon, st \in Guarded : (daemon'[d] = st) <=> (daemon[d] = st)
    BY <1>8 DEF Start, Step, Guarded, TypeOK
  <2> QED BY <1>8, <2>1, <2>2 DEF Start, OwnerInv, Guarded
<1>9. CASE AwaitUp(c)
  BY <1>9, <1>s, PollsAndReturns DEF AwaitUp, Seeks, At
<1>10. CASE Stop(c)
  <2>1. \/ Stopped(c) \/ Return(c)
        \/ Become(c, [client[c] EXCEPT !.pc = "probe", !.seen = None, !.goal = "down"])
    BY <1>10 DEF Stop
  <2>2. [client[c] EXCEPT !.pc = "probe", !.seen = None, !.goal = "down"].pc # "probing"
    BY <1>0 DEF ClientRec
  <2> QED BY <1>10, <1>s, <2>1, <2>2, NotProbing, PollsAndReturns DEF Stop, Seeks, At
<1>11. CASE AwaitDown(c)
  BY <1>11, <1>s, PollsAndReturns DEF AwaitDown, Seeks, At
<1>12. CASE Answer(c)
  BY <1>12, <1>s, PollsAndReturns DEF Answer, At
<1>13. CASE Timeout(c)
  BY <1>13, <1>s, PollsAndReturns DEF Timeout, At
<1>14. CASE KillClient(c)
  BY <1>14, RuntimeConstants
  DEF KillClient, Die, Return, Become, Idle, At, Release, OwnerInv, TypeOK, Guarded
<1> QED
  BY <1>1, <1>2, <1>3, <1>4, <1>5, <1>6, <1>7, <1>8, <1>9, <1>10, <1>11, <1>12, <1>13, <1>14
  DEF ClientStep

LEMMA OwnerInductive == Spec => []OwnerInv
<1>1. Init => OwnerInv
  BY RuntimeConstants DEF Init, OwnerInv, Guarded, At, Idle
<1>2. TypeOK /\ OwnerInv /\ [Next]_vars => OwnerInv'
  <2> SUFFICES ASSUME TypeOK, OwnerInv, [Next]_vars PROVE OwnerInv'
    OBVIOUS
  <2>1. ASSUME NEW o \in Op, CommandStep(o) \/ RecoverOperation(o)
        PROVE  UNCHANGED <<locks, daemon, client>>
    BY <2>1 DEF CommandStep, AcceptConnection, LockMutation, ReadOnly, CheckJournal, Begin,
      Finish, RecoverOperation, Advance, Conclude, Elsewhere, locks
  <2>2. UNCHANGED <<locks, daemon, client>> => OwnerInv'
    BY DEF OwnerInv, At, Guarded, locks
  <2>3. CASE Next
    BY <2>1, <2>2, <2>3, OwnerDaemonStep, OwnerClientStep DEF Next
  <2>4. CASE UNCHANGED vars
    BY <2>2, <2>4 DEF vars, locks
  <2> QED BY <2>3, <2>4
<1> QED BY <1>1, <1>2, RuntimeTypeCorrect, PTL DEF Spec

\* However its predecessors ended, a daemon that serves holds owner.lock, and
\* owner.json and ochub.sock lead to it: OwnerGuard, run_foreground, active_owner.
THEOREM OwnerIsReachable == Spec => []ServingIsReachable
<1>1. OwnerInv => ServingIsReachable
  BY DEF OwnerInv, ServingIsReachable, Guarded
<1> QED BY <1>1, OwnerInductive, PTL

(***************************************************************************)
(* The mutation lock and the journal                                       *)
(***************************************************************************)

\* A command has a process exactly while it is under way; the one that is past the
\* mutation lock is the only one, its process holds the lock, and the lock is held
\* for nothing else.
LockInv ==
  /\ \A o \in Op : by[o] = None <=> stage[o] \in {"none", "over"}
  /\ \A o \in Op : Active(o) => mutLock = by[o]
  /\ \A o, q \in Op : Active(o) /\ Active(q) => o = q
  /\ mutLock # None => \E o \in Op : by[o] = mutLock /\ Active(o)

\* The journal as the one command that is past the lock finds it: nothing prepared
\* once it has looked, and only itself once it has begun; and what has been left half
\* made is on record.
JournalInv ==
  /\ \A o \in Op : stage[o] = "clear" => Blocking = {}
  /\ \A o \in Op : stage[o] = "running" => journal[o] = "Prepared"
  /\ \A o, q \in Blocking : o = q
  /\ \A o \in half : journal[o] \in {"Prepared", "Failed", "Accepted"}

\* The commands of a process, or those in its backlog, end, and its lock is released:
\* what a crash, an exit and the end of the listener do.
LEMMA EndKeepsLock ==
  ASSUME TypeOK, LockInv, JournalInv, NEW p \in Proc, NEW S \in SUBSET Op, End(S),
         \/ S = Unfinished(p) /\ mutLock' = Release(mutLock, p)
         \/ (\A o \in S : ~Active(o)) /\ UNCHANGED mutLock,
         UNCHANGED <<half, journal>>
  PROVE  LockInv' /\ JournalInv'
<1>1. \A o \in Op : \/ o \in S /\ stage'[o] = "over" /\ by'[o] = None
                    \/ o \notin S /\ stage'[o] = stage[o] /\ by'[o] = by[o]
  <2>1. /\ stage' = [o \in Op |-> IF o \in S THEN "over" ELSE stage[o]]
        /\ by' = [o \in Op |-> IF o \in S THEN None ELSE by[o]]
    BY DEF End
  <2> QED BY <2>1, Zenon
<1>2. \A o \in Op : Active(o)' => Active(o) /\ o \notin S
  BY <1>1 DEF Active
<1>3. \A o \in Op : Active(o) /\ o \notin S => Active(o)'
  BY <1>1 DEF Active
<1>4. \A o \in Op : by'[o] = None <=> stage'[o] \in {"none", "over"}
  BY <1>1 DEF LockInv
<1>5. (\A o \in Op : Active(o)' => mutLock' = by'[o])
      /\ (mutLock' # None => \E o \in Op : by'[o] = mutLock' /\ Active(o)')
  <2>1. CASE S = Unfinished(p) /\ mutLock' = Release(mutLock, p)
    BY <1>1, <1>2, <1>3, <2>1 DEF LockInv, Unfinished, Release
  <2>2. CASE (\A o \in S : ~Active(o)) /\ UNCHANGED mutLock
    BY <1>1, <1>2, <1>3, <2>2 DEF LockInv
  <2> QED BY <2>1, <2>2
<1>6. LockInv'
  BY <1>2, <1>4, <1>5 DEF LockInv
<1>7. JournalInv'
  BY <1>1 DEF JournalInv, Blocking
<1> QED BY <1>6, <1>7

LEMMA CommandKeepsLock ==
  ASSUME TypeOK, LockInv, JournalInv, NEW o \in Op, CommandStep(o) \/ RecoverOperation(o)
  PROVE  LockInv' /\ JournalInv'
<1> USE RuntimeConstants
<1>a. by[o] # None => by[o] \in Proc
  BY DEF TypeOK
<1>1. CASE AcceptConnection(o)
  <2>1. /\ stage[o] = "backlog" /\ stage' = [stage EXCEPT ![o] = "queued"]
        /\ UNCHANGED <<by, mutLock, half, journal>>
    BY <1>1 DEF AcceptConnection, Advance
  <2> QED BY <2>1 DEF LockInv, JournalInv, Active, Blocking, TypeOK
<1>2. CASE LockMutation(o)
  <2>1. CASE mutLock = None /\ mutLock' = by[o] /\ Advance(o, "queued", "locked")
    <3>1. /\ stage[o] = "queued" /\ stage' = [stage EXCEPT ![o] = "locked"]
          /\ UNCHANGED <<by, half, journal>> /\ mutLock' = by[o]
      BY <1>2, <2>1 DEF LockMutation, Advance
    <3>2. \A q \in Op : ~Active(q)
      BY <2>1 DEF LockInv, Active
    <3> QED BY <3>1, <3>2 DEF LockInv, JournalInv, Active, Blocking, TypeOK
  <2>2. CASE mutLock # None /\ Conclude(o, "queued")
    <3>1. by[o] \in Proc /\ stage[o] = "queued"
      BY <1>a, <2>2 DEF Conclude, LockInv
    <3>2. mutLock # by[o]
      BY <1>2, <2>2 DEF LockMutation, Alone, LockInv
    <3>3. mutLock' = mutLock /\ End({o}) /\ ~Active(o) /\ UNCHANGED <<half, journal>>
      BY <1>2, <2>2, <3>1, <3>2 DEF LockMutation, Conclude, Release, Active
    <3> QED BY <3>1, <3>3, EndKeepsLock
  <2> QED BY <1>2, <2>1, <2>2 DEF LockMutation
\* The command that is past the lock returns: the lock is free and nobody is past it.
<1>c. ASSUME NEW from \in {"locked", "clear", "running"}, Conclude(o, from)
      PROVE  /\ stage' = [stage EXCEPT ![o] = "over"] /\ LockInv'
             /\ \A q \in Op : stage'[q] \notin {"locked", "clear", "running"}
  <2>1. /\ \A q \in Op : Active(q) <=> q = o
        /\ mutLock = by[o] /\ by[o] # None
    BY <1>c DEF Conclude, LockInv, Active
  <2>2. /\ mutLock' = None /\ stage' = [stage EXCEPT ![o] = "over"]
        /\ by' = [by EXCEPT ![o] = None]
    BY <1>c, <2>1 DEF Conclude, Release, End, TypeOK
  <2>3. \A q \in Op : stage'[q] \notin {"locked", "clear", "running"}
    BY <2>1, <2>2 DEF Active, TypeOK
  <2> QED BY <2>2, <2>3 DEF LockInv, Active, TypeOK
<1>3. CASE ReadOnly(o)
  BY <1>c, <1>3 DEF ReadOnly, JournalInv, Blocking
\* The command that is past the lock goes on.
<1>d. ASSUME NEW from \in {"locked", "clear"}, NEW to \in {"clear", "running"},
             Advance(o, from, to), UNCHANGED mutLock
      PROVE  /\ LockInv' /\ stage' = [stage EXCEPT ![o] = to]
             /\ \A q \in Op : q # o => stage'[q] \notin {"locked", "clear", "running"}
  <2>1. stage[o] = from /\ stage' = [stage EXCEPT ![o] = to] /\ by' = by
    BY <1>d DEF Advance
  <2>2. \A q \in Op : Active(q) <=> q = o
    BY <2>1 DEF LockInv, Active
  <2>3. \A q \in Op : q # o => stage'[q] \notin {"locked", "clear", "running"}
    BY <2>1, <2>2 DEF Active, TypeOK
  <2> QED BY <1>d, <2>1, <2>2, <2>3 DEF LockInv, Active, TypeOK
<1>4. CASE CheckJournal(o)
  <2>1. CASE Blocking = {} /\ Advance(o, "locked", "clear") /\ UNCHANGED mutLock
    <3>1. UNCHANGED <<half, journal>>
      BY <1>4 DEF CheckJournal
    <3> QED BY <1>d, <2>1, <3>1 DEF JournalInv, Blocking, TypeOK
  <2>2. CASE Conclude(o, "locked")
    BY <1>c, <1>4, <2>2 DEF CheckJournal, JournalInv, Blocking
  <2> QED BY <1>4, <2>1, <2>2 DEF CheckJournal
<1>5. ASSUME NEW io \in IO, Begin(o, io)
      PROVE  LockInv' /\ JournalInv'
  <2>0. stage[o] = "clear" /\ Blocking = {}
    BY <1>5 DEF Begin, Advance, Conclude, JournalInv
  <2>1. \/ UNCHANGED journal
        \/ journal' = [journal EXCEPT ![o] = "Prepared"]
    BY <1>5 DEF Begin
  <2>2. Blocking' \subseteq {o}
    BY <2>0, <2>1 DEF Blocking, TypeOK
  <2>3. CASE io = "ok"
    <3>1. /\ Advance(o, "clear", "running") /\ half' = half \cup {o} /\ UNCHANGED mutLock
          /\ journal' = [journal EXCEPT ![o] = "Prepared"]
      BY <1>5, <2>3 DEF Begin
    <3>2. /\ LockInv' /\ stage' = [stage EXCEPT ![o] = "running"]
          /\ \A q \in Op : q # o => stage'[q] \notin {"locked", "clear", "running"}
      BY <1>d, <3>1
    <3> QED BY <2>2, <3>1, <3>2 DEF JournalInv, TypeOK
  <2>4. CASE io # "ok"
    <3>1. Conclude(o, "clear") /\ UNCHANGED half
      BY <1>5, <2>4 DEF Begin
    <3>2. LockInv' /\ \A q \in Op : stage'[q] \notin {"locked", "clear", "running"}
      BY <1>c, <3>1
    <3> QED BY <2>1, <2>2, <3>1, <3>2 DEF JournalInv, TypeOK
  <2> QED BY <2>3, <2>4
<1>6. ASSUME NEW io \in IO, Finish(o, io)
      PROVE  LockInv' /\ JournalInv'
  <2>1. LockInv' /\ \A q \in Op : stage'[q] \notin {"locked", "clear", "running"}
    BY <1>c, <1>6 DEF Finish
  <2>2. stage[o] = "running" /\ journal[o] = "Prepared"
    BY <1>6 DEF Finish, Conclude, JournalInv
  <2>3. PICK failed \in BOOLEAN :
          /\ journal' = IF io = "fail" THEN journal
                        ELSE [journal EXCEPT ![o] = IF failed THEN "Failed" ELSE "Completed"]
          /\ half' \in IF failed THEN {half, half \ {o}} ELSE {half \ {o}}
    BY <1>6 DEF Finish
  <2>4. Blocking' \subseteq Blocking
    BY <2>3 DEF Blocking, TypeOK
  <2>5. \A q \in half' : journal'[q] \in {"Prepared", "Failed", "Accepted"}
    BY <2>2, <2>3 DEF JournalInv, TypeOK
  <2> QED BY <2>1, <2>4, <2>5 DEF JournalInv
<1>7. CASE RecoverOperation(o)
  <2>1. /\ mutLock = None /\ journal' = [journal EXCEPT ![o] = "Accepted"]
        /\ UNCHANGED <<mutLock, stage, by, half>>
    BY <1>7 DEF RecoverOperation
  <2>2. \A q \in Op : ~Active(q)
    BY <2>1 DEF LockInv, Active
  <2>3. LockInv' /\ \A q \in Op : stage'[q] \notin {"clear", "running"}
    BY <2>1, <2>2 DEF LockInv, Active
  <2> QED BY <2>1, <2>3 DEF JournalInv, Blocking, TypeOK
<1> QED
  BY <1>1, <1>2, <1>3, <1>4, <1>5, <1>6, <1>7 DEF CommandStep

LEMMA OthersKeepLock ==
  ASSUME TypeOK, LockInv, JournalInv,
         \/ \E d \in Daemon : DaemonStep(d) \/ Interrupt(d) \/ LoopFails(d) \/ KillDaemon(d)
         \/ \E c \in Client : \/ ClientStep(c) \/ KillClient(c)
                             \/ \E goal \in Goals[c] : Command(c, goal)
  PROVE  LockInv' /\ JournalInv'
<1> USE RuntimeConstants
<1>1. CASE UNCHANGED ops
  BY <1>1 DEF ops, LockInv, JournalInv, Active, Blocking
<1>2. ASSUME NEW p \in Proc, End(Unfinished(p)), mutLock' = Release(mutLock, p),
             UNCHANGED <<half, journal>>
      PROVE  LockInv' /\ JournalInv'
  BY <1>2, EndKeepsLock DEF Unfinished
<1>3. ASSUME NEW d \in Daemon, End(Backlog(d)), UNCHANGED <<mutLock, half, journal>>
      PROVE  LockInv' /\ JournalInv'
  <2>1. Backlog(d) \in SUBSET Op /\ \A o \in Backlog(d) : ~Active(o)
    BY DEF Backlog, Active
  <2> QED BY <1>3, <2>1, EndKeepsLock DEF Proc
<1>4. ASSUME NEW p \in Proc, Die(p)
      PROVE  LockInv' /\ JournalInv'
  BY <1>2, <1>4 DEF Die
\* A command is handed to a process and does not have the lock yet.
<1>5. ASSUME NEW o \in Op, NEW p \in Proc, NEW to \in {"queued", "backlog"},
             stage[o] = "none", stage' = [stage EXCEPT ![o] = to], by' = [by EXCEPT ![o] = p],
             UNCHANGED <<mutLock, half, journal>>
      PROVE  LockInv' /\ JournalInv'
  <2>1. p # None /\ ~Active(o)
    BY <1>5 DEF Proc, Active
  <2>2. \A q \in Op : /\ Active(q)' <=> Active(q)
                      /\ Active(q) => by'[q] = by[q]
    BY <1>5, <2>1 DEF Active, TypeOK
  <2>3. LockInv'
    <3>1. \A q \in Op : by'[q] = None <=> stage'[q] \in {"none", "over"}
      BY <1>5, <2>1 DEF LockInv, TypeOK
    <3>2. \A q \in Op : Active(q)' => mutLock' = by'[q]
      BY <1>5, <2>2 DEF LockInv
    <3>3. \A q, r \in Op : Active(q)' /\ Active(r)' => q = r
      BY <2>2 DEF LockInv
    <3>4. mutLock' # None => \E q \in Op : by'[q] = mutLock' /\ Active(q)'
      BY <1>5, <2>2 DEF LockInv
    <3> QED BY <3>1, <3>2, <3>3, <3>4 DEF LockInv
  <2>4. JournalInv'
    BY <1>5 DEF JournalInv, Blocking, TypeOK
  <2> QED BY <2>3, <2>4
<1>6. ASSUME NEW d \in Daemon, DaemonStep(d) \/ Interrupt(d) \/ LoopFails(d) \/ KillDaemon(d)
      PROVE  LockInv' /\ JournalInv'
  <2>1. ASSUME NEW io \in IO, OpenApplication(d, io)
        PROVE  LockInv' /\ JournalInv'
    <3>1. CASE io = "ok"
      <4>1. End({}) /\ UNCHANGED <<mutLock, half, journal>>
        BY <2>1, <3>1 DEF OpenApplication
      <4> QED BY <4>1, EndKeepsLock DEF Proc
    <3>2. CASE io # "ok"
      BY <1>3, <2>1, <3>2 DEF OpenApplication
    <3> QED BY <3>1, <3>2
  <2>2. ASSUME NEW io \in IO, RemoveSocket(d, io)
        PROVE  LockInv' /\ JournalInv'
    BY <1>3, <2>2 DEF RemoveSocket
  <2>3. CASE LoopFails(d)
    BY <1>3, <2>3 DEF LoopFails
  <2>4. CASE Exit(d)
    BY <1>2, <2>4 DEF Exit, Proc
  <2>5. CASE KillDaemon(d)
    BY <1>4, <2>5 DEF KillDaemon, Proc
  <2>6. ASSUME NEW io \in IO, WriteRecord(d, io) \/ Bind(d, io) \/ DropRecord(d, io)
        PROVE  UNCHANGED ops
    BY <2>6 DEF WriteRecord, Bind, DropRecord
  <2>7. AcquireOwner(d) \/ LeaveLoop(d) \/ Unlock(d) \/ Interrupt(d) => UNCHANGED ops
    BY DEF AcquireOwner, LeaveLoop, Unlock, Interrupt
  <2> QED BY <1>1, <1>6, <2>1, <2>2, <2>3, <2>4, <2>5, <2>6, <2>7 DEF DaemonStep
<1>7. ASSUME NEW c \in Client,
             \/ ClientStep(c) \/ KillClient(c)
             \/ \E goal \in Goals[c] : Command(c, goal)
      PROVE  LockInv' /\ JournalInv'
  <2>1. ASSUME NEW o \in Op, RunDirect(c, o)
        PROVE  LockInv' /\ JournalInv'
    BY <1>5, <2>1 DEF RunDirect, Proc
  <2>2. ASSUME NEW o \in Op, Forward(c, o)
        PROVE  LockInv' /\ JournalInv'
    <3>1. socket \in Proc
      BY <2>2 DEF Forward, Listening, TypeOK, Proc
    <3> QED BY <1>5, <2>2, <3>1 DEF Forward
  <2>3. CASE KillClient(c)
    BY <1>4, <2>3 DEF KillClient, Proc
  <2>4. ASSUME NEW goal \in Goals[c], Command(c, goal)
        PROVE  UNCHANGED ops
    BY <2>4 DEF Command
  <2>5. \/ Probe(c) \/ ProbeUnlock(c) \/ ReadRecord(c) \/ GiveUp(c) \/ Start(c) \/ AwaitUp(c)
        \/ Stop(c) \/ AwaitDown(c) \/ Answer(c) \/ Timeout(c)
        => UNCHANGED ops
    BY DEF Probe, ProbeUnlock, ReadRecord, GiveUp, Start, AwaitUp, Stop, AwaitDown, Answer,
      Timeout
  <2> QED BY <1>1, <1>7, <2>1, <2>2, <2>3, <2>4, <2>5 DEF ClientStep
<1> QED BY <1>6, <1>7

LEMMA LockInductive == Spec => [](LockInv /\ JournalInv)
<1>1. Init => LockInv /\ JournalInv
  BY RuntimeConstants DEF Init, LockInv, JournalInv, Active, Blocking
<1>2. TypeOK /\ (LockInv /\ JournalInv) /\ [Next]_vars => (LockInv /\ JournalInv)'
  <2> SUFFICES ASSUME TypeOK, LockInv, JournalInv, [Next]_vars PROVE LockInv' /\ JournalInv'
    OBVIOUS
  <2>1. CASE Next
    BY <2>1, CommandKeepsLock, OthersKeepLock DEF Next
  <2>2. CASE UNCHANGED vars
    BY <2>2 DEF vars, ops, LockInv, JournalInv, Active, Blocking
  <2> QED BY <2>1, <2>2
<1> QED BY <1>1, <1>2, RuntimeTypeCorrect, PTL DEF Spec

\* However a daemon, a command or a command line ends, it leaves no lock behind:
\* MutationGuard, OwnerGuard and the probe of active_owner.
THEOREM LocksAreFreed == Spec => []NoLockIsLeaked
<1>1. TypeOK /\ OwnerInv /\ LockInv => NoLockIsLeaked
  BY DEF TypeOK, OwnerInv, LockInv, NoLockIsLeaked, Proc
<1> QED BY <1>1, RuntimeTypeCorrect, OwnerInductive, LockInductive, PTL

\* The journal never holds two prepared operations: blocking_operations and
\* OperationHandle::begin are two steps, but under one lock.
THEOREM OnePrepared == Spec => []AtMostOnePrepared
<1>1. JournalInv => AtMostOnePrepared
  BY DEF JournalInv, AtMostOnePrepared
<1> QED BY <1>1, LockInductive, PTL

\* Nobody changes anything over what an interrupted command has left half made.
THEOREM NothingOverInterrupted == Spec => []NoMutationOverInterrupted
<1>1. TypeOK /\ JournalInv => NoMutationOverInterrupted
  BY DEF TypeOK, JournalInv, NoMutationOverInterrupted, Blocking
<1> QED BY <1>1, RuntimeTypeCorrect, LockInductive, PTL

\* Changes are made one at a time and on finished ones only, for any number of daemons and
\* command lines that come and go: the mutation lock and the journal together.
THEOREM ChangesTakeTurns == Spec => []OneChangeAtATime
BY OnePrepared, NothingOverInterrupted, PTL DEF OneChangeAtATime

=============================================================================
