--------------------------- MODULE GatewayService ---------------------------
(***************************************************************************)
(* The life of the gateway in one process: callers (interface, command     *)
(* line requests, start-up) read and write the stored configuration and    *)
(* send commands to one worker, which starts and stops the server task     *)
(* and the periodic prober and publishes the port that status() reports.   *)
(***************************************************************************)
EXTENDS Naturals, Sequences

CONSTANTS
  Client,     \* concurrent callers in the process
  Server,     \* identities of server tasks
  Port, None,
  Interval,   \* health_interval_secs; 0 switches the prober off
  Default,    \* GatewayConfig::default(), for a store that cannot be read
  Found,      \* the configurations the first process may find stored
  MaxOps,     \* bound on the operations begun
  MaxFaults   \* bound on faults, and on what other programs do

Config == [enabled : BOOLEAN, port : Port, interval : Interval]

ASSUME ServiceConstants ==
  /\ Interval \subseteq Nat /\ 0 \in Interval /\ None \notin Port \cup Server \cup Client
  /\ Default \in Config /\ Found \subseteq Config /\ MaxOps \in Nat /\ MaxFaults \in Nat

VARIABLES
  host,     \* the process: a daemon takes one request at a time, the application many
  stored,   \* the configuration in the database
  live,     \* GatewayState.config
  inbox,    \* the clients whose command waits in the channel
  worker,   \* what the worker does, and for whom
  tx,       \* shutdown_tx is there
  handle,   \* server_handle
  server,   \* the server tasks
  shown,    \* running_port
  held,     \* the interval of prober_handle's task, 0 without one
  probers,  \* the intervals of the probers that run
  client,
  taken,    \* ports other programs listen on
  failed,   \* what has gone wrong since the process started
  ops, faults

task == <<tx, handle, server, shown>>
probing == <<held, probers>>
vars == <<host, stored, live, inbox, worker, task, probing, client, taken, failed, ops, faults>>

\* What each caller does, in order.
Steps ==
  [none      |-> <<>>,
   enable    |-> <<"read", "write", "reload", "start">>,
   disable   |-> <<"read", "write", "reload", "stop">>,
   configure |-> <<"read", "write", "reload">>,
   restart   |-> <<"stop", "read", "write", "reload", "start">>,
   connect   |-> <<"read", "write", "start">>,
   autostart |-> <<"read", "start">>,
   serve     |-> <<"start">>,
   close     |-> <<"stop">>]

Command == {"start", "stop", "reload"}
Idle == [op |-> "none", at |-> 1, cfg |-> Default, asking |-> FALSE]
Rest == [pc |-> "idle", from |-> None, cfg |-> Default]

\* The step a client is at; "end" when it has made all of them.
At(c) == IF client[c].at \in DOMAIN Steps[client[c].op]
         THEN Steps[client[c].op][client[c].at] ELSE "end"
Ended == [port |-> Default.port, phase |-> "finished"]
WorkerState == {"off", "idle", "start", "bind", "publish", "stop", "join", "reload"}
Phase == {"serving", "draining", "returned", "cleared", "finished"}

TypeOK ==
  /\ host \in {"daemon", "desktop"}
  /\ stored \in Config /\ live \in Config
  /\ inbox \in Seq(Client)
  /\ worker \in [pc : WorkerState, from : Client \cup {None}, cfg : Config]
  /\ tx \in BOOLEAN /\ handle \in Server \cup {None}
  /\ server \in [Server -> [port : Port, phase : Phase]]
  /\ shown \in Port \cup {None}
  /\ held \in Interval /\ probers \subseteq Interval
  /\ client \in [Client -> [op : DOMAIN Steps, at : 1 .. 7, cfg : Config, asking : BOOLEAN]]
  /\ taken \subseteq Port /\ failed \subseteq {"db", "server", "port", "beside"}
  /\ ops \in 0 .. MaxOps /\ faults \in 0 .. MaxFaults

Init ==
  /\ host \in {"daemon", "desktop"}
  /\ stored \in Found /\ live = Default
  /\ inbox = <<>> /\ worker = [Rest EXCEPT !.pc = "off"]
  /\ tx = FALSE /\ handle = None /\ shown = None
  /\ server = [t \in Server |-> Ended]
  /\ held = 0 /\ probers = {}
  /\ client = [c \in Client |-> Idle]
  /\ taken = {} /\ failed = {} /\ ops = 0 /\ faults = 0

Listening == {t \in Server : server[t].phase = "serving"}
Fault(kind) == /\ faults < MaxFaults /\ faults' = faults + 1
               /\ failed' = failed \cup {kind}

-----------------------------------------------------------------------------
(* Callers *)

\* The client goes on after its step, or gives up the rest of its operation.
Goto(c, at) == [client[c] EXCEPT !.at = at, !.cfg = Default, !.asking = FALSE]
Onward(c) == Goto(c, client[c].at + 1)
GiveUp(c) == Goto(c, 7)

\* daemon.rs handles requests under one mutex, after start-up, and closes the gateway
\* when its loop ends, whatever is still being handled; the application's tasks run
\* side by side, with its start-up too.
MayBegin(op) ==
  \/ host = "desktop" /\ op \in {"enable", "disable", "connect"}
  \/ /\ host = "daemon" /\ op \in {"enable", "disable", "configure", "restart"}
     /\ \A d \in Client : client[d] = Idle
  \/ /\ host = "daemon" /\ op = "close"
     /\ \A d \in Client : client[d].op \notin {"autostart", "serve", "close"}

Begin(c, op) ==
  /\ worker.pc # "off" /\ client[c] = Idle /\ MayBegin(op)
  /\ client' = [client EXCEPT ![c].op = op]
  /\ IF op = "close" THEN UNCHANGED ops ELSE ops < MaxOps /\ ops' = ops + 1
  /\ UNCHANGED <<host, stored, live, inbox, worker, task, probing, taken, failed, faults>>

\* What a caller writes once it has read cfg; {} when there is nothing to change.
Wanted(op, cfg) ==
  CASE op \in {"enable", "restart", "connect"} -> {[cfg EXCEPT !.enabled = TRUE]} \ {cfg}
    [] op = "disable" -> {[cfg EXCEPT !.enabled = FALSE]} \ {cfg}
    [] op = "configure" -> Config
    [] OTHER -> {}

\* Mutant of Read: start-up starts the gateway whatever is stored.
ReadAndStart(c) ==
  /\ At(c) = "read"
  /\ \/ \E cfg \in Wanted(client[c].op, stored) :
          client' = [client EXCEPT ![c] = [Onward(c) EXCEPT !.cfg = cfg]]
     \/ /\ Wanted(client[c].op, stored) = {}
        /\ client' = [client EXCEPT ![c] = Goto(c, Len(Steps[client[c].op]))]
  /\ UNCHANGED <<host, stored, live, inbox, worker, task, probing, taken, failed, ops, faults>>

\* persist_gateway_enabled and the interface's connect read the whole configuration
\* and skip the write (and the reload) when the flag is right already; autostart
\* goes on only if it is set.
Read(c) ==
  /\ At(c) = "read"
  /\ LET op == client[c].op
         k == Len(Steps[op])
     IN \/ \E cfg \in Wanted(op, stored) :
             client' = [client EXCEPT ![c] = [Onward(c) EXCEPT !.cfg = cfg]]
        \/ /\ Wanted(op, stored) = {}
           /\ client' = [client EXCEPT ![c] =
                Goto(c, IF op = "autostart" /\ ~stored.enabled THEN k + 1 ELSE k)]
  /\ UNCHANGED <<host, stored, live, inbox, worker, task, probing, taken, failed, ops, faults>>

\* set_setting writes the whole blob, whatever was stored since the read.
Write(c) ==
  /\ At(c) = "write"
  /\ stored' = client[c].cfg /\ client' = [client EXCEPT ![c] = Onward(c)]
  /\ UNCHANGED <<host, live, inbox, worker, task, probing, taken, failed, ops, faults>>

\* The database fails the read or the write.
StoreFails(c) ==
  /\ At(c) \in {"read", "write"} /\ Fault("db")
  /\ client' = [client EXCEPT ![c] = GiveUp(c)]
  /\ UNCHANGED <<host, stored, live, inbox, worker, task, probing, taken, ops>>

Send(c) ==
  /\ At(c) \in Command /\ ~client[c].asking
  /\ inbox' = Append(inbox, c) /\ client' = [client EXCEPT ![c].asking = TRUE]
  /\ UNCHANGED <<host, stored, live, worker, task, probing, taken, failed, ops, faults>>

\* The operation returns; a daemon that has closed its gateway ends.
Return(c) ==
  /\ client[c].op \notin {"none", "close"} /\ At(c) = "end"
  /\ client' = [client EXCEPT ![c] = Idle]
  /\ UNCHANGED <<host, stored, live, inbox, worker, task, probing, taken, failed, ops, faults>>

-----------------------------------------------------------------------------
(* The worker: GatewayWorker::run, one command at a time *)

\* The answer that ends a command: an error makes the caller give up.
Answer(ok) ==
  /\ worker' = Rest
  /\ client' = [client EXCEPT ![worker.from] =
                  IF ok THEN Onward(worker.from) ELSE GiveUp(worker.from)]

AbortProber == held' = 0 /\ probers' = probers \ {held}

\* Mutant of RestartProber: the old prober is left running.
RestartProberBeside(cfg) == held' = cfg.interval /\ probers' = probers \cup ({cfg.interval} \ {0})

RestartProber(cfg) ==
  /\ held' = cfg.interval
  /\ probers' = (probers \ {held}) \cup ({cfg.interval} \ {0})

\* start and stop first reap_finished_server: a server that ended on its own leaves
\* its sender, its prober and perhaps its port behind.
Finished == handle # None /\ server[handle].phase = "finished"

Reap ==
  IF Finished THEN /\ tx' = FALSE /\ handle' = None /\ shown' = None /\ AbortProber
                   /\ UNCHANGED server
              ELSE UNCHANGED <<task, probing>>

Receive ==
  /\ worker.pc = "idle" /\ inbox # <<>>
  /\ inbox' = Tail(inbox)
  /\ LET command == At(Head(inbox))
     IN /\ worker' = [Rest EXCEPT !.pc = command, !.from = Head(inbox)]
        /\ IF command = "reload" THEN UNCHANGED <<task, probing>> ELSE Reap
  /\ UNCHANGED <<host, stored, live, client, taken, failed, ops, faults>>

\* "Repeated or racing start requests are idempotent": whatever is there is reported.
AlreadyStarted ==
  /\ worker.pc = "start" /\ tx /\ Answer(TRUE)
  /\ UNCHANGED <<host, stored, live, inbox, task, probing, taken, failed, ops, faults>>

\* Mutant of LoadConfig: a start does not look for a server that is there.
LoadConfigAlways ==
  /\ worker.pc = "start"
  /\ live' = stored /\ worker' = [worker EXCEPT !.pc = "bind", !.cfg = stored]
  /\ UNCHANGED <<host, stored, inbox, task, probing, client, taken, failed, ops, faults>>

\* reload_config inside start: no prober yet, for there is no sender.
LoadConfig ==
  /\ worker.pc = "start" /\ ~tx
  /\ live' = stored /\ worker' = [worker EXCEPT !.pc = "bind", !.cfg = stored]
  /\ UNCHANGED <<host, stored, inbox, task, probing, client, taken, failed, ops, faults>>

\* reload_config fails before it changes anything.
LoadFails ==
  /\ \/ worker.pc = "reload"
     \/ worker.pc = "start" /\ ~tx
  /\ Fault("db") /\ Answer(FALSE)
  /\ UNCHANGED <<host, stored, live, inbox, task, probing, taken, ops>>

Bound == taken \cup {server[t].port : t \in Listening}

\* Bind and spawn; the task runs from now on, its port is not yet published.
BindAndSpawn ==
  /\ worker.pc = "bind" /\ worker.cfg.port \notin Bound
  /\ \E t \in Server \ {handle} :
       /\ server[t].phase = "finished"
       /\ server' = [server EXCEPT ![t] = [port |-> worker.cfg.port, phase |-> "serving"]]
       /\ handle' = t
  /\ tx' = TRUE /\ worker' = [worker EXCEPT !.pc = "publish"]
  /\ UNCHANGED <<host, stored, live, inbox, shown, probing, client, taken, failed, ops, faults>>

BindFails ==
  /\ worker.pc = "bind" /\ worker.cfg.port \in Bound /\ Answer(FALSE)
  /\ UNCHANGED <<host, stored, live, inbox, task, probing, taken, failed, ops, faults>>

Publish ==
  /\ worker.pc = "publish"
  /\ shown' = worker.cfg.port /\ RestartProber(worker.cfg) /\ Answer(TRUE)
  /\ UNCHANGED <<host, stored, live, inbox, tx, handle, server, taken, failed, ops, faults>>

AlreadyStopped ==
  /\ worker.pc = "stop" /\ ~tx /\ Answer(TRUE)
  /\ UNCHANGED <<host, stored, live, inbox, task, probing, taken, failed, ops, faults>>

Signal == [server EXCEPT ![handle].phase = IF @ = "serving" THEN "draining" ELSE @]

\* The server is told to finish what it serves; its listener closes at once.
TellServer ==
  /\ worker.pc = "stop" /\ tx
  /\ tx' = FALSE /\ AbortProber /\ server' = Signal
  /\ worker' = [worker EXCEPT !.pc = "join"]
  /\ UNCHANGED <<host, stored, live, inbox, handle, shown, client, taken, failed, ops, faults>>

\* Mutant of Joined: the caller is answered without waiting for the task.
JoinedEarly ==
  /\ worker.pc = "join"
  /\ handle' = None /\ shown' = None /\ Answer(TRUE)
  /\ UNCHANGED <<host, stored, live, inbox, tx, server, probing, taken, failed, ops, faults>>

\* Mutant of Joined: the port of an aborted task stays published.
JoinedShown ==
  /\ worker.pc = "join"
  /\ server' = [server EXCEPT ![handle] = Ended]
  /\ handle' = None /\ UNCHANGED shown /\ Answer(TRUE)
  /\ UNCHANGED <<host, stored, live, inbox, tx, probing, taken, failed, ops, faults>>

\* Mutant of Joined: the task is waited for without a time limit.
JoinedWhenEnded ==
  /\ worker.pc = "join" /\ server[handle].phase = "finished"
  /\ handle' = None /\ shown' = None /\ Answer(TRUE)
  /\ UNCHANGED <<host, stored, live, inbox, tx, server, probing, taken, failed, ops, faults>>

\* The task has ended, or five seconds have passed and it is aborted.
Joined ==
  /\ worker.pc = "join"
  /\ server' = [server EXCEPT ![handle] = Ended]
  /\ handle' = None /\ shown' = None /\ Answer(TRUE)
  /\ UNCHANGED <<host, stored, live, inbox, tx, probing, taken, failed, ops, faults>>

Reload ==
  /\ worker.pc = "reload"
  /\ live' = stored /\ (IF tx THEN RestartProber(stored) ELSE UNCHANGED probing) /\ Answer(TRUE)
  /\ UNCHANGED <<host, stored, inbox, task, taken, failed, ops, faults>>

-----------------------------------------------------------------------------
(* The server task *)

Turn(t, from, to) == server[t].phase = from /\ server' = [server EXCEPT ![t].phase = to]

\* axum::serve returns: what it served is finished, or it fails.
ServerReturns(t) ==
  /\ \/ Turn(t, "draining", "returned") /\ UNCHANGED <<failed, faults>>
     \/ Turn(t, "serving", "returned") /\ Fault("server")
  /\ UNCHANGED <<host, stored, live, inbox, worker, tx, handle, shown, probing, client, taken, ops>>

\* Mutant of ClearPort: port 0 for no port.
ClearPortToZero(t) ==
  /\ Turn(t, "returned", "cleared")
  /\ shown' = IF shown = server[t].port THEN 0 ELSE shown
  /\ UNCHANGED <<host, stored, live, inbox, worker, tx, handle, probing, client, taken,
                 failed, ops, faults>>

\* The task clears the port if it is still its own.
ClearPort(t) ==
  /\ Turn(t, "returned", "cleared")
  /\ shown' = IF shown = server[t].port THEN None ELSE shown
  /\ UNCHANGED <<host, stored, live, inbox, worker, tx, handle, probing, client, taken,
                 failed, ops, faults>>

TaskEnds(t) ==
  /\ server[t].phase = "cleared" /\ server' = [server EXCEPT ![t] = Ended]
  /\ UNCHANGED <<host, stored, live, inbox, worker, tx, handle, shown, probing, client, taken,
                 failed, ops, faults>>

-----------------------------------------------------------------------------
(* The process, and what is around it *)

Gone(pc) ==
  /\ worker' = [Rest EXCEPT !.pc = pc] /\ inbox' = <<>>
  /\ tx' = FALSE /\ handle' = None /\ shown' = None
  /\ server' = [t \in Server |-> Ended]
  /\ held' = 0 /\ probers' = {}

\* GatewayService::new, then start-up: autostart, or a forced start.
Boot(c, op, ok) ==
  /\ worker.pc = "off"
  /\ op \in {"autostart"} \cup (IF host = "daemon" THEN {"serve"} ELSE {})
  /\ worker' = Rest
  /\ \/ ok /\ live' = stored /\ failed' = {} /\ UNCHANGED faults
     \/ ~ok /\ live' = Default /\ faults < MaxFaults /\ faults' = faults + 1 /\ failed' = {"db"}
  /\ client' = [client EXCEPT ![c] = [Idle EXCEPT !.op = op]]
  /\ UNCHANGED <<host, stored, inbox, task, probing, taken, ops>>

\* The last owner drops the service: shutdown_now, and the worker thread is joined.
ShutdownNow ==
  /\ worker.pc = "idle" /\ inbox = <<>>
  /\ \/ host = "desktop" /\ \A c \in Client : client[c] = Idle
     \/ \E c \in Client : client[c].op = "close" /\ At(c) = "end"
  /\ Gone("off") /\ client' = [c \in Client |-> Idle]
  /\ UNCHANGED <<host, stored, live, taken, failed, ops, faults>>

\* The process is killed.
Crash ==
  /\ worker.pc # "off" /\ faults < MaxFaults /\ faults' = faults + 1
  /\ Gone("off") /\ client' = [c \in Client |-> Idle]
  /\ UNCHANGED <<host, stored, live, taken, failed, ops>>

\* Another program takes a port, or leaves it.
Occupy(p) ==
  /\ p \notin Bound /\ Fault("port") /\ taken' = taken \cup {p}
  /\ UNCHANGED <<host, stored, live, inbox, worker, task, probing, client, ops>>
Vacate(p) ==
  /\ p \in taken /\ taken' = taken \ {p}
  /\ UNCHANGED <<host, stored, live, inbox, worker, task, probing, client, failed, ops, faults>>

\* A command-line process sets the configuration in the database; its reload
\* reaches the gateway of its own process only.
ConfigureBeside ==
  /\ Fault("beside") /\ stored' \in Config \ {stored}
  /\ UNCHANGED <<host, live, inbox, worker, task, probing, client, taken, ops>>

-----------------------------------------------------------------------------
ClientStep(c) == Read(c) \/ Write(c) \/ Send(c) \/ Return(c)
Work == \/ Receive \/ AlreadyStarted \/ LoadConfig \/ BindAndSpawn \/ BindFails \/ Publish
        \/ AlreadyStopped \/ TellServer \/ Joined \/ Reload
Environment ==
  \/ LoadFails \/ Crash \/ ConfigureBeside \/ ShutdownNow
  \/ \E p \in Port : Occupy(p) \/ Vacate(p)
  \/ \E c \in Client, op \in {"autostart", "serve"}, ok \in BOOLEAN : Boot(c, op, ok)
Next ==
  \/ \E c \in Client, op \in DOMAIN Steps : Begin(c, op)
  \/ \E c \in Client : ClientStep(c) \/ StoreFails(c)
  \/ Work
  \/ \E t \in Server : ServerReturns(t) \/ ClearPort(t) \/ TaskEnds(t)
  \/ Environment

Spec == Init /\ [][Next]_vars

-----------------------------------------------------------------------------
(* Safety *)

Alive == {t \in Server : server[t].phase # "finished"}
Quiet == worker.pc = "idle" /\ inbox = <<>> /\ \A c \in Client : client[c] = Idle

\* However starts, stops, failures of the server and its five-second abort follow
\* each other, there is at most one server task, and it is the one the worker can
\* still stop.
OneServer == \A t \in Alive : t = handle

\* What status() says, outside of the moments between spawn and publication and
\* between the signal and the end of the task: whoever listens is shown with the
\* port it really has, whatever the configuration says by now; and unless a server
\* has failed on its own, a port that is shown is listened on.
StatusIsTrue ==
  worker.pc \notin {"publish", "join"} =>
    /\ \A t \in Listening : shown = server[t].port
    /\ shown # None /\ "server" \notin failed => \E t \in Listening : server[t].port = shown

\* When every caller has been answered and neither the database nor another process
\* has interfered, the configuration in force is the stored one, and one prober
\* runs, at its interval, exactly while there is a server to probe for.
ConfigInForce ==
  Quiet /\ failed \cap {"db", "beside"} = {} =>
    /\ live.port = stored.port /\ live.interval = stored.interval
    /\ probers = (IF tx THEN {stored.interval} \ {0} ELSE {})

\* An operation of the daemon that has ended well has left both the intent and the
\* listener as it says, and start-up after any close or crash follows the intent
\* the last of them stored.
Succeeded(c, S) == client[c].op \in S /\ At(c) = "end" /\ client[c].at # 7
IntentIsFollowed ==
  \A c \in Client :
    host = "daemon" /\ failed \cap {"server", "beside"} = {}
      /\ (\A d \in Client \ {c} : client[d] = Idle) =>
      /\ Succeeded(c, {"enable", "restart"}) => stored.enabled /\ Listening # {}
      /\ Succeeded(c, {"disable"}) => ~stored.enabled /\ Listening = {}
      /\ Succeeded(c, {"autostart"}) => (stored.enabled <=> Listening # {})

\* An answer says what is so: after a stop nobody listens or probes, and after a
\* start, first or repeated, the port in the answer is the one listened on.
Answered(c, step) ==
  /\ worker.from = c /\ worker' = Rest /\ client'[c].at = client[c].at + 1
  /\ At(c) = step
AnswersAreTrue ==
  [][\A c \in Client :
       /\ Answered(c, "stop") => Alive' = {} /\ probers' = {}
       /\ Answered(c, "start") /\ "server" \notin failed =>
            \E t \in Listening' : server'[t].port = shown']_vars

-----------------------------------------------------------------------------
(* Liveness *)

\* Threads and tasks run on, and the five seconds of a stop pass; nothing obliges a
\* server that serves to end, and no fault has to happen.
Fairness ==
  /\ WF_vars(Work)
  /\ \A c \in Client : WF_vars(ClientStep(c))
FairSpec == Spec /\ Fairness

\* Whatever the server does with the requests it still has, every caller is answered.
OperationsEnd == \A c \in Client : client[c].op # "none" ~> client[c].op \in {"none", "close"}
=============================================================================
