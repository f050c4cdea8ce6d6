------------------------ MODULE GatewayServiceProofs ------------------------
(* Theorems about GatewayService, for any number of callers, server tasks and ports. *)
EXTENDS GatewayService, TLAPS

(***************************************************************************)
(* Types, and who waits for the worker                                     *)
(***************************************************************************)

ClientRec == [op : DOMAIN Steps, at : 1 .. 7, cfg : Config, asking : BOOLEAN]

\* The callers' step the worker is busy with.
Task(pc) == CASE pc \in {"start", "bind", "publish"} -> "start"
              [] pc \in {"stop", "join"} -> "stop"
              [] OTHER -> "reload"
Busy == worker.pc \notin {"off", "idle"}

\* Whoever is in the channel, or is being served, is at that step, asks once, and
\* waits.
InboxInv ==
  /\ \A i \in DOMAIN inbox : client[inbox[i]].asking /\ At(inbox[i]) \in Command
  /\ \A i, j \in DOMAIN inbox : inbox[i] = inbox[j] => i = j
  /\ Busy => /\ worker.from \in Client /\ client[worker.from].asking
             /\ At(worker.from) = Task(worker.pc)
             /\ \A i \in DOMAIN inbox : inbox[i] # worker.from
  /\ worker.pc = "off" => inbox = <<>> /\ \A c \in Client : client[c] = Idle

LEMMA StepsShape ==
  /\ DOMAIN Steps = {"none", "enable", "disable", "configure", "restart", "connect",
                     "autostart", "serve", "close"}
  /\ \A op \in DOMAIN Steps : DOMAIN Steps[op] \subseteq 1 .. 5 /\ Len(Steps[op]) \in 0 .. 5
BY DEF Steps

LEMMA AtShape ==
  ASSUME TypeOK, NEW c \in Client, At(c) # "end"
  PROVE  client[c].at \in 1 .. 5
BY StepsShape DEF At, TypeOK

LEMMA IdleIsClient == Idle \in ClientRec
BY ServiceConstants, StepsShape DEF Idle, ClientRec

LEMMA GotoIsClient ==
  ASSUME TypeOK, NEW c \in Client
  PROVE  /\ \A at \in 1 .. 7 : Goto(c, at) \in ClientRec /\ ~Goto(c, at).asking
         /\ GiveUp(c) \in ClientRec
         /\ At(c) # "end" => Onward(c) \in ClientRec
<1>1. client[c] \in ClientRec
  BY DEF TypeOK, ClientRec
<1>2. \A at \in 1 .. 7 : Goto(c, at) \in ClientRec /\ ~Goto(c, at).asking
  BY <1>1, ServiceConstants DEF Goto, ClientRec
<1>3. At(c) # "end" => client[c].at + 1 \in 1 .. 7
  BY AtShape
<1> QED BY <1>2, <1>3 DEF GiveUp, Onward

\* The part of the types the actions change together.
LEMMA ClientSets ==
  ASSUME TypeOK, NEW c \in Client, NEW r \in ClientRec, client' = [client EXCEPT ![c] = r]
  PROVE  /\ client' \in [Client -> ClientRec] /\ client'[c] = r
         /\ \A d \in Client \ {c} : client'[d] = client[d] /\ At(d)' = At(d)
BY DEF TypeOK, ClientRec, At

LEMMA RestType == Rest \in [pc : WorkerState, from : Client \cup {None}, cfg : Config]
BY ServiceConstants DEF Rest, WorkerState

\* An answer leaves the types and the channel as they should be.
LEMMA AnswerKeeps ==
  ASSUME TypeOK, InboxInv, Busy, NEW ok \in BOOLEAN, Answer(ok), UNCHANGED inbox
  PROVE  /\ client' \in [Client -> ClientRec] /\ InboxInv'
         /\ worker' \in [pc : WorkerState, from : Client \cup {None}, cfg : Config]
<1> DEFINE c == worker.from
           r == IF ok THEN Onward(c) ELSE GiveUp(c)
<1>1. c \in Client /\ At(c) \in Command
  BY DEF InboxInv, Task, Command
<1>2. r \in ClientRec /\ client' = [client EXCEPT ![c] = r]
  BY <1>1, GotoIsClient DEF Answer, Command
<1> HIDE DEF r
<1>3. client' \in [Client -> ClientRec] /\ \A d \in Client \ {c} : client'[d] = client[d] /\ At(d)' = At(d)
  BY <1>1, <1>2, ClientSets
<1>4. \A i \in DOMAIN inbox : inbox[i] \in Client /\ inbox[i] # c
  BY DEF InboxInv, TypeOK
<1>5. worker' = Rest /\ ~Busy' /\ worker'.pc # "off"
  BY DEF Answer, Rest, Busy
<1> QED BY <1>3, <1>4, <1>5, RestType DEF InboxInv

LEMMA IdleIsAtEnd == ASSUME NEW c \in Client, client[c] = Idle PROVE At(c) = "end"
<1>1. client[c].op = "none" /\ DOMAIN Steps["none"] = {}
  BY DEF Idle, Steps
<1> QED BY <1>1 DEF At

\* A caller that is not asking may move as it likes.
LEMMA MoveKeeps ==
  ASSUME TypeOK, InboxInv, NEW c \in Client, NEW r \in ClientRec, ~client[c].asking, worker.pc # "off",
         client' = [client EXCEPT ![c] = r], UNCHANGED <<inbox, worker>>
  PROVE  client' \in [Client -> ClientRec] /\ InboxInv'
<1>1. /\ client' \in [Client -> ClientRec]
      /\ \A d \in Client \ {c} : client'[d] = client[d] /\ At(d)' = At(d)
  BY ClientSets
<1>2. \A i \in DOMAIN inbox : inbox[i] \in Client \ {c}
  BY DEF InboxInv, TypeOK
<1>3. Busy => worker.from \in Client \ {c}
  BY DEF InboxInv
<1> QED BY <1>1, <1>2, <1>3 DEF InboxInv, Busy

LEMMA ClientTypes ==
  ASSUME TypeOK, InboxInv, NEW c \in Client,
         \/ ClientStep(c) \/ StoreFails(c)
         \/ \E op \in DOMAIN Steps : Begin(c, op)
  PROVE  TypeOK' /\ InboxInv'
<1> USE DEF task, probing
<1>1. ASSUME NEW op \in DOMAIN Steps, Begin(c, op)
      PROVE  TypeOK' /\ InboxInv'
  <2>1. [client[c] EXCEPT !.op = op] \in ClientRec /\ ~client[c].asking
    <3>1. client[c] \in ClientRec /\ client[c] = Idle
      BY <1>1, IdleIsClient DEF Begin
    <3>2. [client[c] EXCEPT !.op = op] \in ClientRec
      BY <3>1 DEF ClientRec
    <3> QED BY <3>1, <3>2 DEF Idle
  <2>2. /\ client' = [client EXCEPT ![c] = [client[c] EXCEPT !.op = op]]
        /\ worker.pc # "off" /\ UNCHANGED <<inbox, worker>>
    BY <1>1 DEF Begin
  <2>3. client' \in [Client -> ClientRec] /\ InboxInv'
    BY <2>1, <2>2, MoveKeeps
  <2>4. ops' \in 0 .. MaxOps
    BY <1>1, ServiceConstants DEF Begin, TypeOK
  <2> QED BY <1>1, <2>3, <2>4 DEF Begin, TypeOK, ClientRec
<1>2. At(c) \in {"read", "write", "end"} /\ Busy => worker.from # c
  BY DEF InboxInv, Task
<1>9. client[c].op # "none" => worker.pc # "off"
  BY DEF InboxInv, Idle
<1>10. At(c) # "end" => worker.pc # "off"
  BY IdleIsAtEnd DEF InboxInv
<1>3. ASSUME At(c) \in {"read", "write", "end"}, worker.pc # "off", NEW r \in ClientRec, ~r.asking,
             client' = [client EXCEPT ![c] = r], UNCHANGED <<inbox, worker>>
      PROVE  client' \in [Client -> ClientRec] /\ InboxInv'
  <2>1. /\ client' \in [Client -> ClientRec]
        /\ \A d \in Client \ {c} : client'[d] = client[d] /\ At(d)' = At(d)
    BY <1>3, ClientSets
  <2>2. \A i \in DOMAIN inbox : inbox[i] \in Client \ {c}
    BY <1>3 DEF InboxInv, TypeOK, Command
  <2> QED BY <1>2, <1>3, <2>1, <2>2 DEF InboxInv, Busy
<1>4. CASE Read(c)
  <2>1. PICK r \in ClientRec : ~r.asking /\ client' = [client EXCEPT ![c] = r]
    <3>1. ASSUME NEW cfg \in Wanted(client[c].op, stored),
                 client' = [client EXCEPT ![c] = [Onward(c) EXCEPT !.cfg = cfg]]
          PROVE  \E r \in ClientRec : ~r.asking /\ client' = [client EXCEPT ![c] = r]
      <4>1. cfg \in Config
        BY <3>1 DEF Wanted, TypeOK, Config
      <4>2. Onward(c) \in ClientRec /\ ~Onward(c).asking
        BY <1>4, GotoIsClient, AtShape DEF Read, Onward
      <4> DEFINE r == [Onward(c) EXCEPT !.cfg = cfg]
      <4>3. r \in ClientRec /\ ~r.asking
        BY <4>1, <4>2 DEF ClientRec
      <4> QED BY <3>1, <4>3
    <3>2. ASSUME NEW at \in 1 .. 7, client' = [client EXCEPT ![c] = Goto(c, at)]
          PROVE  \E r \in ClientRec : ~r.asking /\ client' = [client EXCEPT ![c] = r]
      BY <3>2, GotoIsClient
    <3>3. client[c].op # "none"
      BY <1>4 DEF Read, At, Steps
    <3> DEFINE k == Len(Steps[client[c].op])
               at == IF client[c].op = "autostart" /\ ~stored.enabled THEN k + 1 ELSE k
    <3>4. k \in 1 .. 5
      <4>1. client[c].op \in DOMAIN Steps
        BY DEF TypeOK
      <4> QED BY <3>3, <4>1 DEF Steps
    <3>6. \/ \E cfg \in Wanted(client[c].op, stored) :
               client' = [client EXCEPT ![c] = [Onward(c) EXCEPT !.cfg = cfg]]
          \/ client' = [client EXCEPT ![c] = Goto(c, at)]
      BY <1>4 DEF Read
    <3> HIDE DEF k
    <3>5. at \in 1 .. 7
      BY <3>4
    <3> QED BY <3>1, <3>2, <3>5, <3>6
  <2>2. client' \in [Client -> ClientRec] /\ InboxInv'
    BY <1>3, <1>4, <1>10, <2>1 DEF Read
  <2> QED BY <1>4, <2>2 DEF Read, TypeOK, ClientRec
<1>5. CASE Write(c)
  <2>1. Onward(c) \in ClientRec /\ ~Onward(c).asking
    BY <1>5, GotoIsClient, AtShape DEF Write, Onward
  <2>2. client' \in [Client -> ClientRec] /\ InboxInv'
    BY <1>3, <1>5, <1>10, <2>1 DEF Write
  <2> QED BY <1>5, <2>2 DEF Write, TypeOK, ClientRec
<1>6. CASE StoreFails(c)
  <2>1. GiveUp(c) \in ClientRec /\ ~GiveUp(c).asking
    BY GotoIsClient DEF GiveUp
  <2>2. client' \in [Client -> ClientRec] /\ InboxInv'
    BY <1>3, <1>6, <1>10, <2>1 DEF StoreFails
  <2> QED BY <1>6, <2>2, ServiceConstants DEF StoreFails, Fault, TypeOK, ClientRec
<1>7. CASE Return(c)
  <2>1. Idle \in ClientRec /\ ~Idle.asking
    BY IdleIsClient DEF Idle
  <2>2. client' \in [Client -> ClientRec] /\ InboxInv'
    BY <1>3, <1>7, <1>9, <2>1 DEF Return
  <2> QED BY <1>7, <2>2 DEF Return, TypeOK, ClientRec
<1>8. CASE Send(c)
  <2> DEFINE r == [client[c] EXCEPT !.asking = TRUE]
  <2>1. r \in ClientRec /\ r.asking /\ r.op = client[c].op /\ r.at = client[c].at
    BY DEF TypeOK, ClientRec
  <2>2. client' = [client EXCEPT ![c] = r]
    BY <1>8 DEF Send
  <2> HIDE DEF r
  <2>3. /\ client' \in [Client -> ClientRec] /\ client'[c] = r
        /\ \A d \in Client \ {c} : client'[d] = client[d] /\ At(d)' = At(d)
    BY <2>1, <2>2, ClientSets
  <2>4. At(c)' = At(c) /\ client'[c].asking
    BY <2>1, <2>3 DEF At
  <2>5. inbox' = Append(inbox, c) /\ inbox \in Seq(Client) /\ ~client[c].asking
    BY <1>8 DEF Send, TypeOK
  <2>6. \A i \in DOMAIN inbox : inbox[i] \in Client \ {c}
    BY <2>5 DEF InboxInv
  <2>7. /\ inbox' \in Seq(Client) /\ DOMAIN inbox' = DOMAIN inbox \cup {Len(inbox) + 1}
        /\ \A i \in DOMAIN inbox : inbox'[i] = inbox[i]
        /\ inbox'[Len(inbox) + 1] = c
    BY <2>5
  <2>8. Busy => worker.from # c
    BY <2>5 DEF InboxInv
  <2>9. worker.pc # "off"
    BY <1>8, <1>10 DEF Send, Command
  <2>10. At(c) \in Command
    BY <1>8 DEF Send
  <2>11. InboxInv'
    <3>1. (\A i \in DOMAIN inbox : client[inbox[i]].asking /\ At(inbox[i]) \in Command)'
      BY <2>3, <2>4, <2>6, <2>7, <2>10 DEF InboxInv
    <3>2. \A i, j \in DOMAIN inbox' : inbox'[i] = inbox'[j] => i = j
      BY <2>6, <2>7 DEF InboxInv
    <3>3. worker' = worker
      BY <1>8 DEF Send
    <3>4. (Busy => /\ worker.from \in Client /\ client[worker.from].asking
                   /\ At(worker.from) = Task(worker.pc)
                   /\ \A i \in DOMAIN inbox : inbox[i] # worker.from)'
      BY <2>3, <2>6, <2>7, <2>8, <3>3 DEF InboxInv, Busy
    <3> QED BY <2>9, <3>1, <3>2, <3>3, <3>4 DEF InboxInv
  <2> QED BY <1>8, <2>3, <2>7, <2>11 DEF Send, TypeOK, ClientRec
<1> QED BY <1>1, <1>4, <1>5, <1>6, <1>7, <1>8 DEF ClientStep

LEMMA ConfigParts ==
  /\ \A k \in Config : k.port \in Port /\ k.interval \in Interval
  /\ Default \in Config
BY ServiceConstants DEF Config

LEMMA EndedType == Ended \in [port : Port, phase : Phase]
BY ConfigParts DEF Ended, Phase

LEMMA ProberTypes ==
  ASSUME TypeOK, NEW cfg \in Config, RestartProber(cfg) \/ AbortProber \/ UNCHANGED probing
  PROVE  held' \in Interval /\ probers' \subseteq Interval
BY ConfigParts, ServiceConstants DEF RestartProber, AbortProber, TypeOK, probing

LEMMA ReapTypes ==
  ASSUME TypeOK, Reap
  PROVE  /\ tx' \in BOOLEAN /\ handle' \in Server \cup {None} /\ shown' \in Port \cup {None}
         /\ server' = server /\ held' \in Interval /\ probers' \subseteq Interval
BY ProberTypes, ConfigParts DEF Reap, TypeOK, task, probing

LEMMA WorkTypes ==
  ASSUME TypeOK, InboxInv, Work \/ LoadFails
  PROVE  TypeOK' /\ InboxInv'
<1> USE DEF task, probing
<1> DEFINE WorkerRec == [pc : WorkerState, from : Client \cup {None}, cfg : Config]
<1>1. worker \in WorkerRec /\ stored \in Config /\ worker.cfg \in Config
  BY DEF TypeOK
\* Where the worker goes on without an answer.
<1>2. ASSUME NEW pc \in WorkerState, NEW cfg \in Config, Busy, pc \notin {"off", "idle"},
             Task(pc) = Task(worker.pc),
             worker' = [worker EXCEPT !.pc = pc, !.cfg = cfg], UNCHANGED <<inbox, client>>
      PROVE  worker' \in WorkerRec /\ InboxInv' /\ client' \in [Client -> ClientRec]
  <2>1. worker' \in WorkerRec /\ worker'.pc = pc /\ worker'.from = worker.from
    BY <1>1, <1>2 DEF WorkerState
  <2>2. \A c \in Client : At(c)' = At(c)
    BY <1>2 DEF At
  <2>3. \A i \in DOMAIN inbox : inbox[i] \in Client
    BY DEF TypeOK
  <2>4. client \in [Client -> ClientRec]
    BY DEF TypeOK, ClientRec
  <2> QED BY <1>2, <2>1, <2>2, <2>3, <2>4 DEF InboxInv, Busy
<1>3. CASE Receive
  <2> DEFINE c == Head(inbox)
  <2>1. /\ inbox \in Seq(Client) /\ inbox # <<>> /\ c \in Client /\ c = inbox[1]
        /\ inbox' = Tail(inbox) /\ inbox' \in Seq(Client)
        /\ DOMAIN inbox = 1 .. Len(inbox) /\ DOMAIN inbox' = 1 .. Len(inbox) - 1
        /\ \A i \in DOMAIN inbox' : inbox'[i] = inbox[i + 1] /\ i + 1 \in DOMAIN inbox
    BY <1>3 DEF Receive, TypeOK
  <2>2. At(c) \in Command /\ client[c].asking
    BY <2>1 DEF InboxInv
  <2>3. \A i \in DOMAIN inbox' : inbox'[i] # c
    <3>1. \A i \in DOMAIN inbox : i # 1 => inbox[i] # inbox[1]
      BY <2>1 DEF InboxInv
    <3> QED BY <2>1, <3>1
  <2>4. worker' = [Rest EXCEPT !.pc = At(c), !.from = c] /\ client' = client
    BY <1>3 DEF Receive
  <2>5. worker' \in WorkerRec /\ worker'.pc = At(c) /\ worker'.from = c
    BY <2>1, <2>2, <2>4, RestType DEF WorkerState, Command
  <2>6. \A d \in Client : At(d)' = At(d)
    BY <2>4 DEF At
  <2>7. Task(worker'.pc) = At(c) /\ worker'.pc # "off"
    BY <2>2, <2>5 DEF Task, Command
  <2>8. \A i \in DOMAIN inbox' : inbox'[i] \in Client
    BY <2>1
  <2>9. InboxInv'
    <3>1. (\A i \in DOMAIN inbox : client[inbox[i]].asking /\ At(inbox[i]) \in Command)'
      BY <2>1, <2>4, <2>6, <2>8 DEF InboxInv
    <3>2. (\A i, j \in DOMAIN inbox : inbox[i] = inbox[j] => i = j)'
      BY <2>1 DEF InboxInv
    <3> QED BY <2>1, <2>2, <2>3, <2>4, <2>5, <2>6, <2>7, <3>1, <3>2 DEF InboxInv
  <2>10. /\ tx' \in BOOLEAN /\ handle' \in Server \cup {None} /\ shown' \in Port \cup {None}
         /\ server' = server /\ held' \in Interval /\ probers' \subseteq Interval
    <3>1. Reap \/ UNCHANGED <<task, probing>>
      BY <1>3 DEF Receive
    <3> QED BY <3>1, ReapTypes DEF TypeOK
  <2> QED BY <1>3, <2>1, <2>4, <2>5, <2>9, <2>10 DEF Receive, TypeOK
<1>4. CASE LoadConfig
  <2>1. Busy /\ Task("bind") = Task(worker.pc) /\ "bind" \in WorkerState
    BY <1>4 DEF LoadConfig, Busy, Task, WorkerState
  <2>2. worker' \in WorkerRec /\ InboxInv'
    BY <1>1, <1>2, <1>4, <2>1 DEF LoadConfig
  <2> QED BY <1>4, <2>2 DEF LoadConfig, TypeOK
<1>5. CASE BindAndSpawn
  <2>1. /\ Busy /\ Task("publish") = Task(worker.pc) /\ "publish" \in WorkerState
        /\ worker' = [worker EXCEPT !.pc = "publish", !.cfg = worker.cfg]
    BY <1>1, <1>5 DEF BindAndSpawn, Busy, Task, WorkerState
  <2>5. UNCHANGED <<inbox, client>>
    BY <1>5 DEF BindAndSpawn
  <2>2. worker' \in WorkerRec /\ InboxInv'
    BY <1>1, <1>2, <2>1, <2>5 DEF Busy
  <2>3. [port |-> worker.cfg.port, phase |-> "serving"] \in [port : Port, phase : Phase]
    BY <1>1, ConfigParts DEF Phase
  <2>4. server' \in [Server -> [port : Port, phase : Phase]] /\ handle' \in Server
    BY <1>5, <2>3 DEF BindAndSpawn, TypeOK
  <2> QED BY <1>5, <2>2, <2>4 DEF BindAndSpawn, TypeOK
<1>6. CASE TellServer
  <2>1. /\ Busy /\ Task("join") = Task(worker.pc) /\ "join" \in WorkerState
        /\ worker' = [worker EXCEPT !.pc = "join", !.cfg = worker.cfg]
    BY <1>1, <1>6 DEF TellServer, Busy, Task, WorkerState
  <2>2. worker' \in WorkerRec /\ InboxInv'
    BY <1>1, <1>2, <1>6, <2>1 DEF TellServer
  <2>3. server' \in [Server -> [port : Port, phase : Phase]]
    BY <1>6 DEF TellServer, Signal, TypeOK, Phase
  <2>4. held' \in Interval /\ probers' \subseteq Interval
    BY <1>1, <1>6, ProberTypes DEF TellServer
  <2> QED BY <1>6, <2>2, <2>3, <2>4 DEF TellServer, TypeOK
<1>7. ASSUME NEW ok \in BOOLEAN, Answer(ok), Busy, UNCHANGED inbox
      PROVE  client' \in [Client -> ClientRec] /\ InboxInv' /\ worker' \in WorkerRec
  BY <1>7, AnswerKeeps
<1>8. CASE AlreadyStarted \/ BindFails \/ AlreadyStopped
  <2>1. Busy /\ \E ok \in BOOLEAN : Answer(ok)
    BY <1>8 DEF AlreadyStarted, BindFails, AlreadyStopped, Busy
  <2>2. client' \in [Client -> ClientRec] /\ InboxInv' /\ worker' \in WorkerRec
    BY <1>7, <1>8, <2>1 DEF AlreadyStarted, BindFails, AlreadyStopped
  <2> QED BY <1>8, <2>2 DEF AlreadyStarted, BindFails, AlreadyStopped, TypeOK, ClientRec
<1>9. CASE LoadFails
  <2>1. Busy
    BY <1>9 DEF LoadFails, Busy
  <2>2. client' \in [Client -> ClientRec] /\ InboxInv' /\ worker' \in WorkerRec
    BY <1>7, <1>9, <2>1 DEF LoadFails
  <2> QED BY <1>9, <2>2, ServiceConstants DEF LoadFails, Fault, TypeOK, ClientRec
<1>10. CASE Publish
  <2>1. Busy
    BY <1>10 DEF Publish, Busy
  <2>2. client' \in [Client -> ClientRec] /\ InboxInv' /\ worker' \in WorkerRec
    BY <1>7, <1>10, <2>1 DEF Publish
  <2>3. held' \in Interval /\ probers' \subseteq Interval /\ shown' \in Port
    BY <1>1, <1>10, ProberTypes, ConfigParts DEF Publish
  <2> QED BY <1>10, <2>2, <2>3 DEF Publish, TypeOK, ClientRec
<1>11. CASE Joined
  <2>1. Busy
    BY <1>11 DEF Joined, Busy
  <2>2. client' \in [Client -> ClientRec] /\ InboxInv' /\ worker' \in WorkerRec
    BY <1>7, <1>11, <2>1 DEF Joined
  <2>3. server' \in [Server -> [port : Port, phase : Phase]]
    BY <1>11, EndedType DEF Joined, TypeOK
  <2> QED BY <1>11, <2>2, <2>3 DEF Joined, TypeOK, ClientRec
<1>12. CASE Reload
  <2>1. Busy
    BY <1>12 DEF Reload, Busy
  <2>2. client' \in [Client -> ClientRec] /\ InboxInv' /\ worker' \in WorkerRec
    BY <1>7, <1>12, <2>1 DEF Reload
  <2>3. held' \in Interval /\ probers' \subseteq Interval
    BY <1>1, <1>12, ProberTypes DEF Reload
  <2> QED BY <1>12, <2>2, <2>3 DEF Reload, TypeOK, ClientRec
<1> QED
  BY <1>3, <1>4, <1>5, <1>6, <1>8, <1>9, <1>10, <1>11, <1>12 DEF Work

LEMMA FaultTypes ==
  ASSUME TypeOK, NEW kind \in {"db", "server", "port", "beside"}, Fault(kind)
  PROVE  failed' \subseteq {"db", "server", "port", "beside"} /\ faults' \in 0 .. MaxFaults
<1>1. faults \in 0 .. MaxFaults /\ faults < MaxFaults /\ faults' = faults + 1
  BY DEF Fault, TypeOK
<1>2. faults' \in 0 .. MaxFaults
  BY <1>1, ServiceConstants
<1> QED BY <1>2 DEF Fault, TypeOK

LEMMA TurnTypes ==
  ASSUME TypeOK, NEW t \in Server, NEW from, NEW to \in Phase, Turn(t, from, to)
  PROVE  server' \in [Server -> [port : Port, phase : Phase]]
BY DEF TypeOK, Turn

LEMMA OtherTypes ==
  ASSUME TypeOK, InboxInv,
         \/ \E t \in Server : ServerReturns(t) \/ ClearPort(t) \/ TaskEnds(t)
         \/ Environment
  PROVE  TypeOK' /\ InboxInv'
<1> USE DEF task, probing
<1>1. UNCHANGED <<inbox, worker, client>> => InboxInv'
  <2>1. UNCHANGED client => \A c : At(c)' = At(c)
    BY DEF At
  <2> QED BY <2>1 DEF InboxInv, Busy
<1>2. ASSUME NEW t \in Server, ServerReturns(t) \/ ClearPort(t) \/ TaskEnds(t)
      PROVE  TypeOK' /\ InboxInv'
  <2>1. server' \in [Server -> [port : Port, phase : Phase]]
    <3>1. "returned" \in Phase /\ "cleared" \in Phase
      BY DEF Phase
    <3>2. ServerReturns(t) \/ ClearPort(t) => server' \in [Server -> [port : Port, phase : Phase]]
      BY <3>1, TurnTypes DEF ServerReturns, ClearPort
    <3> QED BY <1>2, <3>2, EndedType DEF TaskEnds, TypeOK
  <2>2. CASE ServerReturns(t)
    <3>1. failed' \subseteq {"db", "server", "port", "beside"} /\ faults' \in 0 .. MaxFaults
      <4>1. Fault("server") \/ UNCHANGED <<failed, faults>>
        BY <2>2 DEF ServerReturns
      <4> QED BY <4>1, FaultTypes DEF TypeOK
    <3> QED BY <1>1, <2>1, <2>2, <3>1 DEF ServerReturns, TypeOK
  <2>3. CASE ClearPort(t)
    BY <1>1, <2>1, <2>3 DEF ClearPort, TypeOK
  <2>4. CASE TaskEnds(t)
    BY <1>1, <2>1, <2>4 DEF TaskEnds, TypeOK
  <2> QED BY <1>2, <2>2, <2>3, <2>4
<1>3. CASE LoadFails
  BY <1>3, WorkTypes
<1>4. CASE ShutdownNow \/ Crash
  <2>1. Gone("off") /\ client' = [c \in Client |-> Idle]
    BY <1>4 DEF ShutdownNow, Crash
  <2>2. InboxInv' /\ inbox' \in Seq(Client)
    BY <2>1 DEF Gone, InboxInv, Rest, Busy
  <2>3. worker' \in [pc : WorkerState, from : Client \cup {None}, cfg : Config]
    BY <2>1, RestType DEF Gone, WorkerState
  <2>4. /\ server' \in [Server -> [port : Port, phase : Phase]]
        /\ client' \in [Client -> ClientRec]
    BY <2>1, EndedType, IdleIsClient DEF Gone
  <2>5. /\ tx' = FALSE /\ handle' = None /\ shown' = None /\ held' = 0 /\ probers' = {}
        /\ UNCHANGED <<host, stored, live, taken, failed, ops>>
    BY <1>4, <2>1 DEF ShutdownNow, Crash, Gone
  <2>6. faults' \in 0 .. MaxFaults
    <3>1. CASE ShutdownNow
      BY <3>1 DEF ShutdownNow, TypeOK
    <3>2. CASE Crash
      <4>1. faults \in 0 .. MaxFaults /\ faults < MaxFaults /\ faults' = faults + 1
        BY <3>2 DEF Crash, TypeOK
      <4> QED BY <4>1, ServiceConstants
    <3> QED BY <1>4, <3>1, <3>2
  <2> QED BY <2>2, <2>3, <2>4, <2>5, <2>6, ServiceConstants DEF TypeOK, ClientRec
<1>5. ASSUME NEW c \in Client, NEW op \in {"autostart", "serve"}, NEW ok \in BOOLEAN,
             Boot(c, op, ok)
      PROVE  TypeOK' /\ InboxInv'
  <2> DEFINE r == [Idle EXCEPT !.op = op]
  <2>1. r \in ClientRec
    <3>1. op \in DOMAIN Steps
      BY StepsShape
    <3> QED BY <3>1, IdleIsClient DEF ClientRec
  <2>2. client' = [client EXCEPT ![c] = r]
    BY <1>5 DEF Boot
  <2> HIDE DEF r
  <2>3. client' \in [Client -> ClientRec]
    BY <2>1, <2>2, ClientSets
  <2>4. InboxInv'
    BY <1>5 DEF Boot, InboxInv, Rest, Busy
  <2>5. live' \in Config /\ failed' \subseteq {"db"} /\ faults' \in 0 .. MaxFaults
    BY <1>5, ServiceConstants DEF Boot, TypeOK
  <2> QED BY <1>5, <2>3, <2>4, <2>5, RestType DEF Boot, TypeOK, ClientRec
<1>6. CASE ConfigureBeside
  <2>1. stored' \in Config
    BY <1>6 DEF ConfigureBeside
  <2>2. failed' \subseteq {"db", "server", "port", "beside"} /\ faults' \in 0 .. MaxFaults
    BY <1>6, FaultTypes DEF ConfigureBeside
  <2> QED BY <1>1, <1>6, <2>1, <2>2 DEF ConfigureBeside, TypeOK
<1>7. ASSUME NEW p \in Port, Occupy(p) \/ Vacate(p)
      PROVE  TypeOK' /\ InboxInv'
  <2>1. CASE Occupy(p)
    <3>1. failed' \subseteq {"db", "server", "port", "beside"} /\ faults' \in 0 .. MaxFaults
      BY <2>1, FaultTypes DEF Occupy
    <3> QED BY <1>1, <2>1, <3>1 DEF Occupy, TypeOK
  <2>2. CASE Vacate(p)
    BY <1>1, <2>2 DEF Vacate, TypeOK
  <2> QED BY <1>7, <2>1, <2>2
<1> QED BY <1>2, <1>3, <1>4, <1>5, <1>6, <1>7 DEF Environment

LEMMA TypesInductive == Spec => [](TypeOK /\ InboxInv)
<1>1. Init => TypeOK /\ InboxInv
  <2> SUFFICES ASSUME Init PROVE TypeOK /\ InboxInv
    OBVIOUS
  <2>1. worker \in [pc : WorkerState, from : Client \cup {None}, cfg : Config]
    BY RestType DEF Init, WorkerState
  <2>2. client \in [Client -> ClientRec] /\ server \in [Server -> [port : Port, phase : Phase]]
    BY IdleIsClient, EndedType DEF Init
  <2>3. stored \in Config /\ live \in Config
    BY ServiceConstants DEF Init
  <2>4. InboxInv
    BY DEF Init, InboxInv, Rest, Busy
  <2>5. ops \in 0 .. MaxOps /\ faults \in 0 .. MaxFaults /\ held \in Interval
    BY ServiceConstants DEF Init
  <2>6. /\ inbox \in Seq(Client) /\ host \in {"daemon", "desktop"}
        /\ tx \in BOOLEAN /\ handle \in Server \cup {None} /\ shown \in Port \cup {None}
        /\ probers \subseteq Interval /\ taken \subseteq Port
        /\ failed \subseteq {"db", "server", "port", "beside"}
    <3>1. /\ host \in {"daemon", "desktop"} /\ inbox = <<>> /\ tx = FALSE /\ handle = None
          /\ shown = None /\ probers = {} /\ taken = {} /\ failed = {}
      BY DEF Init
    <3>2. inbox \in Seq(Client)
      BY <3>1
    <3> QED BY <3>1, <3>2
  <2> QED BY <2>1, <2>2, <2>3, <2>4, <2>5, <2>6 DEF TypeOK, ClientRec
<1>2. TypeOK /\ InboxInv /\ [Next]_vars => (TypeOK /\ InboxInv)'
  <2> SUFFICES ASSUME TypeOK, InboxInv, [Next]_vars PROVE TypeOK' /\ InboxInv'
    OBVIOUS
  <2>1. CASE UNCHANGED vars
    <3>1. \A c : At(c)' = At(c)
      BY <2>1 DEF vars, At
    <3> QED BY <2>1, <3>1 DEF vars, task, probing, TypeOK, InboxInv, Busy
  <2> QED BY <2>1, ClientTypes, WorkTypes, OtherTypes DEF Next
<1> QED BY <1>1, <1>2, PTL DEF Spec

\* Every state has its types, whatever callers, worker and server do: the channel
\* holds callers only, and an operation never goes past its last step.
THEOREM ServiceTypeCorrect == Spec => []TypeOK
BY TypesInductive, PTL

(***************************************************************************)
(* One server, one prober                                                  *)
(***************************************************************************)

\* The worker holds the only task there is while it has its sender or waits for its
\* end; what is published is that task's port; and without a failure the task serves
\* for as long as the sender is there.
ServerInv ==
  /\ OneServer
  /\ handle # None <=> tx \/ worker.pc = "join"
  /\ worker.pc \in {"off", "bind", "join"} => ~tx
  /\ worker.pc = "publish" => tx /\ shown = None
  /\ handle = None => shown = None
  /\ worker.pc = "publish" /\ handle \in Alive => server[handle].port = worker.cfg.port
  /\ shown # None /\ handle \in Alive => shown = server[handle].port
  /\ handle \in Listening /\ worker.pc # "publish" => shown = server[handle].port
  /\ tx => server[handle].phase # "draining"
  /\ tx /\ "server" \notin failed => server[handle].phase = "serving"
  /\ worker.pc = "join" => server[handle].phase # "serving"

ProberInv == probers = {held} \ {0} /\ (~tx => held = 0)

LEMMA ProbersKept ==
  ASSUME TypeOK, InboxInv, ServerInv, ProberInv, Next
  PROVE  ProberInv'
<1> USE DEF task, probing
<1>1. UNCHANGED <<tx, probing>> => ProberInv'
  BY DEF ProberInv
<1>2. ASSUME NEW c \in Client, ClientStep(c) \/ StoreFails(c) \/ \E op \in DOMAIN Steps : Begin(c, op)
      PROVE  ProberInv'
  BY <1>1, <1>2 DEF ClientStep, StoreFails, Begin, Read, Write, Send, Return
<1>3. ASSUME NEW t \in Server, ServerReturns(t) \/ ClearPort(t) \/ TaskEnds(t)
      PROVE  ProberInv'
  BY <1>1, <1>3 DEF ServerReturns, ClearPort, TaskEnds
<1>4. CASE AlreadyStarted \/ LoadConfig \/ BindFails \/ AlreadyStopped \/ Joined \/ LoadFails
  BY <1>1, <1>4 DEF AlreadyStarted, LoadConfig, BindFails, AlreadyStopped, Joined, LoadFails
<1>5. CASE Receive
  <2>1. Reap \/ UNCHANGED <<tx, probing>>
    BY <1>5 DEF Receive
  <2> QED BY <1>1, <2>1 DEF Reap, AbortProber, ProberInv
<1>6. CASE BindAndSpawn
  <2>1. ~tx /\ held = 0 /\ UNCHANGED probing
    BY <1>6 DEF BindAndSpawn, ServerInv, ProberInv
  <2> QED BY <2>1, <1>6 DEF BindAndSpawn, ProberInv
<1>7. CASE Publish
  BY <1>7 DEF Publish, RestartProber, ProberInv, ServerInv
<1>8. CASE TellServer
  BY <1>8 DEF TellServer, AbortProber, ProberInv
<1>9. CASE Reload
  BY <1>9 DEF Reload, RestartProber, ProberInv
<1>10. CASE ShutdownNow \/ Crash
  BY <1>10 DEF ShutdownNow, Crash, Gone, ProberInv
<1>11. ASSUME NEW p \in Port, Occupy(p) \/ Vacate(p)
       PROVE  ProberInv'
  BY <1>1, <1>11 DEF Occupy, Vacate
<1>12. CASE ConfigureBeside
  BY <1>1, <1>12 DEF ConfigureBeside
<1>13. ASSUME NEW c \in Client, NEW op, NEW ok, Boot(c, op, ok)
       PROVE  ProberInv'
  BY <1>1, <1>13 DEF Boot
<1> QED
  BY <1>2, <1>3, <1>4, <1>5, <1>6, <1>7, <1>8, <1>9, <1>10, <1>11, <1>12, <1>13
  DEF Next, Work, Environment

\* What the callers do, and what does not touch the task, leaves ServerInv alone.
LEMMA ServerUntouched ==
  ASSUME ServerInv, UNCHANGED <<worker, task>>, failed \subseteq failed'
  PROVE  ServerInv'
BY DEF task, ServerInv, OneServer, Alive, Listening

LEMMA ServerKept ==
  ASSUME TypeOK, InboxInv, ServerInv, ProberInv, Next
  PROVE  ServerInv'
<1> USE DEF task, probing
<1>1. ASSUME NEW c \in Client, ClientStep(c) \/ StoreFails(c) \/ \E op \in DOMAIN Steps : Begin(c, op)
      PROVE  ServerInv'
  <2>1. UNCHANGED <<worker, task>> /\ failed \subseteq failed'
    BY <1>1 DEF ClientStep, StoreFails, Fault, Begin, Read, Write, Send, Return
  <2> QED BY <2>1, ServerUntouched
\* An answer without a change of the task.
<1>2. ASSUME NEW ok, Answer(ok), worker.pc \notin {"publish", "join"}, UNCHANGED task,
             failed \subseteq failed'
      PROVE  ServerInv'
  BY <1>2 DEF Answer, Rest, ServerInv, OneServer, Alive, Listening
<1>3. CASE AlreadyStarted \/ BindFails \/ AlreadyStopped
  BY <1>2, <1>3 DEF AlreadyStarted, BindFails, AlreadyStopped
<1>4. CASE LoadFails
  BY <1>2, <1>4 DEF LoadFails, Fault
<1>5. CASE Reload
  BY <1>2, <1>5 DEF Reload
<1>6. CASE LoadConfig
  <2>1. worker'.pc = "bind" /\ worker.pc = "start" /\ ~tx /\ UNCHANGED <<task, failed>>
    BY <1>6 DEF LoadConfig, TypeOK
  <2> QED BY <2>1 DEF ServerInv, OneServer, Alive, Listening
<1>7. CASE Receive
  <2>1. worker'.pc \in Command /\ worker.pc = "idle" /\ UNCHANGED failed
    <3>1. inbox \in Seq(Client) /\ inbox # <<>>
      BY <1>7 DEF Receive, TypeOK
    <3>2. Head(inbox) = inbox[1] /\ 1 \in DOMAIN inbox
      BY <3>1
    <3>3. At(Head(inbox)) \in Command
      BY <3>2 DEF InboxInv
    <3> QED BY <1>7, <3>3 DEF Receive, Rest
  <2>2. CASE UNCHANGED task
    BY <2>1, <2>2 DEF ServerInv, OneServer, Alive, Listening, Command
  <2>3. CASE ~UNCHANGED task
    <3>1. /\ Finished /\ tx' = FALSE /\ handle' = None /\ shown' = None /\ UNCHANGED server
      BY <1>7, <2>3 DEF Receive, Reap
    <3>2. Alive' = {} /\ Listening' = {}
      <4>1. handle \notin Alive
        BY <3>1 DEF Finished, Alive
      <4>2. Alive = {}
        BY <4>1 DEF ServerInv, OneServer, Alive
      <4> QED BY <3>1, <4>2 DEF Alive, Listening
    <3> QED BY <2>1, <3>1, <3>2 DEF ServerInv, OneServer, Command
  <2> QED BY <2>2, <2>3
<1>8. CASE BindAndSpawn
  <2>1. PICK t \in Server : /\ server' = [server EXCEPT ![t] = [port |-> worker.cfg.port, phase |-> "serving"]]
                            /\ handle' = t
    BY <1>8 DEF BindAndSpawn
  <2>2. /\ tx' = TRUE /\ worker.pc = "bind" /\ worker'.pc = "publish" /\ worker'.cfg = worker.cfg
        /\ UNCHANGED <<shown, failed>>
    BY <1>8 DEF BindAndSpawn, TypeOK
  <2>3. handle = None /\ shown = None
    BY <2>2 DEF ServerInv
  <2>4. Alive = {}
    <3>1. \A u \in Alive : u \in Server /\ u = None
      BY <2>3 DEF ServerInv, OneServer, Alive
    <3> QED BY <3>1, ServiceConstants
  <2>5. /\ server'[t].port = worker.cfg.port /\ server'[t].phase = "serving"
        /\ \A u \in Server \ {t} : server'[u] = server[u]
    BY <2>1 DEF TypeOK
  <2>6. t # None
    BY ServiceConstants
  <2>7. Alive' = {t}
    BY <2>4, <2>5 DEF Alive
  <2> QED BY <2>1, <2>2, <2>3, <2>5, <2>6, <2>7 DEF ServerInv, OneServer
<1>9. CASE Publish
  <2>1. /\ worker.pc = "publish" /\ worker'.pc = "idle" /\ shown' = worker.cfg.port
        /\ UNCHANGED <<tx, handle, server, failed>>
    BY <1>9 DEF Publish, Answer, Rest
  <2>2. shown' # None
    BY <2>1, ConfigParts, ServiceConstants DEF TypeOK
  <2>3. Listening \subseteq Alive
    BY DEF Listening, Alive
  <2> QED BY <2>1, <2>2, <2>3 DEF ServerInv, OneServer, Alive, Listening
<1>10. CASE TellServer
  <2>1. /\ worker.pc = "stop" /\ tx /\ tx' = FALSE /\ worker'.pc = "join"
        /\ server' = Signal /\ UNCHANGED <<handle, shown, failed>>
    BY <1>10 DEF TellServer, TypeOK
  <2>2. handle \in Server
    BY <2>1 DEF ServerInv, TypeOK
  <2>3. \A u \in Server : /\ server'[u].port = server[u].port
                          /\ server'[u].phase = IF u = handle /\ server[u].phase = "serving"
                                                THEN "draining" ELSE server[u].phase
    BY <2>1, <2>2 DEF Signal, TypeOK
  <2>4. Alive' = Alive /\ handle \notin Listening'
    BY <2>1, <2>2, <2>3 DEF Alive, Listening
  <2>5. server'[handle].phase # "serving"
    BY <2>2, <2>3
  <2> QED BY <2>1, <2>2, <2>3, <2>4, <2>5 DEF ServerInv, OneServer
<1>11. CASE Joined
  <2>1. /\ worker.pc = "join" /\ worker'.pc = "idle" /\ handle' = None /\ shown' = None
        /\ server' = [server EXCEPT ![handle] = Ended] /\ UNCHANGED <<tx, failed>>
    BY <1>11 DEF Joined, Answer, Rest
  <2>2. handle \in Server /\ ~tx
    BY <2>1 DEF ServerInv, TypeOK
  <2>3. Alive' = {}
    BY <2>1, <2>2 DEF Alive, ServerInv, OneServer, TypeOK, Ended
  <2>4. Listening' = {}
    BY <2>3 DEF Alive, Listening
  <2> QED BY <2>1, <2>2, <2>3, <2>4 DEF ServerInv, OneServer
<1>12. ASSUME NEW t \in Server, ServerReturns(t)
       PROVE  ServerInv'
  <2>1. UNCHANGED <<worker, tx, handle, shown>> /\ failed \subseteq failed'
    BY <1>12 DEF ServerReturns, Fault
  <2>2. /\ server' = [server EXCEPT ![t].phase = "returned"]
        /\ \/ server[t].phase = "draining"
           \/ server[t].phase = "serving" /\ "server" \in failed'
    BY <1>12 DEF ServerReturns, Turn, Fault
  <2>3. /\ server'[t].port = server[t].port /\ server'[t].phase = "returned"
        /\ \A u \in Server \ {t} : server'[u] = server[u]
    BY <2>2 DEF TypeOK
  <2>4. Alive' = Alive /\ Listening' \subseteq Listening /\ t \in Alive
    BY <2>2, <2>3 DEF Alive, Listening
  <2>5. t = handle
    BY <2>4 DEF ServerInv, OneServer
  <2>6. tx => "server" \in failed'
    BY <2>2, <2>5 DEF ServerInv
  <2> QED BY <2>1, <2>3, <2>4, <2>5, <2>6 DEF ServerInv, OneServer
<1>13. ASSUME NEW t \in Server, ClearPort(t) \/ TaskEnds(t)
       PROVE  ServerInv'
  <2>1. UNCHANGED <<worker, tx, handle, failed>> /\ (shown' = shown \/ shown' = None)
    BY <1>13 DEF ClearPort, TaskEnds
  <2>2. server[t].phase \in {"returned", "cleared"}
    BY <1>13 DEF ClearPort, TaskEnds, Turn
  <2>3. t = handle
    BY <2>2 DEF ServerInv, OneServer, Alive
  <2>4. /\ server'[t].phase \in {"cleared", "finished"}
        /\ server'[t].phase # "finished" => server'[t].port = server[t].port
        /\ \A u \in Server \ {t} : server'[u] = server[u]
    BY <1>13 DEF ClearPort, TaskEnds, Turn, Ended, TypeOK
  <2>5. Alive' \subseteq Alive /\ Listening' = Listening /\ t \notin Listening
    BY <2>2, <2>4 DEF Alive, Listening
  <2>6. tx => "server" \in failed
    BY <2>2, <2>3 DEF ServerInv
  <2>7. t \in Alive' => server'[t].port = server[t].port
    BY <2>4 DEF Alive
  <2>8. t \in Alive
    BY <2>2 DEF Alive
  <2> QED BY <2>1, <2>3, <2>4, <2>5, <2>6, <2>7, <2>8 DEF ServerInv, OneServer
<1>14. CASE ShutdownNow \/ Crash
  <2>1. Gone("off")
    BY <1>14 DEF ShutdownNow, Crash
  <2>2. Alive' = {} /\ Listening' = {}
    BY <2>1 DEF Gone, Alive, Listening, Ended
  <2> QED BY <2>1, <2>2 DEF Gone, Rest, ServerInv, OneServer
<1>15. ASSUME NEW c \in Client, NEW op, NEW ok, Boot(c, op, ok)
       PROVE  ServerInv'
  <2>1. worker.pc = "off" /\ worker'.pc = "idle" /\ UNCHANGED task
    BY <1>15 DEF Boot, Rest
  <2>2. ~tx /\ handle = None
    BY <2>1 DEF ServerInv
  <2> QED BY <2>1, <2>2 DEF ServerInv, OneServer, Alive, Listening
<1>16. CASE ConfigureBeside \/ \E p \in Port : Occupy(p) \/ Vacate(p)
  <2>1. UNCHANGED <<worker, task>> /\ failed \subseteq failed'
    BY <1>16 DEF ConfigureBeside, Occupy, Vacate, Fault
  <2> QED BY <2>1, ServerUntouched
<1> QED
  BY <1>1, <1>3, <1>4, <1>5, <1>6, <1>7, <1>8, <1>9, <1>10, <1>11, <1>12, <1>13, <1>14, <1>15,
     <1>16
  DEF Next, Work, Environment

LEMMA ServerInductive == Spec => [](ServerInv /\ ProberInv)
<1>1. Init => ServerInv /\ ProberInv
  <2> SUFFICES ASSUME Init PROVE ServerInv /\ ProberInv
    OBVIOUS
  <2>1. /\ worker.pc = "off" /\ tx = FALSE /\ handle = None /\ shown = None
        /\ server = [t \in Server |-> Ended] /\ held = 0 /\ probers = {}
    BY DEF Init, Rest
  <2>2. Alive = {} /\ Listening = {}
    BY <2>1 DEF Alive, Listening, Ended
  <2> QED BY <2>1, <2>2 DEF ServerInv, ProberInv, OneServer
<1>2. TypeOK /\ InboxInv /\ (ServerInv /\ ProberInv) /\ [Next]_vars => (ServerInv /\ ProberInv)'
  <2> SUFFICES ASSUME TypeOK, InboxInv, ServerInv, ProberInv, [Next]_vars
               PROVE  ServerInv' /\ ProberInv'
    OBVIOUS
  <2>1. CASE Next
    BY <2>1, ServerKept, ProbersKept
  <2>2. CASE UNCHANGED vars
    BY <2>2 DEF vars, task, probing, ServerInv, ProberInv, OneServer, Alive, Listening
  <2> QED BY <2>1, <2>2
<1> QED BY <1>1, <1>2, TypesInductive, PTL DEF Spec

\* However starts, stops, aborts and failures follow each other, a second server task
\* never runs beside the one the worker can stop: GatewayWorker::start and stop.
THEOREM OneServerAlways == Spec => []OneServer
<1>1. ServerInv => OneServer
  BY DEF ServerInv
<1> QED BY <1>1, ServerInductive, PTL

\* The port status() reports is the one listened on, for any number of clients, ports
\* and commands: running_port against the server task.
THEOREM StatusAlwaysTrue == Spec => []StatusIsTrue
<1>1. TypeOK /\ ServerInv => StatusIsTrue
  <2> SUFFICES ASSUME TypeOK, ServerInv, worker.pc \notin {"publish", "join"}
               PROVE  /\ \A t \in Listening : shown = server[t].port
                      /\ shown # None /\ "server" \notin failed =>
                           \E t \in Listening : server[t].port = shown
    BY DEF StatusIsTrue
  <2>1. \A t \in Listening : t = handle
    BY DEF ServerInv, OneServer, Alive, Listening
  <2>2. ASSUME shown # None, "server" \notin failed
        PROVE  handle \in Listening /\ server[handle].port = shown
    <3>1. handle \in Server /\ tx
      BY <2>2 DEF ServerInv, TypeOK
    <3>2. server[handle].phase = "serving"
      BY <2>2, <3>1 DEF ServerInv
    <3> QED BY <2>2, <3>1, <3>2 DEF ServerInv, Listening
  <2> QED BY <2>1, <2>2 DEF ServerInv
<1> QED BY <1>1, TypesInductive, ServerInductive, PTL

\* What a caller has been told by a step that answers it.
Told(c) == /\ Answered(c, "stop") => Alive' = {} /\ probers' = {}
           /\ Answered(c, "start") /\ "server" \notin failed =>
                \E t \in Listening' : server'[t].port = shown'

LEMMA AnswerIsTrue ==
  ASSUME TypeOK, InboxInv, ServerInv, ProberInv, Next, NEW c \in Client
  PROVE  Told(c)
<1> USE DEF task, probing
<1> SUFFICES ASSUME NEW step \in {"start", "stop"}, Answered(c, step) PROVE Told(c)
  BY DEF Told
<1>1. /\ worker.from = c /\ worker' = Rest /\ client'[c].at = client[c].at + 1
      /\ At(c) = step /\ client[c].at \in 1 .. 5
  BY AtShape DEF Answered
<1>2. worker' # worker /\ worker'.pc = "idle"
  BY <1>1, ServiceConstants DEF Rest
<1>3. ~Answer(FALSE)
  <2>1. SUFFICES ASSUME Answer(FALSE) PROVE FALSE
    OBVIOUS
  <2>2. client'[c] = GiveUp(c) /\ GiveUp(c).at = 7
    <3>1. client' = [client EXCEPT ![c] = GiveUp(c)]
      BY <1>1, <2>1 DEF Answer
    <3>2. client[c] \in ClientRec
      BY DEF TypeOK, ClientRec
    <3>3. GiveUp(c).at = 7
      BY <3>2 DEF GiveUp, Goto, ClientRec
    <3> QED BY <3>1, <3>3 DEF TypeOK
  <2> QED BY <1>1, <2>2
<1>4. CASE AlreadyStarted
  <2>1. tx /\ worker.pc = "start" /\ UNCHANGED <<task, failed>>
    BY <1>4 DEF AlreadyStarted
  <2>2. step = "start"
    BY <1>1, <2>1 DEF InboxInv, Busy, Task
  <2>3. ASSUME "server" \notin failed
        PROVE  handle \in Listening /\ server[handle].port = shown
    <3>1. handle \in Server /\ server[handle].phase = "serving"
      BY <2>1, <2>3 DEF ServerInv, TypeOK
    <3> QED BY <2>1, <3>1 DEF ServerInv, Listening
  <2>4. Listening' = Listening
    BY <2>1 DEF Listening
  <2> QED BY <1>1, <2>1, <2>2, <2>3, <2>4 DEF Answered, Told
<1>5. CASE AlreadyStopped
  <2>1. ~tx /\ worker.pc = "stop" /\ UNCHANGED <<task, probing>>
    BY <1>5 DEF AlreadyStopped
  <2>2. step = "stop"
    BY <1>1, <2>1 DEF InboxInv, Busy, Task
  <2>3. handle = None
    BY <2>1 DEF ServerInv
  <2>4. \A t \in Alive : t \in Server /\ t = None
    BY <2>3 DEF ServerInv, OneServer, Alive
  <2>5. Alive' = {}
    BY <2>1, <2>4, ServiceConstants DEF Alive
  <2> QED BY <1>1, <2>1, <2>2, <2>5 DEF Answered, Told, ProberInv
<1>6. CASE Publish
  <2>1. /\ worker.pc = "publish" /\ shown' = worker.cfg.port
        /\ UNCHANGED <<tx, handle, server, failed>>
    BY <1>6 DEF Publish
  <2>2. step = "start"
    BY <1>1, <2>1 DEF InboxInv, Busy, Task
  <2>3. ASSUME "server" \notin failed
        PROVE  handle \in Listening /\ server[handle].port = worker.cfg.port
    <3>1. handle \in Server /\ server[handle].phase = "serving"
      BY <2>1, <2>3 DEF ServerInv, TypeOK
    <3> QED BY <2>1, <3>1 DEF ServerInv, Listening, Alive
  <2>4. Listening' = Listening
    BY <2>1 DEF Listening
  <2> QED BY <1>1, <2>1, <2>2, <2>3, <2>4 DEF Answered, Told
<1>7. CASE Joined
  <2>1. /\ worker.pc = "join" /\ server' = [server EXCEPT ![handle] = Ended]
        /\ UNCHANGED probing
    BY <1>7 DEF Joined
  <2>2. step = "stop"
    BY <1>1, <2>1 DEF InboxInv, Busy, Task
  <2>3. ~tx
    BY <2>1 DEF ServerInv
  <2>4. Alive' = {}
    BY <2>1 DEF ServerInv, OneServer, Alive, Ended, TypeOK
  <2> QED BY <1>1, <2>1, <2>2, <2>3, <2>4 DEF Answered, Told, ProberInv
<1>8. ~LoadFails /\ ~BindFails
  BY <1>3 DEF LoadFails, BindFails
<1>9. ~Reload
  <2>1. Reload => At(c) = "reload"
    BY <1>1 DEF Reload, InboxInv, Busy, Task
  <2> QED BY <1>1, <2>1
<1>10. ~LoadConfig /\ ~BindAndSpawn /\ ~TellServer
  BY <1>2 DEF LoadConfig, BindAndSpawn, TellServer, TypeOK
<1>11. ~Receive
  <2>1. Receive => worker'.pc = At(Head(inbox)) /\ At(Head(inbox)) \in Command
    <3>1. Receive => inbox \in Seq(Client) /\ inbox # <<>>
      BY DEF Receive, TypeOK
    <3>2. Receive => Head(inbox) = inbox[1] /\ 1 \in DOMAIN inbox
      BY <3>1
    <3>3. Receive => At(Head(inbox)) \in Command
      BY <3>2 DEF InboxInv
    <3>4. Receive => worker'.pc = At(Head(inbox))
      BY DEF Receive, Rest
    <3> QED BY <3>3, <3>4
  <2> QED BY <1>2, <2>1 DEF Command
<1>12. ~ShutdownNow /\ ~Crash
  BY <1>2 DEF ShutdownNow, Crash, Gone, Rest
<1>13. ASSUME NEW d \in Client
       PROVE  /\ ~ClientStep(d) /\ ~StoreFails(d)
              /\ \A op \in DOMAIN Steps : ~Begin(d, op)
  BY <1>2 DEF ClientStep, StoreFails, Begin, Read, Write, Send, Return
<1>14. ASSUME NEW t \in Server
       PROVE  ~ServerReturns(t) /\ ~ClearPort(t) /\ ~TaskEnds(t)
  BY <1>2 DEF ServerReturns, ClearPort, TaskEnds
<1>15. ~ConfigureBeside /\ \A p \in Port : ~Occupy(p) /\ ~Vacate(p)
  BY <1>2 DEF ConfigureBeside, Occupy, Vacate
<1>16. ASSUME NEW d \in Client, NEW op, NEW ok, Boot(d, op, ok)
       PROVE  FALSE
  <2>1. client' = [client EXCEPT ![d] = [Idle EXCEPT !.op = op]]
    BY <1>16 DEF Boot
  <2>2. client'[c].at = 1 \/ client'[c] = client[c]
    BY <2>1 DEF Idle, TypeOK
  <2> QED BY <1>1, <2>2
<1> QED
  BY <1>4, <1>5, <1>6, <1>7, <1>8, <1>9, <1>10, <1>11, <1>12, <1>13, <1>14, <1>15, <1>16
  DEF Next, Work, Environment

\* A stop is answered when no task and no prober is left, and a start when the
\* published port is listened on, whoever else asks in between.
THEOREM AnswersAlwaysTrue == Spec => AnswersAreTrue
<1>1. AnswersAreTrue <=> [][\A c \in Client : Told(c)]_vars
  BY DEF AnswersAreTrue, Told
<1>2. TypeOK /\ InboxInv /\ (ServerInv /\ ProberInv) /\ [Next]_vars =>
        [\A c \in Client : Told(c)]_vars
  BY AnswerIsTrue
<1> QED BY <1>1, <1>2, TypesInductive, ServerInductive, PTL DEF Spec

(***************************************************************************)
(* The configuration in force, and the intent                              *)
(***************************************************************************)

Matches(cfg) == cfg.port = stored.port /\ cfg.interval = stored.interval

HostOps(r) == /\ r.op = "connect" => host = "desktop"
              /\ r.op = "configure" => host = "daemon"
\* The process runs, and neither its database nor another program has interfered.
Clean == failed \cap {"db", "beside"} = {} /\ worker.pc # "off"

\* What the worker has loaded is live, and the prober goes by it.
HeldInv ==
  /\ worker.pc \in {"bind", "publish"} => worker.cfg = live
  /\ tx /\ worker.pc # "publish" => held = live.interval

\* Only the daemon changes the port or the interval, and whoever does has yet to
\* reload when the stored ones are not the ones in force; what the interface's
\* callers are about to write, which not all of them reload, keeps both.
ForceInv ==
  /\ \A c \in Client : HostOps(client[c])
  /\ Clean => /\ Matches(live) \/ \E c \in Client : At(c) = "reload"
              /\ host = "desktop" => \A c \in Client : At(c) = "write" => Matches(client[c].cfg)

\* The daemon serves one request at a time, and closes beside it at most.
OneRequest ==
  host = "daemon" =>
    \A c, d \in Client :
      c = d \/ client[c] = Idle \/ client[d] = Idle \/ "close" \in {client[c].op, client[d].op}

\* How far an operation that nobody disturbs has brought the stored intent and the
\* listener.
Progress(c) ==
  /\ client[c].op \in {"enable", "restart"} =>
       /\ At(c) = "write" => client[c].cfg.enabled
       /\ At(c) \in {"reload", "start"} => stored.enabled
       /\ At(c) = "end" /\ client[c].at # 7 => stored.enabled /\ Listening # {}
  /\ client[c].op = "disable" =>
       /\ At(c) = "write" => ~client[c].cfg.enabled
       /\ At(c) \in {"reload", "stop"} => ~stored.enabled
       /\ At(c) = "end" /\ client[c].at # 7 => ~stored.enabled /\ Listening = {}
  /\ client[c].op = "autostart" =>
       /\ At(c) = "read" => Listening = {}
       /\ At(c) = "start" => stored.enabled
       /\ At(c) = "end" /\ client[c].at # 7 => (stored.enabled <=> Listening # {})

Alone(c) == \A d \in Client \ {c} : client[d] = Idle
IntentInv ==
  /\ OneRequest
  /\ host = "daemon" /\ failed \cap {"server", "beside"} = {} =>
       \A c \in Client : Alone(c) => Progress(c)

\* The step a caller's record stands at.
StepOf(r) == IF r.at \in DOMAIN Steps[r.op] THEN Steps[r.op][r.at] ELSE "end"

LEMMA StepIsAt == \A c \in Client : At(c) = StepOf(client[c]) /\ At(c)' = StepOf(client'[c])
BY DEF At, StepOf

\* What follows what, in the operations that write or start.
LEMMA StepOrder ==
  ASSUME NEW r \in ClientRec, NEW s \in ClientRec, s.op = r.op, s.at = r.at + 1, StepOf(r) # "end"
  PROVE  /\ StepOf(r) = "write" => StepOf(s) = (IF r.op = "connect" THEN "start" ELSE "reload")
         /\ StepOf(s) = "write" => StepOf(r) = "read"
         /\ s.at # 7
         /\ r.op \in {"enable", "restart"} =>
              /\ StepOf(s) \in {"reload", "start"} => StepOf(r) \in {"write", "reload"}
              /\ StepOf(s) = "end" => StepOf(r) = "start"
         /\ r.op = "disable" =>
              /\ StepOf(s) \in {"reload", "stop"} => StepOf(r) \in {"write", "reload"}
              /\ StepOf(s) = "end" => StepOf(r) = "stop"
         /\ r.op = "autostart" =>
              /\ StepOf(s) # "read" /\ StepOf(r) \in {"read", "start"}
              /\ StepOf(s) = "start" => StepOf(r) = "read"
              /\ StepOf(s) = "end" => StepOf(r) = "start"
<1>1. r.op \in DOMAIN Steps /\ r.at \in 1 .. 7 /\ r.at \in DOMAIN Steps[r.op]
  BY DEF ClientRec, StepOf
<1>2. CASE r.op \in {"none", "serve", "close"}
  BY <1>1, <1>2 DEF Steps, StepOf
<1>3. CASE r.op = "enable"
  BY <1>1, <1>3 DEF Steps, StepOf
<1>4. CASE r.op = "disable"
  BY <1>1, <1>4 DEF Steps, StepOf
<1>5. CASE r.op = "configure"
  BY <1>1, <1>5 DEF Steps, StepOf
<1>6. CASE r.op = "restart"
  BY <1>1, <1>6 DEF Steps, StepOf
<1>7. CASE r.op = "connect"
  BY <1>1, <1>7 DEF Steps, StepOf
<1>8. CASE r.op = "autostart"
  BY <1>1, <1>8 DEF Steps, StepOf
<1> QED BY <1>1, <1>2, <1>3, <1>4, <1>5, <1>6, <1>7, <1>8, StepsShape

\* The last step, which a caller jumps to when there is nothing to write; an
\* operation that is over, or given up, stands at "end".
LEMMA LastStep ==
  ASSUME NEW r \in ClientRec
  PROVE  /\ r.at = Len(Steps[r.op]) =>
              /\ r.op \in {"enable", "restart", "autostart"} => StepOf(r) = "start"
              /\ r.op = "disable" => StepOf(r) = "stop"
              /\ StepOf(r) \notin {"write", "reload"} \/ r.op = "configure"
         /\ r.at = Len(Steps[r.op]) + 1 \/ r.at = 7 => StepOf(r) = "end"
         /\ r = Idle => StepOf(r) = "end"
         /\ StepOf(r) = "read" /\ r.op = "autostart" => r.at = 1
<1>1. r.op \in DOMAIN Steps /\ r.at \in 1 .. 7
  BY DEF ClientRec
<1>2. CASE r.op \in {"none", "serve", "close"}
  BY <1>1, <1>2 DEF Steps, StepOf, Idle
<1>3. CASE r.op \in {"enable", "disable", "configure"}
  BY <1>1, <1>3 DEF Steps, StepOf, Idle
<1>4. CASE r.op = "restart"
  BY <1>1, <1>4 DEF Steps, StepOf, Idle
<1>5. CASE r.op = "connect"
  BY <1>1, <1>5 DEF Steps, StepOf, Idle
<1>6. CASE r.op = "autostart"
  BY <1>1, <1>6 DEF Steps, StepOf, Idle
<1> QED BY <1>1, <1>2, <1>3, <1>4, <1>5, <1>6, StepsShape

\* The parts of the state the callers' own moves leave alone.
LEMMA CallersLeave ==
  ASSUME NEW c \in Client, \/ ClientStep(c) \/ StoreFails(c)
                           \/ \E op \in DOMAIN Steps : Begin(c, op)
  PROVE  UNCHANGED <<host, live, worker, task, probing, taken>> /\ failed \subseteq failed'
BY DEF ClientStep, StoreFails, Fault, Begin, Read, Write, Send, Return, task, probing

LEMMA ReceiveShape ==
  ASSUME TypeOK, InboxInv, Receive
  PROVE  /\ Head(inbox) \in Client /\ At(Head(inbox)) \in Command
         /\ worker'.pc = At(Head(inbox)) /\ worker.pc = "idle"
<1>1. inbox \in Seq(Client) /\ inbox # <<>>
  BY DEF Receive, TypeOK
<1>2. Head(inbox) = inbox[1] /\ 1 \in DOMAIN inbox /\ Head(inbox) \in Client
  BY <1>1
<1> QED BY <1>2 DEF InboxInv, Receive, Rest

LEMMA HeldKept ==
  ASSUME TypeOK, InboxInv, ServerInv, ProberInv, HeldInv, Next
  PROVE  HeldInv'
<1> USE DEF task, probing
<1>1. UNCHANGED <<live, worker, tx, held>> => HeldInv'
  BY DEF HeldInv
<1>2. ASSUME NEW c \in Client, ClientStep(c) \/ StoreFails(c) \/ \E op \in DOMAIN Steps : Begin(c, op)
      PROVE  HeldInv'
  BY <1>1, <1>2, CallersLeave
<1>3. ASSUME NEW t \in Server, ServerReturns(t) \/ ClearPort(t) \/ TaskEnds(t)
      PROVE  HeldInv'
  BY <1>1, <1>3 DEF ServerReturns, ClearPort, TaskEnds
<1>4. CASE AlreadyStarted \/ BindFails \/ AlreadyStopped \/ LoadFails \/ Joined
  <2>1. UNCHANGED <<live, tx, held>> /\ worker' = Rest /\ worker.pc # "publish"
    BY <1>4 DEF AlreadyStarted, BindFails, AlreadyStopped, LoadFails, Joined, Answer
  <2> QED BY <2>1 DEF HeldInv, Rest
<1>5. CASE Receive
  <2>1. worker.pc = "idle" /\ worker'.pc \in Command /\ UNCHANGED live
    BY <1>5, ReceiveShape DEF Receive
  <2>2. UNCHANGED <<tx, held>> \/ tx' = FALSE
    BY <1>5 DEF Receive, Reap
  <2> QED BY <2>1, <2>2 DEF HeldInv, Command
<1>6. CASE LoadConfig
  <2>1. /\ worker'.pc = "bind" /\ worker'.cfg = stored /\ live' = stored /\ ~tx
        /\ UNCHANGED <<tx, held>>
    BY <1>6 DEF LoadConfig, TypeOK
  <2> QED BY <2>1 DEF HeldInv
<1>7. CASE BindAndSpawn
  <2>1. /\ worker.pc = "bind" /\ worker'.pc = "publish" /\ worker'.cfg = worker.cfg
        /\ UNCHANGED live
    BY <1>7 DEF BindAndSpawn, TypeOK
  <2> QED BY <2>1 DEF HeldInv
<1>8. CASE Publish
  <2>1. /\ worker.pc = "publish" /\ worker' = Rest /\ held' = worker.cfg.interval
        /\ UNCHANGED <<live, tx>>
    BY <1>8 DEF Publish, RestartProber, Answer
  <2> QED BY <2>1 DEF HeldInv, Rest
<1>9. CASE TellServer
  <2>1. tx' = FALSE /\ worker'.pc = "join"
    BY <1>9 DEF TellServer, TypeOK
  <2> QED BY <2>1 DEF HeldInv
<1>10. CASE Reload
  <2>1. worker.pc = "reload" /\ worker' = Rest /\ live' = stored /\ UNCHANGED tx
    BY <1>10 DEF Reload, Answer
  <2>2. tx => held' = stored.interval
    BY <1>10 DEF Reload, RestartProber
  <2> QED BY <2>1, <2>2 DEF HeldInv, Rest
<1>11. CASE ShutdownNow \/ Crash
  <2>1. tx' = FALSE /\ worker'.pc = "off"
    BY <1>11 DEF ShutdownNow, Crash, Gone, Rest
  <2> QED BY <2>1 DEF HeldInv
<1>12. CASE ConfigureBeside \/ \E p \in Port : Occupy(p) \/ Vacate(p)
  BY <1>1, <1>12 DEF ConfigureBeside, Occupy, Vacate
<1>13. ASSUME NEW c \in Client, NEW op, NEW ok, Boot(c, op, ok)
       PROVE  HeldInv'
  <2>1. worker.pc = "off" /\ worker' = Rest /\ UNCHANGED <<tx, held>>
    BY <1>13 DEF Boot
  <2>2. ~tx
    BY <2>1 DEF ServerInv
  <2> QED BY <2>1, <2>2 DEF HeldInv, Rest
<1> QED
  BY <1>2, <1>3, <1>4, <1>5, <1>6, <1>7, <1>8, <1>9, <1>10, <1>11, <1>12, <1>13
  DEF Next, Work, Environment

\* A caller's record after the step that moves it, whoever makes that step.
LEMMA Moved ==
  ASSUME TypeOK, NEW c \in Client, NEW r \in ClientRec, client' = [client EXCEPT ![c] = r]
  PROVE  /\ client'[c] = r /\ At(c)' = StepOf(r)
         /\ \A d \in Client \ {c} : client'[d] = client[d] /\ At(d)' = At(d)
BY StepIsAt, ClientSets

\* Onward leads to the next step of the operation, GiveUp to its end.
LEMMA OnwardShape ==
  ASSUME TypeOK, NEW c \in Client, At(c) # "end"
  PROVE  /\ client[c] \in ClientRec /\ Onward(c) \in ClientRec /\ Onward(c).op = client[c].op
         /\ Onward(c).at = client[c].at + 1 /\ client[c].at \in 1 .. 5
         /\ StepOf(client[c]) = At(c) /\ StepOf(client[c]) # "end"
<1>1. client[c] \in ClientRec /\ client[c].at \in 1 .. 5
  BY AtShape DEF TypeOK, ClientRec
<1>2. Onward(c).op = client[c].op /\ Onward(c).at = client[c].at + 1
  BY <1>1 DEF Onward, Goto, ClientRec
<1> QED BY <1>1, <1>2, GotoIsClient, StepIsAt

LEMMA GiveUpShape ==
  ASSUME TypeOK, NEW c \in Client
  PROVE  /\ GiveUp(c) \in ClientRec /\ GiveUp(c).op = client[c].op /\ GiveUp(c).at = 7
         /\ StepOf(GiveUp(c)) = "end"
<1>1. client[c] \in ClientRec
  BY DEF TypeOK, ClientRec
<1>2. GiveUp(c).op = client[c].op /\ GiveUp(c).at = 7
  BY <1>1 DEF GiveUp, Goto, ClientRec
<1> QED BY <1>2, GotoIsClient, LastStep

\* A caller that moves without touching the configuration, and not past a reload.
LEMMA ForceMove ==
  ASSUME TypeOK, ForceInv, NEW c \in Client, NEW r \in ClientRec, client' = [client EXCEPT ![c] = r],
         HostOps(r), UNCHANGED <<host, stored, live>>, worker.pc # "off", failed \subseteq failed',
         \/ "db" \in failed'
         \/ At(c) # "reload" /\ StepOf(r) # "write"
         \/ At(c) # "reload" /\ Matches(r.cfg)
         \/ StepOf(r) = At(c) /\ r.cfg = client[c].cfg
  PROVE  ForceInv'
<1>1. /\ client'[c] = r /\ At(c)' = StepOf(r)
      /\ \A d \in Client \ {c} : client'[d] = client[d] /\ At(d)' = At(d)
  BY Moved
<1>2. \A d \in Client : HostOps(client[d])'
  <2>1. \A d \in Client : HostOps(client[d])
    BY DEF ForceInv
  <2> QED BY <1>1, <2>1 DEF HostOps
<1>3. ASSUME Clean'
      PROVE  /\ Matches(live)' \/ \E d \in Client : At(d)' = "reload"
             /\ host = "desktop" => \A d \in Client : At(d)' = "write" => Matches(client[d].cfg)'
  <2>1. Clean /\ "db" \notin failed'
    BY <1>3 DEF Clean
  <2>2. /\ Matches(live) \/ \E d \in Client : At(d) = "reload"
        /\ host = "desktop" => \A d \in Client : At(d) = "write" => Matches(client[d].cfg)
    BY <2>1 DEF ForceInv
  <2>3. ASSUME Matches(live) PROVE Matches(live)'
    BY <2>3 DEF Matches
  <2>4. ASSUME NEW d \in Client, At(d) = "reload" PROVE \E e \in Client : At(e)' = "reload"
    BY <1>1, <2>1, <2>4
  <2>5. ASSUME NEW d \in Client, host = "desktop", At(d)' = "write" PROVE Matches(client[d].cfg)'
    <3>1. Matches(client'[d].cfg)
      BY <1>1, <2>1, <2>2, <2>5
    <3> QED BY <3>1 DEF Matches
  <2> QED BY <2>2, <2>3, <2>4, <2>5
<1>4. host' = host
  OBVIOUS
<1> QED BY <1>2, <1>3, <1>4 DEF ForceInv

\* Begin takes an idle caller to the first step of an operation its host offers.
LEMMA BeginShape ==
  ASSUME TypeOK, NEW c \in Client, NEW op \in DOMAIN Steps, Begin(c, op)
  PROVE  \E r \in ClientRec :
           /\ client' = [client EXCEPT ![c] = r] /\ r.op = op /\ r.at = 1
           /\ op \notin {"none", "autostart"} /\ HostOps(r)
           /\ StepOf(r) \notin {"write", "reload", "end"}
           /\ op \in {"enable", "disable", "restart"} => StepOf(r) = IF op = "restart" THEN "stop" ELSE "read"
           /\ client[c] = Idle /\ At(c) = "end"
<1> DEFINE r == [client[c] EXCEPT !.op = op]
<1>1. client[c] \in ClientRec /\ client[c] = Idle /\ client' = [client EXCEPT ![c] = r]
  BY IdleIsClient DEF Begin
<1>2. r \in ClientRec /\ r.op = op /\ r.at = 1
  <2>1. r \in ClientRec /\ r.op = op /\ r.at = client[c].at
    BY <1>1 DEF ClientRec
  <2>2. client[c].at = 1
    BY <1>1 DEF Idle
  <2> HIDE DEF r
  <2> QED BY <2>1, <2>2
<1>3. HostOps(r) /\ op \notin {"none", "autostart"}
  BY <1>2 DEF Begin, MayBegin, HostOps
<1>4. /\ StepOf(r) \notin {"write", "reload", "end"}
      /\ op \in {"enable", "disable", "restart"} => StepOf(r) = IF op = "restart" THEN "stop" ELSE "read"
  <2>1. op \in DOMAIN Steps \ {"none"}
    BY <1>3
  <2>2. /\ 1 \in DOMAIN Steps[op] /\ Steps[op][1] \notin {"write", "reload", "end"}
        /\ op \in {"enable", "disable", "restart"} =>
             Steps[op][1] = IF op = "restart" THEN "stop" ELSE "read"
    BY <2>1 DEF Steps
  <2> QED BY <1>2, <2>2 DEF StepOf
<1>5. At(c) = "end"
  BY <1>1, IdleIsAtEnd
<1> HIDE DEF r
<1> QED BY <1>1, <1>2, <1>3, <1>4, <1>5

\* What a read leads to: the write of a configuration wanted, with the stored port and
\* interval unless it is the daemon's configure, or the last step, or the end.
LEMMA ReadShape ==
  ASSUME TypeOK, NEW c \in Client, Read(c)
  PROVE  \E r \in ClientRec :
           /\ client' = [client EXCEPT ![c] = r] /\ r.op = client[c].op
           /\ \/ /\ r.cfg \in Wanted(r.op, stored) /\ r.at = client[c].at + 1
                 /\ r.op # "configure" => Matches(r.cfg)
              \/ /\ Wanted(r.op, stored) = {} /\ StepOf(r) \notin {"write", "reload"}
                 /\ r.at = Len(Steps[r.op])
                 /\ r.op = "autostart" => stored.enabled
              \/ /\ r.op = "autostart" /\ ~stored.enabled
                 /\ r.at = Len(Steps[r.op]) + 1 /\ StepOf(r) = "end"
<1>1. At(c) = "read" /\ client[c] \in ClientRec /\ stored \in Config
  BY DEF Read, TypeOK, ClientRec
<1>2. Onward(c) \in ClientRec /\ Onward(c).op = client[c].op /\ Onward(c).at = client[c].at + 1
  BY <1>1, OnwardShape
<1>3. ASSUME NEW cfg \in Wanted(client[c].op, stored),
             client' = [client EXCEPT ![c] = [Onward(c) EXCEPT !.cfg = cfg]]
      PROVE  \E r \in ClientRec :
               /\ client' = [client EXCEPT ![c] = r] /\ r.op = client[c].op
               /\ r.cfg \in Wanted(r.op, stored) /\ r.at = client[c].at + 1
               /\ r.op # "configure" => Matches(r.cfg)
  <2> DEFINE r == [Onward(c) EXCEPT !.cfg = cfg]
  <2>1. cfg \in Config /\ (client[c].op # "configure" => Matches(cfg))
    BY <1>1, <1>3 DEF Wanted, Config, Matches
  <2>2. /\ r \in ClientRec /\ r.op = client[c].op /\ r.at = client[c].at + 1 /\ r.cfg = cfg
    BY <1>2, <2>1 DEF ClientRec
  <2> HIDE DEF r
  <2>3. client' = [client EXCEPT ![c] = r]
    BY <1>3 DEF r
  <2> QED BY <2>1, <2>2, <2>3
<1> DEFINE k == Len(Steps[client[c].op])
           at == IF client[c].op = "autostart" /\ ~stored.enabled THEN k + 1 ELSE k
<1>4. ASSUME Wanted(client[c].op, stored) = {}, client' = [client EXCEPT ![c] = Goto(c, at)]
      PROVE  \E r \in ClientRec :
               /\ client' = [client EXCEPT ![c] = r] /\ r.op = client[c].op
               /\ \/ /\ Wanted(r.op, stored) = {} /\ StepOf(r) \notin {"write", "reload"}
                     /\ r.at = Len(Steps[r.op])
                     /\ r.op = "autostart" => stored.enabled
                  \/ /\ r.op = "autostart" /\ ~stored.enabled
                     /\ r.at = Len(Steps[r.op]) + 1 /\ StepOf(r) = "end"
  <2>1. k \in 1 .. 5
    <3>1. client[c].op \in DOMAIN Steps \ {"none"}
      BY <1>1 DEF At, Steps, ClientRec
    <3> QED BY <3>1 DEF Steps
  <2>2. at \in 1 .. 7
    <3> HIDE DEF k
    <3> QED BY <2>1
  <2> DEFINE r == Goto(c, at)
  <2>3. r \in ClientRec /\ r.op = client[c].op /\ r.at = at
    <3> HIDE DEF at
    <3> QED BY <1>1, <2>2, GotoIsClient DEF Goto, ClientRec
  <2>4. client[c].op # "configure"
    BY <1>4, ServiceConstants DEF Wanted
  <2>5. CASE r.op = "autostart" /\ ~stored.enabled
    <3>1. r.at = Len(Steps[r.op]) + 1
      BY <2>3, <2>5
    <3>2. StepOf(r) = "end"
      BY <2>3, <3>1, LastStep
    <3> HIDE DEF r
    <3>3. client' = [client EXCEPT ![c] = r]
      BY <1>4 DEF r
    <3> QED BY <2>3, <2>5, <3>1, <3>2, <3>3
  <2>6. CASE ~(r.op = "autostart" /\ ~stored.enabled)
    <3>1. r.at = Len(Steps[r.op]) /\ r.op # "configure"
      BY <2>3, <2>4, <2>6
    <3>2. StepOf(r) \notin {"write", "reload"}
      BY <2>3, <3>1, LastStep
    <3> HIDE DEF r
    <3>3. client' = [client EXCEPT ![c] = r]
      BY <1>4 DEF r
    <3> QED BY <1>4, <2>3, <2>6, <3>1, <3>2, <3>3
  <2> QED BY <2>5, <2>6
<1>5. \/ \E cfg \in Wanted(client[c].op, stored) :
           client' = [client EXCEPT ![c] = [Onward(c) EXCEPT !.cfg = cfg]]
      \/ Wanted(client[c].op, stored) = {} /\ client' = [client EXCEPT ![c] = Goto(c, at)]
  BY DEF Read
<1> HIDE DEF at
<1>6. CASE \E cfg \in Wanted(client[c].op, stored) :
             client' = [client EXCEPT ![c] = [Onward(c) EXCEPT !.cfg = cfg]]
  BY <1>3, <1>6
<1>7. CASE Wanted(client[c].op, stored) = {} /\ client' = [client EXCEPT ![c] = Goto(c, at)]
  BY <1>4, <1>7
<1> QED BY <1>5, <1>6, <1>7

\* The answer moves the caller served, which stands at the command served.
LEMMA AnswerShape ==
  ASSUME TypeOK, InboxInv, Busy, NEW ok \in BOOLEAN, Answer(ok)
  PROVE  \E c \in Client, r \in ClientRec :
           /\ c = worker.from /\ At(c) = Task(worker.pc) /\ At(c) # "end"
           /\ client' = [client EXCEPT ![c] = r] /\ r.op = client[c].op
           /\ ok => r = Onward(c) /\ r.at = client[c].at + 1
           /\ ~ok => r = GiveUp(c) /\ r.at = 7
<1> DEFINE c == worker.from
           r == IF ok THEN Onward(c) ELSE GiveUp(c)
<1>1. c \in Client /\ At(c) = Task(worker.pc) /\ At(c) # "end"
  BY DEF InboxInv, Task
<1>2. /\ r \in ClientRec /\ r.op = client[c].op /\ client' = [client EXCEPT ![c] = r]
      /\ ok => r = Onward(c) /\ r.at = client[c].at + 1
      /\ ~ok => r = GiveUp(c) /\ r.at = 7
  BY <1>1, OnwardShape, GiveUpShape DEF Answer
<1> HIDE DEF r
<1> QED BY <1>1, <1>2

LEMMA ForceKept ==
  ASSUME TypeOK, InboxInv, ServerInv, ForceInv, Next
  PROVE  ForceInv'
<1> USE DEF task, probing
<1>0. \A c \in Client : At(c)' = StepOf(client'[c]) /\ HostOps(client[c])
  BY StepIsAt DEF ForceInv
\* Nothing the configuration depends on changes.
<1>1. ASSUME UNCHANGED <<host, stored, live, client>>, failed \subseteq failed',
             worker.pc # "off" \/ worker'.pc = "off"
      PROVE  ForceInv'
  <2>1. \A c \in Client : At(c)' = At(c)
    BY <1>1 DEF At
  <2>2. Clean' => Clean
    BY <1>1 DEF Clean
  <2> QED BY <1>1, <2>1, <2>2 DEF ForceInv, HostOps, Matches
<1>2. ASSUME NEW c \in Client, NEW op \in DOMAIN Steps, Begin(c, op)
      PROVE  ForceInv'
  <2>1. PICK r \in ClientRec : /\ client' = [client EXCEPT ![c] = r] /\ HostOps(r)
                               /\ StepOf(r) \notin {"write", "reload", "end"} /\ At(c) = "end"
    BY <1>2, BeginShape
  <2>2. UNCHANGED <<host, stored, live, failed>> /\ worker.pc # "off"
    BY <1>2 DEF Begin
  <2> QED BY <2>1, <2>2, ForceMove
<1>3. ASSUME NEW c \in Client, Read(c)
      PROVE  ForceInv'
  <2>1. PICK r \in ClientRec :
           /\ client' = [client EXCEPT ![c] = r] /\ r.op = client[c].op
           /\ \/ r.op # "configure" => Matches(r.cfg)
              \/ StepOf(r) \notin {"write", "reload"}
    BY <1>3, ReadShape
  <2>2. UNCHANGED <<host, stored, live, failed, worker>> /\ At(c) = "read" /\ worker.pc # "off"
    BY <1>3, IdleIsAtEnd DEF Read, InboxInv
  <2>3. HostOps(r)
    BY <1>0, <2>1 DEF HostOps
  <2>4. CASE StepOf(r) \notin {"write", "reload"} \/ Matches(r.cfg)
    BY <2>1, <2>2, <2>3, <2>4, ForceMove
  <2>5. CASE r.op = "configure"
    <3>1. host = "daemon"
      BY <2>3, <2>5 DEF HostOps
    <3>2. /\ client'[c] = r /\ At(c)' = StepOf(r)
          /\ \A d \in Client \ {c} : client'[d] = client[d] /\ At(d)' = At(d)
      BY <2>1, Moved
    <3>3. Clean' => Clean
      BY <2>2 DEF Clean
    <3>4. \A d \in Client : HostOps(client[d])'
      BY <1>0, <2>2, <2>3, <3>2 DEF HostOps
    <3>5. Clean => Matches(live) \/ \E d \in Client : At(d) = "reload"
      BY DEF ForceInv
    <3>6. Clean' => Matches(live)' \/ \E d \in Client : At(d)' = "reload"
      BY <2>2, <3>2, <3>3, <3>5 DEF Matches
    <3> QED BY <2>2, <3>1, <3>4, <3>6 DEF ForceInv
  <2> QED BY <2>1, <2>4, <2>5
<1>4. ASSUME NEW c \in Client, Write(c)
      PROVE  ForceInv'
  <2>1. /\ At(c) = "write" /\ stored' = client[c].cfg /\ client' = [client EXCEPT ![c] = Onward(c)]
        /\ UNCHANGED <<host, live, worker, failed>>
    BY <1>4 DEF Write
  <2>2. Onward(c) \in ClientRec /\ Onward(c).op = client[c].op /\ Onward(c).at = client[c].at + 1
    BY <2>1, OnwardShape
  <2>3. StepOf(Onward(c)) = IF client[c].op = "connect" THEN "start" ELSE "reload"
    BY <2>1, <2>2, OnwardShape, StepOrder
  <2>4. /\ client'[c] = Onward(c) /\ At(c)' = StepOf(Onward(c))
        /\ \A d \in Client \ {c} : client'[d] = client[d] /\ At(d)' = At(d)
    BY <2>1, <2>2, Moved
  <2>5. \A d \in Client : HostOps(client[d])'
    BY <1>0, <2>1, <2>2, <2>4 DEF HostOps
  <2>6. CASE host = "desktop"
    <3>1. ASSUME Clean'
          PROVE  /\ Matches(live)' \/ \E d \in Client : At(d)' = "reload"
                 /\ \A d \in Client : At(d)' = "write" => Matches(client[d].cfg)'
      <4>1. Clean
        BY <2>1, <3>1 DEF Clean
      <4>2. /\ Matches(live) \/ \E d \in Client : At(d) = "reload"
            /\ \A d \in Client : At(d) = "write" => Matches(client[d].cfg)
        BY <2>6, <4>1 DEF ForceInv
      <4>3. stored'.port = stored.port /\ stored'.interval = stored.interval
        BY <2>1, <4>2 DEF Matches
      <4>4. Matches(live)' \/ \E d \in Client : At(d)' = "reload"
        BY <2>1, <2>4, <4>2, <4>3 DEF Matches
      <4>5. \A d \in Client : At(d)' = "write" => Matches(client[d].cfg)'
        <5> SUFFICES ASSUME NEW d \in Client, At(d)' = "write"
                     PROVE  client'[d].cfg.port = stored'.port /\ client'[d].cfg.interval = stored'.interval
          BY DEF Matches
        <5>1. d # c
          BY <2>3, <2>4
        <5> QED BY <2>4, <4>2, <4>3, <5>1 DEF Matches
      <4> QED BY <4>4, <4>5
    <3> QED BY <2>1, <2>5, <3>1 DEF ForceInv
  <2>7. CASE host # "desktop"
    <3>1. client[c].op # "connect"
      BY <1>0, <2>7 DEF HostOps
    <3>2. At(c)' = "reload"
      BY <2>3, <2>4, <3>1
    <3> QED BY <2>1, <2>5, <2>7, <3>2 DEF ForceInv
  <2> QED BY <2>6, <2>7
<1>5. ASSUME NEW c \in Client, StoreFails(c)
      PROVE  ForceInv'
  <2>1. /\ client' = [client EXCEPT ![c] = GiveUp(c)] /\ UNCHANGED <<host, stored, live>>
        /\ failed \subseteq failed' /\ "db" \in failed' /\ At(c) \in {"read", "write"}
    BY <1>5 DEF StoreFails, Fault
  <2>2. GiveUp(c) \in ClientRec /\ HostOps(GiveUp(c))
    BY <1>0, GiveUpShape DEF HostOps
  <2>3. worker.pc # "off"
    BY <2>1, IdleIsAtEnd DEF InboxInv
  <2> QED BY <2>1, <2>2, <2>3, ForceMove
<1>6. ASSUME NEW c \in Client, Send(c)
      PROVE  ForceInv'
  <2> DEFINE r == [client[c] EXCEPT !.asking = TRUE]
  <2>1. /\ r \in ClientRec /\ r.op = client[c].op /\ r.at = client[c].at /\ r.cfg = client[c].cfg
    BY DEF TypeOK, ClientRec
  <2>2. /\ client' = [client EXCEPT ![c] = r] /\ UNCHANGED <<host, stored, live, failed>>
        /\ At(c) \in Command
    BY <1>6 DEF Send
  <2> HIDE DEF r
  <2>3. HostOps(r) /\ StepOf(r) = At(c)
    BY <1>0, <2>1, StepIsAt DEF HostOps, StepOf
  <2>4. worker.pc # "off"
    BY <2>2, IdleIsAtEnd DEF InboxInv, Command
  <2> QED BY <2>1, <2>2, <2>3, <2>4, ForceMove
<1>7. ASSUME NEW c \in Client, Return(c)
      PROVE  ForceInv'
  <2>1. /\ client' = [client EXCEPT ![c] = Idle] /\ UNCHANGED <<host, stored, live, failed>>
        /\ At(c) = "end" /\ client[c].op # "none"
    BY <1>7 DEF Return
  <2>2. Idle \in ClientRec /\ HostOps(Idle) /\ StepOf(Idle) = "end" /\ Idle.op = "none"
    BY IdleIsClient, LastStep DEF HostOps, Idle
  <2>3. worker.pc # "off"
    BY <2>1, <2>2 DEF InboxInv
  <2> QED BY <2>1, <2>2, <2>3, ForceMove
\* An answer to a start or a stop.
<1>8. ASSUME Busy, NEW ok \in BOOLEAN, Answer(ok), UNCHANGED <<host, stored, live>>, failed \subseteq failed',
             worker.pc # "reload" \/ "db" \in failed'
      PROVE  ForceInv'
  <2>1. PICK c \in Client, r \in ClientRec :
           /\ c = worker.from /\ At(c) = Task(worker.pc) /\ At(c) # "end"
           /\ client' = [client EXCEPT ![c] = r] /\ r.op = client[c].op
           /\ ok => r = Onward(c) /\ r.at = client[c].at + 1
           /\ ~ok => r = GiveUp(c) /\ r.at = 7
    BY <1>8, AnswerShape
  <2>2. HostOps(r) /\ worker.pc # "off"
    BY <1>0, <1>8, <2>1 DEF HostOps, Busy
  <2>3. worker.pc # "reload" => At(c) \in {"start", "stop"}
    BY <1>8, <2>1 DEF Busy, Task, TypeOK, WorkerState
  <2>4. StepOf(r) # "write" \/ At(c) = "reload"
    <3>1. ok => (StepOf(r) = "write" => At(c) = "read")
      BY <2>1, OnwardShape, StepOrder
    <3>2. ~ok => StepOf(r) = "end"
      BY <2>1, GiveUpShape
    <3> QED BY <2>1, <2>3, <3>1, <3>2 DEF Task
  <2> QED BY <1>8, <2>1, <2>2, <2>3, <2>4, ForceMove
<1>9. CASE AlreadyStarted \/ BindFails \/ AlreadyStopped \/ LoadFails \/ Joined \/ Publish
  <2>1. /\ Busy /\ UNCHANGED <<host, stored, live>> /\ failed \subseteq failed'
        /\ worker.pc # "reload" \/ "db" \in failed'
        /\ \E ok \in BOOLEAN : Answer(ok)
    BY <1>9 DEF AlreadyStarted, BindFails, AlreadyStopped, LoadFails, Joined, Publish, Busy, Fault
  <2> QED BY <1>8, <2>1
<1>10. CASE Receive \/ BindAndSpawn \/ TellServer
  <2>1. UNCHANGED <<host, stored, live, client, failed>> /\ worker.pc # "off"
    BY <1>10 DEF Receive, BindAndSpawn, TellServer
  <2> QED BY <1>1, <2>1
<1>11. CASE LoadConfig
  <2>1. live' = stored' /\ UNCHANGED <<host, stored, client, failed>> /\ worker.pc # "off"
    BY <1>11 DEF LoadConfig
  <2>2. \A c \in Client : At(c)' = At(c)
    BY <2>1 DEF At
  <2>3. Matches(live)' /\ (Clean' => Clean)
    BY <2>1 DEF Matches, Clean
  <2> QED BY <2>1, <2>2, <2>3 DEF ForceInv, HostOps, Matches
<1>12. CASE Reload
  <2>1. /\ live' = stored' /\ UNCHANGED <<host, stored, failed>> /\ worker.pc = "reload" /\ Answer(TRUE)
    BY <1>12 DEF Reload
  <2>2. PICK c \in Client, r \in ClientRec :
           /\ At(c) = "reload" /\ client' = [client EXCEPT ![c] = r] /\ r.op = client[c].op
           /\ r = Onward(c) /\ r.at = client[c].at + 1
    BY <2>1, AnswerShape DEF Busy, Task
  <2>3. /\ client'[c] = r /\ At(c)' = StepOf(r)
        /\ \A d \in Client \ {c} : client'[d] = client[d] /\ At(d)' = At(d)
    BY <2>2, Moved
  <2>4. At(c)' # "write"
    BY <2>2, <2>3, OnwardShape, StepOrder
  <2>5. Matches(live)' /\ (Clean' => Clean)
    BY <2>1 DEF Matches, Clean
  <2>6. \A d \in Client : HostOps(client[d])'
    BY <1>0, <2>1, <2>2, <2>3 DEF HostOps
  <2>7. ASSUME Clean', host' = "desktop", NEW d \in Client, At(d)' = "write"
        PROVE  Matches(client[d].cfg)'
    <3>1. d # c /\ At(d) = "write" /\ client'[d] = client[d]
      BY <2>3, <2>4, <2>7
    <3>2. Matches(client[d].cfg)
      BY <2>1, <2>5, <2>7, <3>1 DEF ForceInv
    <3> QED BY <2>1, <3>1, <3>2 DEF Matches
  <2> QED BY <2>5, <2>6, <2>7 DEF ForceInv
<1>13. ASSUME NEW t \in Server, ServerReturns(t) \/ ClearPort(t) \/ TaskEnds(t)
       PROVE  ForceInv'
  <2>1. UNCHANGED <<host, stored, live, client, worker>> /\ failed \subseteq failed'
    BY <1>13 DEF ServerReturns, ClearPort, TaskEnds, Fault
  <2> QED BY <1>1, <2>1
<1>14. CASE ShutdownNow \/ Crash
  <2>1. /\ worker'.pc = "off" /\ client' = [c \in Client |-> Idle] /\ UNCHANGED host
    BY <1>14 DEF ShutdownNow, Crash, Gone, Rest
  <2>2. \A c \in Client : HostOps(client[c])'
    BY <2>1 DEF HostOps, Idle
  <2> QED BY <2>1, <2>2 DEF ForceInv, Clean
<1>15. CASE ConfigureBeside
  <2>1. UNCHANGED <<host, client>> /\ "beside" \in failed'
    BY <1>15 DEF ConfigureBeside, Fault
  <2>2. ~Clean' /\ \A c \in Client : HostOps(client[c])'
    BY <1>0, <2>1 DEF HostOps, Clean
  <2> QED BY <2>2 DEF ForceInv
<1>16. ASSUME NEW p \in Port, Occupy(p) \/ Vacate(p)
       PROVE  ForceInv'
  <2>1. UNCHANGED <<host, stored, live, client, worker>> /\ failed \subseteq failed'
    BY <1>16 DEF Occupy, Vacate, Fault
  <2> QED BY <1>1, <2>1
<1>17. ASSUME NEW c \in Client, NEW op \in {"autostart", "serve"}, NEW ok, Boot(c, op, ok)
       PROVE  ForceInv'
  <2> DEFINE r == [Idle EXCEPT !.op = op]
  <2>1. /\ worker.pc = "off" /\ client' = [client EXCEPT ![c] = r] /\ UNCHANGED <<host, stored>>
        /\ live' = stored \/ "db" \in failed'
    BY <1>17 DEF Boot
  <2>2. r \in ClientRec /\ r.op = op /\ r.at = 1
    <3>1. op \in DOMAIN Steps
      BY StepsShape
    <3> QED BY <3>1, IdleIsClient DEF ClientRec, Idle
  <2>3. StepOf(r) \in {"read", "start"}
    BY <2>2 DEF StepOf, Steps
  <2> HIDE DEF r
  <2>4. /\ client'[c] = r /\ At(c)' = StepOf(r)
        /\ \A d \in Client \ {c} : client'[d] = client[d] /\ At(d)' = At(d)
    BY <2>1, <2>2, Moved
  <2>5. \A d \in Client : At(d)' # "write"
    BY <2>1, <2>3, <2>4, IdleIsAtEnd DEF InboxInv
  <2>6. \A d \in Client : HostOps(client[d])'
    BY <1>0, <2>1, <2>2, <2>4 DEF HostOps
  <2>7. Clean' => Matches(live)'
    BY <2>1 DEF Clean, Matches
  <2> QED BY <2>5, <2>6, <2>7 DEF ForceInv
<1> QED
  BY <1>2, <1>3, <1>4, <1>5, <1>6, <1>7, <1>9, <1>10, <1>11, <1>12, <1>13, <1>14, <1>15, <1>16, <1>17
  DEF Next, Work, Environment, ClientStep

LEMMA ForceAlways == Spec => [](HeldInv /\ ForceInv)
<1>1. Init => HeldInv /\ ForceInv
  <2> SUFFICES ASSUME Init PROVE HeldInv /\ ForceInv
    OBVIOUS
  <2>1. worker.pc = "off" /\ tx = FALSE /\ \A c \in Client : client[c] = Idle
    BY DEF Init, Rest
  <2> QED BY <2>1 DEF HeldInv, ForceInv, Clean, HostOps, Idle
<1>2. TypeOK /\ InboxInv /\ (ServerInv /\ ProberInv) /\ (HeldInv /\ ForceInv) /\ [Next]_vars =>
        (HeldInv /\ ForceInv)'
  <2> SUFFICES ASSUME TypeOK, InboxInv, ServerInv, ProberInv, HeldInv, ForceInv, [Next]_vars
               PROVE  HeldInv' /\ ForceInv'
    OBVIOUS
  <2>1. CASE Next
    BY <2>1, HeldKept, ForceKept
  <2>2. CASE UNCHANGED vars
    <3>1. \A c \in Client : At(c)' = At(c)
      BY <2>2 DEF vars, At
    <3> QED BY <2>2, <3>1 DEF vars, task, probing, HeldInv, ForceInv, Clean, HostOps, Matches
  <2> QED BY <2>1, <2>2
<1> QED BY <1>1, <1>2, TypesInductive, ServerInductive, PTL DEF Spec

\* Once every caller has been answered the gateway runs by what is stored, whichever
\* of them wrote last: GatewayWorker::reload_config and restart_prober against
\* the callers' reads and writes of the whole configuration.
THEOREM InForceAlways == Spec => []ConfigInForce
<1>1. TypeOK /\ InboxInv /\ (ServerInv /\ ProberInv) /\ (HeldInv /\ ForceInv) => ConfigInForce
  <2> SUFFICES ASSUME TypeOK, InboxInv, ServerInv, ProberInv, HeldInv, ForceInv,
                      Quiet, failed \cap {"db", "beside"} = {}
               PROVE  /\ live.port = stored.port /\ live.interval = stored.interval
                      /\ probers = (IF tx THEN {stored.interval} \ {0} ELSE {})
    BY DEF ConfigInForce
  <2>1. worker.pc = "idle" /\ \A c \in Client : At(c) = "end"
    BY IdleIsAtEnd DEF Quiet
  <2>2. live.port = stored.port /\ live.interval = stored.interval
    BY <2>1 DEF ForceInv, Clean, Matches
  <2>3. tx => held = stored.interval
    BY <2>1, <2>2 DEF HeldInv
  <2> QED BY <2>2, <2>3 DEF ProberInv
<1> QED BY <1>1, ForceAlways, TypesInductive, ServerInductive, PTL

LEMMA OneRequestMove ==
  ASSUME OneRequest, NEW c \in Client, NEW r \in ClientRec, TypeOK, client' = [client EXCEPT ![c] = r],
         client[c] # Idle, r = Idle \/ r.op = client[c].op, UNCHANGED host
  PROVE  OneRequest'
<1>1. client'[c] = r /\ \A d \in Client \ {c} : client'[d] = client[d]
  BY Moved
<1> QED BY <1>1 DEF OneRequest

\* Nobody but a caller that returns leaves another one alone, and only one that
\* closes is left by it: so it is the progress of the caller that moves that counts.
LEMMA IntentMove ==
  ASSUME TypeOK, IntentInv, NEW c \in Client, NEW r \in ClientRec, client' = [client EXCEPT ![c] = r],
         client[c] # Idle, r = Idle \/ r.op = client[c].op,
         client[c].op # "close" \/ r # Idle, UNCHANGED host, failed \subseteq failed',
         host = "daemon" /\ failed' \cap {"server", "beside"} = {} /\ Alone(c) /\ Progress(c) => Progress(c)'
  PROVE  IntentInv'
<1>1. client'[c] = r /\ \A d \in Client \ {c} : client'[d] = client[d]
  BY Moved
<1>2. OneRequest'
  BY OneRequestMove DEF IntentInv
<1>3. ASSUME host = "daemon", failed' \cap {"server", "beside"} = {}, NEW d \in Client, Alone(d)'
      PROVE  Progress(d)'
  <2>1. CASE d = c
    <3>1. Alone(c)
      BY <1>1, <1>3, <2>1 DEF Alone
    <3> QED BY <1>3, <2>1, <3>1 DEF IntentInv
  <2>2. CASE d # c
    <3>1. r = Idle
      BY <1>1, <1>3, <2>2 DEF Alone
    <3>2. client[d] = Idle \/ client[c] = Idle \/ client[d].op = "close"
      BY <1>3, <2>2, <3>1 DEF IntentInv, OneRequest
    <3>3. CASE client[d].op \in {"close", "none"}
      BY <1>1, <2>2, <3>3 DEF Progress
    <3>4. client[d] = Idle => client[d].op = "none"
      BY DEF Idle
    <3> QED BY <3>2, <3>3, <3>4
  <2> QED BY <2>1, <2>2
<1> QED BY <1>2, <1>3 DEF IntentInv

\* A step that moves no caller.
LEMMA IntentStays ==
  ASSUME IntentInv, UNCHANGED <<host, client>>, failed \subseteq failed',
         host = "daemon" /\ failed' \cap {"server", "beside"} = {} =>
           /\ stored' = stored
           /\ \A c \in Client : Alone(c) /\ At(c) \in {"read", "end"} => Listening' = Listening
  PROVE  IntentInv'
<1>1. \A c \in Client : At(c)' = At(c) /\ (Alone(c)' <=> Alone(c))
  BY DEF At, Alone
<1>2. OneRequest'
  BY DEF IntentInv, OneRequest
<1>3. ASSUME host = "daemon", failed' \cap {"server", "beside"} = {}, NEW c \in Client, Alone(c)'
      PROVE  Progress(c)'
  <2>1. Alone(c) /\ Progress(c) /\ stored' = stored
    BY <1>1, <1>3 DEF IntentInv
  <2>2. At(c) \in {"read", "end"} => Listening' = Listening
    BY <1>3, <2>1
  <2> QED BY <1>1, <2>1, <2>2 DEF Progress
<1> QED BY <1>2, <1>3 DEF IntentInv

\* Whoever is alone is whom the worker serves; who is at its end waits for nobody.
LEMMA ServedAlone ==
  ASSUME InboxInv, NEW c \in Client, Alone(c)
  PROVE  Busy => worker.from = c /\ At(c) \in Command
<1>1. Busy => worker.from \in Client /\ client[worker.from] # Idle /\ At(worker.from) = Task(worker.pc)
  BY DEF InboxInv, Idle
<1> QED BY <1>1 DEF Alone, Task, Command

\* There is nothing to write when the flag is as the operation wants it.
LEMMA NothingWanted ==
  ASSUME NEW cfg \in Config, NEW op, Wanted(op, cfg) = {}
  PROVE  /\ op \in {"enable", "restart"} => cfg.enabled
         /\ op = "disable" => ~cfg.enabled
<1>1. ASSUME op \in {"enable", "restart"} PROVE cfg.enabled
  <2>1. [cfg EXCEPT !.enabled = TRUE] = cfg
    BY <1>1 DEF Wanted
  <2>2. [cfg EXCEPT !.enabled = TRUE].enabled = TRUE
    BY DEF Config
  <2> QED BY <2>1, <2>2
<1>2. ASSUME op = "disable" PROVE ~cfg.enabled
  <2>1. [cfg EXCEPT !.enabled = FALSE] = cfg
    BY <1>2 DEF Wanted
  <2>2. [cfg EXCEPT !.enabled = FALSE].enabled = FALSE
    BY DEF Config
  <2> QED BY <2>1, <2>2
<1> QED BY <1>1, <1>2

\* The callers' own moves; stored changes with Write alone, the listener with none.
LEMMA IntentByCallers ==
  ASSUME TypeOK, InboxInv, IntentInv, NEW c \in Client,
         \/ ClientStep(c) \/ StoreFails(c)
         \/ \E op \in DOMAIN Steps : Begin(c, op)
  PROVE  IntentInv'
<1> USE DEF task, probing
<1>1. UNCHANGED <<host, server>> /\ Listening' = Listening /\ failed \subseteq failed'
  BY CallersLeave DEF Listening
<1>2. At(c) # "end" => client[c] # Idle
  BY IdleIsAtEnd
<1>3. ASSUME NEW op \in DOMAIN Steps, Begin(c, op)
      PROVE  IntentInv'
  <2>1. PICK r \in ClientRec :
          /\ client' = [client EXCEPT ![c] = r] /\ r.op = op /\ r.at = 1
          /\ op \notin {"none", "autostart"}
          /\ StepOf(r) \notin {"write", "reload", "end"}
          /\ op \in {"enable", "disable", "restart"} => StepOf(r) = IF op = "restart" THEN "stop" ELSE "read"
          /\ client[c] = Idle
    BY <1>3, BeginShape
  <2>2. /\ client'[c] = r /\ At(c)' = StepOf(r)
        /\ \A d \in Client \ {c} : client'[d] = client[d] /\ At(d)' = At(d)
    BY <2>1, Moved
  <2>3. host = "daemon" => op = "close" \/ \A d \in Client : client[d] = Idle
    BY <1>3 DEF Begin, MayBegin
  <2>4. OneRequest'
    BY <1>1, <2>1, <2>2, <2>3 DEF IntentInv, OneRequest
  <2>5. Progress(c)'
    BY <2>1, <2>2 DEF Progress
  <2>6. ASSUME NEW d \in Client \ {c}, Alone(d)'
        PROVE  Progress(d)'
    <3>1. client'[c] = Idle
      BY <2>6 DEF Alone
    <3> QED BY <2>1, <2>2, <3>1 DEF Idle
  <2> QED BY <2>4, <2>5, <2>6 DEF IntentInv
<1>4. CASE Read(c)
  <2>1. PICK r \in ClientRec :
          /\ client' = [client EXCEPT ![c] = r] /\ r.op = client[c].op
          /\ \/ r.cfg \in Wanted(r.op, stored) /\ r.at = client[c].at + 1
             \/ /\ Wanted(r.op, stored) = {} /\ r.at = Len(Steps[r.op])
                /\ r.op = "autostart" => stored.enabled
             \/ /\ r.op = "autostart" /\ ~stored.enabled /\ StepOf(r) = "end"
    BY <1>4, ReadShape
  <2>2. client'[c] = r /\ At(c)' = StepOf(r) /\ stored' = stored /\ At(c) = "read"
    BY <1>4, <2>1, Moved DEF Read
  <2>3. stored \in Config
    BY DEF TypeOK
  <2>4. ASSUME Progress(c) PROVE Progress(c)'
    <3>1. CASE r.cfg \in Wanted(r.op, stored) /\ r.at = client[c].at + 1
      <4>1. /\ r.op \in {"enable", "restart"} =>
                 r.cfg.enabled /\ StepOf(r) \notin {"reload", "start", "end"}
            /\ r.op = "disable" => ~r.cfg.enabled /\ StepOf(r) \notin {"reload", "stop", "end"}
            /\ r.op # "autostart"
        <5>1. /\ r.op \in {"enable", "restart"} => r.cfg.enabled
              /\ r.op = "disable" => ~r.cfg.enabled
              /\ r.op # "autostart"
          BY <2>3, <3>1 DEF Wanted, Config
        <5>2. /\ r.op \in {"enable", "restart"} => StepOf(r) \notin {"reload", "start", "end"}
              /\ r.op = "disable" => StepOf(r) \notin {"reload", "stop", "end"}
          BY <2>1, <2>2, <3>1, OnwardShape, StepOrder
        <5> QED BY <5>1, <5>2
      <4> QED BY <2>2, <4>1 DEF Progress
    <3>2. CASE /\ Wanted(r.op, stored) = {} /\ r.at = Len(Steps[r.op])
               /\ r.op = "autostart" => stored.enabled
      <4>1. /\ r.op \in {"enable", "restart"} => stored.enabled
            /\ r.op = "disable" => ~stored.enabled
        BY <2>3, <3>2, NothingWanted
      <4>2. /\ r.op \in {"enable", "restart", "autostart"} => StepOf(r) = "start"
            /\ r.op = "disable" => StepOf(r) = "stop"
        BY <3>2, LastStep
      <4> QED BY <2>2, <3>2, <4>1, <4>2 DEF Progress
    <3>3. CASE r.op = "autostart" /\ ~stored.enabled /\ StepOf(r) = "end"
      BY <1>1, <2>1, <2>2, <2>4, <3>3 DEF Progress
    <3> QED BY <2>1, <3>1, <3>2, <3>3
  <2>5. r # Idle \/ client[c].op # "close"
    BY <2>1 DEF Idle
  <2> QED BY <1>1, <1>2, <2>1, <2>2, <2>4, <2>5, IntentMove
<1>5. CASE Write(c)
  <2>1. /\ At(c) = "write" /\ stored' = client[c].cfg /\ client' = [client EXCEPT ![c] = Onward(c)]
    BY <1>5 DEF Write
  <2>2. Onward(c) \in ClientRec /\ Onward(c).op = client[c].op /\ Onward(c).at = client[c].at + 1
    BY <2>1, OnwardShape
  <2>3. StepOf(Onward(c)) = IF client[c].op = "connect" THEN "start" ELSE "reload"
    BY <2>1, <2>2, OnwardShape, StepOrder
  <2>4. client'[c] = Onward(c) /\ At(c)' = StepOf(Onward(c))
    BY <2>1, <2>2, Moved
  <2>5. client[c].op # "autostart"
    <3>1. client[c] \in ClientRec /\ StepOf(client[c]) = "write"
      BY <2>1, OnwardShape
    <3> QED BY <3>1 DEF StepOf, ClientRec, Steps
  <2>6. ASSUME Progress(c) PROVE Progress(c)'
    BY <2>1, <2>2, <2>3, <2>4, <2>5, <2>6 DEF Progress
  <2>7. client[c].op # "close" \/ Onward(c) # Idle
    BY <2>2 DEF Idle
  <2> QED BY <1>1, <1>2, <2>1, <2>2, <2>6, <2>7, IntentMove
<1>6. CASE StoreFails(c)
  <2>1. client' = [client EXCEPT ![c] = GiveUp(c)] /\ At(c) \in {"read", "write"}
    BY <1>6 DEF StoreFails
  <2>2. GiveUp(c) \in ClientRec /\ GiveUp(c).op = client[c].op /\ GiveUp(c).at = 7 /\ StepOf(GiveUp(c)) = "end"
    BY GiveUpShape
  <2>3. client'[c] = GiveUp(c) /\ At(c)' = "end"
    BY <2>1, <2>2, Moved
  <2>4. Progress(c)'
    BY <2>2, <2>3 DEF Progress
  <2>5. client[c].op # "close" \/ GiveUp(c) # Idle
    BY <2>2 DEF Idle
  <2> QED BY <1>1, <1>2, <2>1, <2>2, <2>4, <2>5, IntentMove
<1>7. CASE Send(c)
  <2> DEFINE r == [client[c] EXCEPT !.asking = TRUE]
  <2>1. /\ r \in ClientRec /\ r.op = client[c].op /\ r.at = client[c].at /\ r.cfg = client[c].cfg
    BY DEF TypeOK, ClientRec
  <2>2. client' = [client EXCEPT ![c] = r] /\ stored' = stored /\ At(c) \in Command
    BY <1>7 DEF Send
  <2> HIDE DEF r
  <2>3. client'[c] = r /\ At(c)' = At(c)
    <3>1. client'[c] = r /\ At(c)' = StepOf(r) /\ At(c) = StepOf(client[c])
      BY <2>1, <2>2, Moved, StepIsAt
    <3> QED BY <2>1, <3>1 DEF StepOf
  <2>4. ASSUME Progress(c) PROVE Progress(c)'
    BY <1>1, <2>1, <2>2, <2>3, <2>4 DEF Progress
  <2>5. client[c].op # "close" \/ r # Idle
    BY <2>1 DEF Idle
  <2> QED BY <1>1, <1>2, <2>1, <2>2, <2>4, <2>5, IntentMove DEF Command
<1>8. CASE Return(c)
  <2>1. client' = [client EXCEPT ![c] = Idle] /\ client[c].op \notin {"none", "close"}
    BY <1>8 DEF Return
  <2>2. Idle \in ClientRec /\ Idle.op = "none" /\ client[c] # Idle
    BY <2>1, IdleIsClient DEF Idle
  <2>3. client'[c] = Idle
    BY <2>1, <2>2, Moved
  <2>4. Progress(c)'
    BY <2>2, <2>3 DEF Progress
  <2> QED BY <1>1, <2>1, <2>2, <2>4, IntentMove
<1> QED BY <1>3, <1>4, <1>5, <1>6, <1>7, <1>8 DEF ClientStep

\* What the worker answers brings the operation it serves one step further, or ends it.
LEMMA IntentByAnswer ==
  ASSUME TypeOK, InboxInv, ServerInv, ProberInv, IntentInv, Next, Busy, NEW ok \in BOOLEAN, Answer(ok),
         UNCHANGED <<host, stored>>, failed \subseteq failed'
  PROVE  IntentInv'
<1>1. PICK c \in Client, r \in ClientRec :
        /\ c = worker.from /\ At(c) = Task(worker.pc) /\ At(c) # "end"
        /\ client' = [client EXCEPT ![c] = r] /\ r.op = client[c].op
        /\ ok => r = Onward(c) /\ r.at = client[c].at + 1
        /\ ~ok => r = GiveUp(c) /\ r.at = 7
  BY AnswerShape
<1>2. client'[c] = r /\ At(c)' = StepOf(r) /\ client[c] # Idle /\ At(c) \in Command
  BY <1>1, Moved, IdleIsAtEnd DEF Task, Command
<1>3. ASSUME Progress(c), "server" \notin failed, ok
      PROVE  Progress(c)'
  <2>1. StepOf(client[c]) = At(c) /\ client[c] \in ClientRec
    BY <1>1, OnwardShape
  <2>2. /\ r.op \in {"enable", "restart"} =>
             /\ StepOf(r) \in {"reload", "start"} => At(c) \in {"write", "reload"}
             /\ StepOf(r) = "end" => At(c) = "start"
        /\ r.op = "disable" =>
             /\ StepOf(r) \in {"reload", "stop"} => At(c) \in {"write", "reload"}
             /\ StepOf(r) = "end" => At(c) = "stop"
        /\ r.op = "autostart" =>
             /\ At(c) = "start" => StepOf(r) # "read"
             /\ StepOf(r) = "start" => At(c) = "read"
             /\ StepOf(r) = "end" => At(c) = "start"
        /\ StepOf(r) = "write" => At(c) = "read"
    BY <1>1, <1>3, <2>1, StepOrder
  <2>3. /\ At(c) = "stop" => Alive' = {}
        /\ At(c) = "start" => Listening' # {}
    <3>1. Told(c)
      BY AnswerIsTrue
    <3>2. worker.from = c /\ worker' = Rest /\ client'[c].at = client[c].at + 1
      BY <1>1, <1>2, <1>3 DEF Answer
    <3>3. \A step : At(c) = step => Answered(c, step)
      BY <3>2 DEF Answered
    <3> QED BY <1>3, <3>1, <3>3 DEF Told
  <2>4. Alive' = {} => Listening' = {}
    BY DEF Alive, Listening
  <2>5. r.op = "autostart" => At(c) \in {"read", "start"}
    <3>1. ASSUME r.op = "autostart" PROVE At(c) \in {"read", "start"}
      BY <1>1, <2>1, <3>1, AtShape DEF StepOf, ClientRec, Steps
    <3> QED BY <3>1
  <2> QED BY <1>1, <1>2, <1>3, <2>2, <2>3, <2>4, <2>5 DEF Progress, Command
<1>4. ASSUME ~ok
      PROVE  Progress(c)'
  <2>1. StepOf(r) = "end" /\ r.at = 7
    BY <1>1, <1>4, GiveUpShape
  <2> QED BY <1>2, <2>1 DEF Progress
<1>5. client[c].op # "close" \/ r # Idle
  BY <1>1 DEF Idle
<1>6. host = "daemon" /\ failed' \cap {"server", "beside"} = {} /\ Alone(c) /\ Progress(c) => Progress(c)'
  BY <1>3, <1>4
<1> QED BY <1>1, <1>2, <1>5, <1>6, IntentMove

LEMMA IntentKept ==
  ASSUME TypeOK, InboxInv, ServerInv, ProberInv, IntentInv, Next
  PROVE  IntentInv'
<1> USE DEF task, probing
<1>1. CASE AlreadyStarted \/ BindFails \/ AlreadyStopped \/ LoadFails \/ Joined \/ Publish \/ Reload
  <2>1. /\ Busy /\ UNCHANGED <<host, stored>> /\ failed \subseteq failed'
        /\ \E ok \in BOOLEAN : Answer(ok)
    BY <1>1 DEF AlreadyStarted, BindFails, AlreadyStopped, LoadFails, Joined, Publish, Reload, Busy, Fault
  <2> QED BY <2>1, IntentByAnswer
<1>2. CASE LoadConfig \/ BindAndSpawn \/ TellServer
  <2>1. Busy /\ UNCHANGED <<host, stored, client, failed>>
    BY <1>2 DEF LoadConfig, BindAndSpawn, TellServer, Busy
  <2>2. \A c \in Client : Alone(c) => At(c) \in Command
    BY <2>1, ServedAlone
  <2> QED BY <2>1, <2>2, IntentStays DEF Command
<1>3. CASE Receive
  <2>1. UNCHANGED <<host, stored, client, failed>> /\ Listening' = Listening
    BY <1>3 DEF Receive, Reap, Listening
  <2> QED BY <2>1, IntentStays
<1>4. ASSUME NEW t \in Server, ServerReturns(t) \/ ClearPort(t) \/ TaskEnds(t)
      PROVE  IntentInv'
  <2>1. UNCHANGED <<host, stored, client>> /\ failed \subseteq failed'
    BY <1>4 DEF ServerReturns, ClearPort, TaskEnds, Fault
  <2>2. /\ \A u \in Server \ {t} : server'[u] = server[u]
        /\ server'[t].phase # "serving"
        /\ server[t].phase = "serving" => "server" \in failed'
    BY <1>4 DEF ServerReturns, ClearPort, TaskEnds, Turn, Fault, Ended, TypeOK
  <2>3. "server" \in failed' \/ Listening' = Listening
    BY <2>2 DEF Listening
  <2> QED BY <2>1, <2>3, IntentStays
<1>5. CASE ConfigureBeside
  <2>1. UNCHANGED <<host, client>> /\ failed \subseteq failed' /\ "beside" \in failed'
    BY <1>5 DEF ConfigureBeside, Fault
  <2> QED BY <2>1, IntentStays
<1>6. ASSUME NEW p \in Port, Occupy(p) \/ Vacate(p)
      PROVE  IntentInv'
  <2>1. UNCHANGED <<host, stored, client>> /\ failed \subseteq failed' /\ Listening' = Listening
    BY <1>6 DEF Occupy, Vacate, Fault, Listening
  <2> QED BY <2>1, IntentStays
<1>7. CASE ShutdownNow \/ Crash
  <2>1. \A c \in Client : client'[c] = Idle
    BY <1>7 DEF ShutdownNow, Crash
  <2>2. \A c \in Client : client'[c].op = "none"
    BY <2>1 DEF Idle
  <2> QED BY <2>1, <2>2 DEF IntentInv, OneRequest, Progress
<1>8. ASSUME NEW c \in Client, NEW op \in {"autostart", "serve"}, NEW ok, Boot(c, op, ok)
      PROVE  IntentInv'
  <2> DEFINE r == [Idle EXCEPT !.op = op]
  <2>1. /\ worker.pc = "off" /\ client' = [client EXCEPT ![c] = r] /\ UNCHANGED task
        /\ \A d \in Client : client[d] = Idle
    BY <1>8 DEF Boot, InboxInv
  <2>2. r \in ClientRec /\ r.op = op /\ r.at = 1
    <3>1. op \in DOMAIN Steps
      BY StepsShape
    <3> QED BY <3>1, IdleIsClient DEF ClientRec, Idle
  <2>3. StepOf(r) = IF op = "autostart" THEN "read" ELSE "start"
    BY <2>2 DEF StepOf, Steps
  <2> HIDE DEF r
  <2>4. /\ client'[c] = r /\ At(c)' = StepOf(r)
        /\ \A d \in Client \ {c} : client'[d] = Idle
    BY <2>1, <2>2, Moved
  <2>5. Listening' = {}
    <3>1. ~tx /\ handle = None
      BY <2>1 DEF ServerInv
    <3>2. Alive = {}
      <4>1. \A u \in Alive : u \in Server /\ u = None
        BY <3>1 DEF ServerInv, OneServer, Alive
      <4> QED BY <4>1, ServiceConstants
    <3> QED BY <2>1, <3>2 DEF Alive, Listening
  <2>6. Progress(c)'
    BY <2>2, <2>3, <2>4, <2>5 DEF Progress
  <2>7. \A d \in Client \ {c} : Progress(d)'
    BY <2>4 DEF Progress, Idle
  <2>8. OneRequest'
    BY <2>4 DEF OneRequest
  <2> QED BY <2>6, <2>7, <2>8 DEF IntentInv
<1> QED
  BY <1>1, <1>2, <1>3, <1>4, <1>5, <1>6, <1>7, <1>8, IntentByCallers
  DEF Next, Work, Environment

LEMMA IntentAlways == Spec => []IntentInv
<1>1. Init => IntentInv
  <2> SUFFICES ASSUME Init PROVE IntentInv
    OBVIOUS
  <2>1. \A c \in Client : client[c] = Idle /\ client[c].op = "none"
    BY DEF Init, Idle
  <2> QED BY <2>1 DEF IntentInv, OneRequest, Progress
<1>2. TypeOK /\ InboxInv /\ (ServerInv /\ ProberInv) /\ IntentInv /\ [Next]_vars => IntentInv'
  <2> SUFFICES ASSUME TypeOK, InboxInv, ServerInv, ProberInv, IntentInv, [Next]_vars
               PROVE  IntentInv'
    OBVIOUS
  <2>1. CASE Next
    BY <2>1, IntentKept
  <2>2. CASE UNCHANGED vars
    <3>1. UNCHANGED <<host, client, stored, failed>> /\ Listening' = Listening
      BY <2>2 DEF vars, task, Listening
    <3> QED BY <3>1, IntentStays
  <2> QED BY <2>1, <2>2
<1> QED BY <1>1, <1>2, TypesInductive, ServerInductive, PTL DEF Spec

\* A daemon's request that ends well has stored the intent it is for and left the
\* gateway listening, or not, as that says, and start-up follows what is stored:
\* persist_gateway_enabled, the worker's start and stop, and autostart.
THEOREM IntentAlwaysFollowed == Spec => []IntentIsFollowed
<1>1. IntentInv => IntentIsFollowed
  BY DEF IntentInv, Progress, Alone, IntentIsFollowed, Succeeded
<1> QED BY <1>1, IntentAlways, PTL
=============================================================================
