--------------------------- MODULE GatewayRouting ---------------------------
(***************************************************************************)
(* How the gateway finds an upstream for a request: the order of the       *)
(* candidates, the failover from one to the next, the point after which a  *)
(* request is never sent again, WebSocket sessions that are kept between   *)
(* turns, and the map of channel health that requests and probers read     *)
(* and write beside each other.                                            *)
(***************************************************************************)
EXTENDS Naturals, Sequences, FiniteSets

CONSTANTS
  Channel, None,
  Rank,       \* the order of a channel: its priority, then how well its dialect fits
  Request,    \* clients of the gateway, one request or turn at a time
  Kinds,      \* what each of them asks for
  Serves,     \* the channels its route, its model and the kind allow: a count needs the
              \* Messages dialect, a WebSocket the Responses dialect
  Prober,     \* probe_all rounds that may run at once; one of them is Timer
  Timer,      \* the periodic one
  Starts,     \* how each upstream may behave at first
  MaxChanges  \* bound on changes of the channel list and the upstreams, and on restarts
              \* of the timer

ASSUME RoutingConstants ==
  /\ Rank \in [Channel -> Nat] /\ IsFiniteSet(Channel) /\ None \notin Channel
  /\ Timer \in Prober
  /\ Kinds \in [Request -> SUBSET {"stream", "plain", "count", "ws"}]
  /\ Serves \in [Request -> [{"stream", "plain", "count", "ws"} -> SUBSET Channel]]
  /\ Starts \in [Channel -> SUBSET {"up", "half", "down", "hung"}] /\ MaxChanges \in Nat

VARIABLES
  chan,      \* the channel list in the database
  upstream,  \* how each upstream behaves: half answers probes well, but not requests; hung
             \* falls silent, before or after its headers
  health,    \* GatewayState.health
  req,       \* the requests
  prober,    \* the probe rounds
  ever,      \* every way each upstream has behaved so far
  changes

world == <<chan, upstream, ever, changes>>
vars == <<world, health, req, prober>>

Mode == {"up", "half", "down", "hung"}
Unhealthy == {"bad", "refused"}   \* by its reason: refused is a WebSocket that was not opened
Verdict == {"none", "ok"} \cup Unhealthy
Kind == {"none", "stream", "plain", "count", "ws"}
Place == {"idle", "route", "health", "existing", "try", "mark", "next", "pump", "drain",
          "nobody", "failed"}
RequestRec ==
  [pc : Place, kind : Kind,
   list : SUBSET Channel, snap : SUBSET Channel,   \* eligible channels; those seen unhealthy
   queue : Seq(Channel), tried : SUBSET Channel,
   cur : Channel \cup {None},                      \* the channel being used
   open : Channel \cup {None},                     \* the WebSocket session kept from before
   mark : Verdict, after : Place,                  \* what is to be recorded, and then?
   committed : BOOLEAN]                            \* the upstream is answering this client
ProberRec == [pc : {"idle", "probe", "insert"}, list : SUBSET Channel, todo : SUBSET Channel,
              cur : Channel \cup {None}, result : Verdict]

NoRequest == [pc |-> "idle", kind |-> "none", list |-> {}, snap |-> {}, queue |-> <<>>,
              tried |-> {}, cur |-> None, open |-> None, mark |-> "none", after |-> "idle",
              committed |-> FALSE]
NoRound == [pc |-> "idle", list |-> {}, todo |-> {}, cur |-> None, result |-> "none"]

TypeOK ==
  /\ chan \in [Channel -> {"on", "off", "absent"}] /\ upstream \in [Channel -> Mode]
  /\ health \in [Channel -> Verdict]
  /\ req \in [Request -> RequestRec] /\ prober \in [Prober -> ProberRec]
  /\ ever \in [Channel -> SUBSET Mode] /\ changes \in 0 .. MaxChanges
  /\ \A r \in Request : req[r].pc \in {"mark", "pump", "drain"} => req[r].cur \in Channel

Init ==
  /\ chan = [c \in Channel |-> "on"]
  /\ upstream \in [Channel -> Mode] /\ \A c \in Channel : upstream[c] \in Starts[c]
  /\ health = [c \in Channel |-> "none"]
  /\ req = [r \in Request |-> NoRequest] /\ prober = [p \in Prober |-> NoRound]
  /\ ever = [c \in Channel |-> {upstream[c]}] /\ changes = 0

Up(c) == upstream[c] = "up"
Listed == {c \in Channel : chan[c] # "absent"}
Enabled == {c \in Channel : chan[c] = "on"}

-----------------------------------------------------------------------------
(* A request *)

Become(r, record) == req' = [req EXCEPT ![r] = record]
Goto(r, pc) == Become(r, [req[r] EXCEPT !.pc = pc])
\* Answered, or given up; a WebSocket client comes back with its session.
Over(r, session) == Become(r, [NoRequest EXCEPT !.open = session])

Arrive(r, kind) ==
  /\ req[r].pc = "idle"
  /\ kind \in Kinds[r] /\ (kind # "ws" => req[r].open = None)
  /\ Become(r, [req[r] EXCEPT !.pc = "route", !.kind = kind])
  /\ UNCHANGED <<world, health, prober>>

ReadChannels(r) ==
  /\ req[r].pc = "route"
  /\ Become(r, [req[r] EXCEPT !.pc = "health", !.list = Enabled \cap Serves[r][req[r].kind]])
  /\ UNCHANGED <<world, health, prober>>

\* candidates_for_model_ranked: groups by rank, and inside a group the weighted draw
\* may give any order.
Orders(S) ==
  {s \in [1 .. Cardinality(S) -> S] :
     /\ \A c \in S : \E i \in DOMAIN s : s[i] = c
     /\ \A i, j \in DOMAIN s : i < j => s[i] # s[j] /\ Rank[s[i]] <= Rank[s[j]]}

\* Mutant of Candidates: without a healthy candidate there is none.
CandidatesHealthy(list, bad) == list \ bad

\* Unhealthy channels are candidates when there are no others.
Candidates(list, bad) == IF list \subseteq bad THEN list ELSE list \ bad

\* A copy of the health map is taken once; a kept session is closed if there are
\* candidates and its channel is not one of them.
ReadHealth(r) ==
  /\ req[r].pc = "health"
  /\ LET bad == {c \in req[r].list : health[c] \in Unhealthy}
         found == Candidates(req[r].list, bad)
         open == IF found = {} \/ req[r].open \in found THEN req[r].open ELSE None
         pc == IF found = {} THEN "nobody" ELSE IF open # None THEN "existing" ELSE "try"
     IN \E queue \in Orders(found) :
          Become(r, [req[r] EXCEPT !.pc = pc, !.snap = bad, !.queue = queue, !.open = open])
  /\ UNCHANGED <<world, health, prober>>

\* The channel whose turn it is, taken from the queue.
Cur(r) == Head(req[r].queue)
Taken(r) == [req[r] EXCEPT !.queue = Tail(@), !.tried = @ \cup {Cur(r)}, !.cur = Cur(r)]
AtChannel(r) == req[r].pc = "try" /\ req[r].queue # <<>>

\* Mutant of Passes: a channel that is only busy is marked unhealthy.
PassesMarked(r) ==
  /\ AtChannel(r)
  /\ \/ req[r].kind \in {"stream", "plain"}
     \/ req[r].kind = "count" /\ upstream[Cur(r)] \in {"up", "half"}
     \/ req[r].kind = "ws" /\ upstream[Cur(r)] # "down"
  /\ Become(r, [Taken(r) EXCEPT !.pc = "mark", !.mark = "bad", !.after = "next"])
  /\ UNCHANGED <<world, health, prober>>

\* On to the next candidate without a mark: the request cannot be converted, the
\* channel is busy, refuses the key or lacks the model, the count is unusable, or a
\* WebSocket that was opened ends, fails or is silent before its first event.
Passes(r) ==
  /\ AtChannel(r)
  /\ \/ req[r].kind \in {"stream", "plain"}
     \/ req[r].kind = "count" /\ upstream[Cur(r)] \in {"up", "half"}
     \/ req[r].kind = "ws" /\ upstream[Cur(r)] # "down"
  /\ Become(r, [Taken(r) EXCEPT !.pc = "next"])
  /\ UNCHANGED <<world, health, prober>>

\* Unreachable, 5xx, or a stream that fails before its first event, which for a
\* silent upstream takes the first-event timeout.
Fails(r) ==
  /\ AtChannel(r)
  /\ \/ upstream[Cur(r)] \in {"half", "down"}
     \/ upstream[Cur(r)] = "hung" /\ req[r].kind = "stream"
  /\ Become(r, [Taken(r) EXCEPT !.pc = "mark", !.mark = "bad", !.after = "next"])
  /\ UNCHANGED <<world, health, prober>>

\* An upstream that can be reached, and connect_ws_upstream or the first send fails: whatever
\* the reason, an address or a header that cannot be used or a handshake that is answered
\* with 401, 404, 426 or 429, the channel is marked.
RefusesSocket(r) ==
  /\ AtChannel(r) /\ req[r].kind = "ws" /\ upstream[Cur(r)] # "down"
  /\ Become(r, [Taken(r) EXCEPT !.pc = "mark", !.mark = "refused", !.after = "next"])
  /\ UNCHANGED <<world, health, prober>>

\* Any other 4xx is the client's own and is relayed.
Refuses(r) ==
  /\ AtChannel(r) /\ Up(Cur(r)) /\ req[r].kind # "ws"
  /\ Over(r, None)
  /\ UNCHANGED <<world, health, prober>>

\* 2xx, and for a stream its first event: the channel is marked healthy first.
Serve(r) ==
  /\ AtChannel(r)
  /\ LET c == Cur(r)
         marked(after) == [Taken(r) EXCEPT !.pc = "mark", !.mark = "ok", !.after = after,
                                           !.committed = TRUE]
     IN \/ /\ req[r].kind = "stream" /\ upstream[c] \in {"up", "half"}
           /\ Become(r, marked("pump"))
        \/ /\ req[r].kind = "plain" /\ upstream[c] # "down"
           /\ Become(r, marked("drain"))
        \/ /\ req[r].kind = "count" /\ Up(c)
           /\ Become(r, marked("idle"))
        \/ /\ req[r].kind = "ws" /\ upstream[c] \in {"up", "half"}
           /\ Become(r, [Taken(r) EXCEPT !.pc = "pump", !.committed = TRUE])
  /\ UNCHANGED <<world, health, prober>>

\* Mutant of Reuse: it is not noted whose session is in use.
ReuseForgets(r) ==
  /\ req[r].pc = "existing"
  /\ \/ /\ upstream[req[r].open] \in {"up", "half"}
        /\ Become(r, [req[r] EXCEPT !.pc = "pump", !.open = None, !.committed = TRUE])
     \/ Become(r, [req[r] EXCEPT !.pc = "try", !.open = None])
  /\ UNCHANGED <<world, health, prober>>

\* The session of an earlier turn is tried first; if it ends before its first event
\* the turn goes on to the candidates, that same channel included.
Reuse(r) ==
  /\ req[r].pc = "existing"
  /\ \/ /\ upstream[req[r].open] \in {"up", "half"}
        /\ Become(r, [req[r] EXCEPT !.pc = "pump", !.cur = req[r].open, !.open = None,
                                    !.committed = TRUE])
     \/ Become(r, [req[r] EXCEPT !.pc = "try", !.open = None])
  /\ UNCHANGED <<world, health, prober>>

\* mark_health waits for the lock and writes over whatever is there.
Mark(r) ==
  /\ req[r].pc = "mark"
  /\ health' = [health EXCEPT ![req[r].cur] = req[r].mark]
  /\ LET after == req[r].after
     IN IF after = "idle" THEN Over(r, IF req[r].kind = "ws" THEN req[r].cur ELSE None)
        ELSE Become(r, [req[r] EXCEPT !.pc = after, !.mark = "none", !.after = "idle"])
  /\ UNCHANGED <<world, prober>>

\* Mutant of NextCandidate: the last one is tried again and again.
NextAgain(r) ==
  /\ req[r].pc = "next"
  /\ Become(r, [req[r] EXCEPT !.pc = "try", !.queue = IF @ = <<>> THEN <<req[r].cur>> ELSE @])
  /\ UNCHANGED <<world, health, prober>>

NextCandidate(r) ==
  /\ req[r].pc = "next"
  /\ Goto(r, IF req[r].queue = <<>> THEN "failed" ELSE "try")
  /\ UNCHANGED <<world, health, prober>>

\* The client has its first event. A stream runs to its end, or to an error event;
\* a WebSocket turn that ends, well or with an error event, keeps its session.
Finish(r) ==
  /\ req[r].pc = "pump"
  /\ \/ req[r].kind = "stream" /\ Up(req[r].cur) /\ Over(r, None)
     \/ /\ req[r].kind = "ws" /\ upstream[req[r].cur] \in {"up", "half"}
        /\ Become(r, [req[r] EXCEPT !.pc = "mark", !.mark = "ok", !.after = "idle"])
  /\ UNCHANGED <<world, health, prober>>

\* Mutant of Break: the request goes on to the next candidate.
BreakRetries(r) ==
  /\ req[r].pc = "pump" /\ ~Up(req[r].cur)
  /\ Become(r, [req[r] EXCEPT !.pc = "mark", !.mark = "bad", !.after = "next"])
  /\ UNCHANGED <<world, health, prober>>

\* After that a failure, or five minutes of silence, is told to the client and never
\* tried elsewhere; only a stream's is recorded.
Break(r) ==
  /\ req[r].pc = "pump" /\ ~Up(req[r].cur)
  /\ \/ /\ req[r].kind = "stream"
        /\ Become(r, [req[r] EXCEPT !.pc = "mark", !.mark = "bad", !.after = "idle"])
     \/ req[r].kind = "ws" /\ Over(r, None)
  /\ UNCHANGED <<world, health, prober>>

\* The body is read without a time limit; if that fails there is no failover.
Drain(r) ==
  /\ req[r].pc = "drain" /\ upstream[req[r].cur] # "hung" /\ Over(r, None)
  /\ UNCHANGED <<world, health, prober>>

\* 503 without a candidate (a local estimate for a count), 502 when all have failed.
Reply(r) ==
  /\ req[r].pc \in {"nobody", "failed"} /\ Over(r, req[r].open)
  /\ UNCHANGED <<world, health, prober>>

\* The client goes away: a handler is dropped where it waits, but not the task that
\* pumps a stream, nor a WebSocket task that waits for the lock.
Leave(r) ==
  /\ \/ req[r].kind # "ws" /\ req[r].pc # "idle"
        /\ ~(req[r].kind = "stream" /\ req[r].pc = "mark" /\ req[r].after = "idle")
     \/ req[r].kind = "ws" /\ req[r].pc \in {"existing", "try", "pump"}
     \/ req[r].pc = "idle" /\ req[r].open # None
  /\ Over(r, None)
  /\ UNCHANGED <<world, health, prober>>

-----------------------------------------------------------------------------
(* probe_all: the periodic task, and the rounds asked for *)

Probing(p, record) == prober' = [prober EXCEPT ![p] = record]

StartRound(p) ==
  /\ prober[p].pc = "idle"
  /\ Probing(p, [NoRound EXCEPT !.pc = "probe", !.list = Listed, !.todo = Enabled])
  /\ UNCHANGED <<world, health, req>>

\* Eight seconds at most; anything below 500 is healthy.
Probe(p) ==
  /\ prober[p].pc = "probe"
  /\ \E c \in prober[p].todo :
       LET result == IF upstream[c] \in {"up", "half"} THEN "ok" ELSE "bad"
       IN /\ Probing(p, [prober[p] EXCEPT !.pc = "insert", !.cur = c, !.result = result,
                                          !.todo = @ \ {c}])
  /\ UNCHANGED <<world, health, req>>

\* Mutant of Insert: what is recorded already is kept.
InsertKeeps(p) ==
  /\ prober[p].pc = "insert"
  /\ health' = [health EXCEPT ![prober[p].cur] = IF @ = "none" THEN prober[p].result ELSE @]
  /\ Probing(p, [prober[p] EXCEPT !.pc = "probe", !.cur = None, !.result = "none"])
  /\ UNCHANGED <<world, req>>

\* The result is written over whatever a request has recorded in the meantime.
Insert(p) ==
  /\ prober[p].pc = "insert"
  /\ health' = [health EXCEPT ![prober[p].cur] = prober[p].result]
  /\ Probing(p, [prober[p] EXCEPT !.pc = "probe", !.cur = None, !.result = "none"])
  /\ UNCHANGED <<world, req>>

\* What is not in the list of this round, read when it began, is forgotten.
Retain(p) ==
  /\ prober[p].pc = "probe" /\ prober[p].todo = {}
  /\ health' = [c \in Channel |-> IF c \in prober[p].list THEN health[c] ELSE "none"]
  /\ Probing(p, NoRound)
  /\ UNCHANGED <<world, req>>

Change == changes < MaxChanges /\ changes' = changes + 1

\* restart_prober: the task is aborted where it waits, and a new one begins.
Respawn ==
  /\ prober[Timer] # NoRound /\ Change
  /\ Probing(Timer, NoRound)
  /\ UNCHANGED <<chan, upstream, ever, health, req>>

-----------------------------------------------------------------------------
(* The world *)

Edit(c) ==
  /\ Change
  /\ \E s \in {"on", "off", "absent"} \ {chan[c]} : chan' = [chan EXCEPT ![c] = s]
  /\ UNCHANGED <<upstream, ever, health, req, prober>>

Flip(c) ==
  /\ Change
  /\ \E m \in Mode \ {upstream[c]} : /\ upstream' = [upstream EXCEPT ![c] = m]
                                     /\ ever' = [ever EXCEPT ![c] = @ \cup {m}]
  /\ UNCHANGED <<chan, health, req, prober>>

\* A kept session ends while nobody uses it.
SessionEnds(r) ==
  /\ req[r].pc = "idle" /\ req[r].open # None /\ Over(r, None)
  /\ UNCHANGED <<world, health, prober>>

RequestStep(r) ==
  \/ ReadChannels(r) \/ ReadHealth(r) \/ Reuse(r) \/ Mark(r) \/ NextCandidate(r) \/ Reply(r)
  \/ Fails(r) \/ RefusesSocket(r) \/ Serve(r) \/ Refuses(r) \/ Passes(r)
  \/ Finish(r) \/ Break(r) \/ Drain(r)
Round(p) == Probe(p) \/ Insert(p) \/ Retain(p)
Next ==
  \/ \E r \in Request : \/ \E kind \in Kind : Arrive(r, kind)
                        \/ RequestStep(r) \/ Leave(r) \/ SessionEnds(r)
  \/ \E p \in Prober : StartRound(p) \/ Round(p)
  \/ Respawn
  \/ \E c \in Channel : Edit(c) \/ Flip(c)

Spec == Init /\ [][Next]_vars

-----------------------------------------------------------------------------
(* Properties *)

\* A silent upstream may hold a request for ever: there is no limit on the wait for its
\* headers or its body, nor for a WebSocket whose peer still answers pings.
Hanging(r) ==
  \/ req[r].pc = "try" /\ upstream[Cur(r)] = "hung"
  \/ req[r].pc = "existing" /\ upstream[req[r].open] = "hung"
  \/ req[r].pc = "drain" /\ upstream[req[r].cur] = "hung"
  \/ req[r].pc = "pump" /\ req[r].kind = "ws" /\ upstream[req[r].cur] = "hung"

\* Handlers and pumps run, the lock of the map is fair, and the ticker ticks.
Fairness ==
  /\ \A r \in Request : WF_vars(RequestStep(r) /\ ~Hanging(r))
  /\ \A p \in Prober : WF_vars(Round(p))
  /\ WF_vars(StartRound(Timer))

FairSpec == Spec /\ Fairness

\* Nothing untrue is recorded of a channel: one that has always worked is never unhealthy,
\* whatever is busy, misses a key or a model or cannot be converted, but for the reason that
\* a WebSocket was not opened; one that has always been down is never healthy, nor unhealthy
\* for that reason; and no verdict in hand is of that kind or lands on another channel
\* (mark_health, mark_ws_channel_health, probe_all).
MayBe(c, verdict) ==
  /\ verdict = "bad" => ever[c] # {"up"}
  /\ verdict \in {"ok", "refused"} => ever[c] # {"down"}
HealthIsTrue ==
  /\ \A c \in Channel : MayBe(c, health[c])
  /\ \A r \in Request : req[r].pc = "mark" => MayBe(req[r].cur, req[r].mark)
  /\ \A p \in Prober : prober[p].pc = "insert" => MayBe(prober[p].cur, prober[p].result)

\* A request is turned away only if no enabled channel serves it, and given up only after
\* each of its candidates has been asked; a channel seen unhealthy is asked only when all
\* of them were (run_operation, count_tokens, prepare_responses_ws_turn).
NoneIsPassedOver ==
  \A r \in Request :
    /\ req[r].pc = "nobody" => req[r].list = {}
    /\ req[r].pc = "failed" => req[r].tried \in {req[r].list, req[r].list \ req[r].snap} \ {{}}
    /\ req[r].tried \cap req[r].snap # {} => req[r].list \subseteq req[r].snap

\* Once an upstream has begun to answer, the request is not sent to any other, nor twice to
\* one: a failure after the first event is the client's to see (start_stream_response,
\* ws_session).
NeverSentAgain ==
  [][\A r \in Request :
       /\ req'[r].tried # req[r].tried /\ req'[r].tried # {} =>
            ~req[r].committed /\ Cur(r) \notin req[r].tried
       /\ req[r].committed => req'[r].committed \/ req'[r].pc = "idle"]_vars

\* The map comes to tell the truth about every channel that stays as it is: requests,
\* rounds and restarts may write over each other, but no stale verdict stays, and a
\* channel that has been deleted is forgotten even if a late answer records it again
\* (probe_all, spawn_prober, mark_health).  A channel that works is seen as healthy once no
\* client's WebSocket is refused by it any more: each refusal marks it anew.
SocketRefused(c) ==
  \E r \in Request : req[r].pc = "mark" /\ req[r].cur = c /\ req[r].mark = "refused"
HealthConverges ==
  \A c \in Channel :
    /\ <>[](chan[c] = "on" /\ Up(c) /\ ~SocketRefused(c)) => <>[](health[c] = "ok")
    /\ <>[](chan[c] = "on" /\ upstream[c] = "down") => <>[](health[c] = "bad")
    /\ <>[](chan[c] = "absent") => <>[](health[c] = "none")

\* Every request is answered, unless a silent upstream holds it.
TurnsEnd ==
  \A r \in Request : req[r].pc # "idle" ~> req[r].pc = "idle" \/ Hanging(r)
=============================================================================
