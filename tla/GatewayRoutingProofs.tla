------------------------ MODULE GatewayRoutingProofs ------------------------
(* Theorems about GatewayRouting, for any number of channels, requests and rounds. *)
EXTENDS GatewayRouting, FiniteSetTheorems, TLAPS

(***************************************************************************)
(* What holds of a request's record, and of its step                       *)
(***************************************************************************)

InUse(q) == q.pc \in {"mark", "pump", "drain"} => q.cur \in Channel

Elems(s) == {s[i] : i \in DOMAIN s}

\* The queue and what was tried are the candidates, each once, while a request is under
\* way; an answering upstream leaves only the steps that end it.
RecInv(q) ==
  /\ \A i, j \in DOMAIN q.queue : i # j => q.queue[i] # q.queue[j]
  /\ \A i \in DOMAIN q.queue : q.queue[i] \notin q.tried
  /\ q.pc \in {"idle", "route", "health", "nobody"} => q.tried = {}
  /\ q.pc = "nobody" => q.list = {}
  /\ q.pc \in {"existing", "try", "mark", "next", "pump", "drain", "failed"} =>
       /\ q.tried \cup Elems(q.queue) = Candidates(q.list, q.snap)
       /\ q.snap \subseteq q.list /\ q.list # {}
  /\ q.pc = "failed" => q.queue = <<>>
  /\ q.pc = "existing" => q.open \in Channel
  /\ q.pc = "mark" => q.after \in {"next", "pump", "drain", "idle"}
  /\ q.committed <=> (q.pc \in {"pump", "drain"} \/ (q.pc = "mark" /\ q.after # "next"))

MarkTrue(q) == q.pc = "mark" => q.mark \in {"ok"} \cup Unhealthy /\ MayBe(q.cur, q.mark)

\* What NeverSentAgain says of one request's step.
SentOnce(q, n) ==
  /\ n.tried # q.tried /\ n.tried # {} => ~q.committed /\ Head(q.queue) \notin q.tried
  /\ q.committed => n.committed \/ n.pc = "idle"

RequestInv == \A r \in Request : RecInv(req[r])
EverInv == \A c \in Channel : upstream[c] \in ever[c]
VerdictInv ==
  /\ \A c \in Channel : MayBe(c, health[c])
  /\ \A r \in Request : MarkTrue(req[r])
  /\ \A p \in Prober : prober[p].pc = "insert" =>
       prober[p].cur \in Channel /\ MayBe(prober[p].cur, prober[p].result)
IInv == TypeOK /\ RequestInv /\ EverInv /\ VerdictInv

-----------------------------------------------------------------------------
(* Sequences and the order of the candidates *)

LEMMA HeadAndTail ==
  ASSUME NEW S, NEW s \in Seq(S), s # <<>>
  PROVE  /\ Head(s) \in S /\ Tail(s) \in Seq(S) /\ Head(s) = s[1] /\ 1 \in DOMAIN s
         /\ \A i \in DOMAIN Tail(s) : i \in Nat /\ i # 0 /\ i + 1 \in DOMAIN s /\ Tail(s)[i] = s[i + 1]
         /\ Elems(s) = {Head(s)} \cup Elems(Tail(s))
<1>1. /\ Len(s) \in Nat \ {0} /\ DOMAIN s = 1 .. Len(s) /\ Tail(s) \in Seq(S)
      /\ Len(Tail(s)) = Len(s) - 1 /\ DOMAIN Tail(s) = 1 .. (Len(s) - 1)
      /\ Head(s) = s[1] /\ Head(s) \in S
      /\ \A i \in 1 .. (Len(s) - 1) : Tail(s)[i] = s[i + 1]
  OBVIOUS
<1>2. \A i \in DOMAIN s : i = 1 \/ (i - 1 \in DOMAIN Tail(s) /\ Tail(s)[i - 1] = s[i])
  BY <1>1
<1>3. \A i \in DOMAIN Tail(s) : i \in Nat /\ i # 0 /\ i + 1 \in DOMAIN s /\ Tail(s)[i] = s[i + 1]
  BY <1>1
<1>4. Head(s) \in Elems(s) /\ 1 \in DOMAIN s
  BY <1>1 DEF Elems
<1>5. Elems(Tail(s)) \subseteq Elems(s)
  BY <1>3 DEF Elems
<1>6. ASSUME NEW x \in Elems(s), x # Head(s) PROVE x \in Elems(Tail(s))
  <2>1. PICK i \in DOMAIN s : x = s[i]
    BY <1>6 DEF Elems
  <2>2. i - 1 \in DOMAIN Tail(s) /\ Tail(s)[i - 1] = x
    BY <1>1, <1>2, <1>6, <2>1
  <2> QED BY <2>2 DEF Elems
<1>7. Elems(s) = {Head(s)} \cup Elems(Tail(s))
  BY <1>4, <1>5, <1>6
<1> QED BY <1>1, <1>3, <1>4, <1>7

LEMMA OrdersAreSequences ==
  ASSUME NEW S \in SUBSET Channel, NEW s \in Orders(S)
  PROVE  /\ s \in Seq(Channel) /\ Elems(s) = S
         /\ \A i, j \in DOMAIN s : i # j => s[i] # s[j]
<1>1. Cardinality(S) \in Nat
  BY FS_Subset, FS_CardinalityType, RoutingConstants
<1>2. s \in [1 .. Cardinality(S) -> S] /\ DOMAIN s = 1 .. Cardinality(S)
  BY DEF Orders
<1>3. s \in Seq(Channel)
  BY <1>1, <1>2
<1>4. Elems(s) = S
  BY <1>2 DEF Orders, Elems
<1>5. \A i, j \in DOMAIN s : i < j => s[i] # s[j]
  BY DEF Orders
<1>6. \A i, j \in DOMAIN s : i # j => i < j \/ j < i
  BY <1>1, <1>2
<1> QED BY <1>3, <1>4, <1>5, <1>6

\* Taking the head of the queue keeps what RecInv says of queue, tried and candidates.
LEMMA TakenKeeps ==
  ASSUME TypeOK, NEW r \in Request, RecInv(req[r]), AtChannel(r)
  PROVE  /\ Taken(r) \in RequestRec /\ Taken(r).cur \in Channel /\ Taken(r).pc = "try"
         /\ ~req[r].committed /\ ~Taken(r).committed /\ Cur(r) \notin req[r].tried
         /\ Taken(r).list = req[r].list /\ Taken(r).snap = req[r].snap /\ Taken(r).kind = req[r].kind
         /\ Taken(r).cur = Cur(r) /\ RecInv(Taken(r))
<1> DEFINE q == req[r]
           n == Taken(r)
<1>1. q \in RequestRec /\ q.queue \in Seq(Channel) /\ q.queue # <<>> /\ q.pc = "try"
  BY DEF TypeOK, RequestRec, AtChannel
<1>2. /\ Head(q.queue) \in Channel /\ Tail(q.queue) \in Seq(Channel) /\ Head(q.queue) = q.queue[1]
      /\ 1 \in DOMAIN q.queue
      /\ \A i \in DOMAIN Tail(q.queue) : i \in Nat /\ i # 0 /\ i + 1 \in DOMAIN q.queue
                                         /\ Tail(q.queue)[i] = q.queue[i + 1]
      /\ Elems(q.queue) = {Head(q.queue)} \cup Elems(Tail(q.queue))
  BY <1>1, HeadAndTail
<1>3. /\ n \in RequestRec /\ n.queue = Tail(q.queue) /\ n.tried = q.tried \cup {Head(q.queue)}
      /\ n.cur = Head(q.queue) /\ n.pc = "try" /\ n.list = q.list /\ n.snap = q.snap
      /\ n.kind = q.kind /\ n.committed = q.committed /\ n.after = q.after /\ n.open = q.open
  BY <1>1, <1>2 DEF RequestRec, Taken, Cur
<1>4. Head(q.queue) \notin q.tried /\ ~q.committed
  BY <1>1, <1>2 DEF RecInv
<1>5. ASSUME NEW i \in DOMAIN n.queue, NEW j \in DOMAIN n.queue, i # j
      PROVE  n.queue[i] # n.queue[j]
  <2>1. /\ i \in Nat /\ i + 1 \in DOMAIN q.queue /\ n.queue[i] = q.queue[i + 1]
        /\ j \in Nat /\ j + 1 \in DOMAIN q.queue /\ n.queue[j] = q.queue[j + 1]
    BY <1>2, <1>3
  <2>2. i + 1 # j + 1
    BY <1>5, <2>1
  <2> QED BY <2>1, <2>2 DEF RecInv
<1>6. \A i \in DOMAIN n.queue : n.queue[i] \notin n.tried
  <2> SUFFICES ASSUME NEW i \in DOMAIN n.queue PROVE n.queue[i] \notin n.tried
    OBVIOUS
  <2>1. i + 1 # 1 /\ i + 1 \in DOMAIN q.queue /\ n.queue[i] = q.queue[i + 1]
    BY <1>2, <1>3
  <2>2. q.queue[i + 1] # q.queue[1] /\ q.queue[i + 1] \notin q.tried
    BY <1>2, <2>1 DEF RecInv
  <2> QED BY <1>2, <1>3, <2>1, <2>2
<1>7. n.tried \cup Elems(n.queue) = Candidates(n.list, n.snap) /\ n.snap \subseteq n.list /\ n.list # {}
  BY <1>1, <1>2, <1>3 DEF RecInv
<1>8. RecInv(n)
  <2> HIDE DEF n
  <2>1. n.pc \notin {"idle", "route", "health", "nobody", "failed", "existing"} /\ ~n.committed
        /\ n.pc \notin {"pump", "drain", "mark"}
    BY <1>3, <1>4
  <2> QED BY <1>5, <1>6, <1>7, <2>1 DEF RecInv
<1> QED BY <1>2, <1>3, <1>4, <1>8 DEF Cur

-----------------------------------------------------------------------------
(* A request's step *)

Moved(r, n) ==
  /\ Become(r, n) /\ n \in RequestRec /\ InUse(n) /\ RecInv(n) /\ MarkTrue(n)
  /\ SentOnce(req[r], n)

LEMMA NoRequestType == NoRequest \in RequestRec
<1>1. <<>> \in Seq(Channel) /\ {} \in SUBSET Channel /\ None \in Channel \cup {None}
  OBVIOUS
<1> QED BY <1>1 DEF NoRequest, RequestRec, Place, Kind, Verdict, Unhealthy

LEMMA OverMoves ==
  ASSUME TypeOK, NEW r \in Request, NEW session \in Channel \cup {None}, Over(r, session)
  PROVE  \E n : Moved(r, n)
<1> DEFINE n == [NoRequest EXCEPT !.open = session]
<1>1. n \in RequestRec /\ n.pc = "idle" /\ n.queue = <<>> /\ n.tried = {} /\ ~n.committed
  BY NoRequestType DEF NoRequest, RequestRec
<1>2. Become(r, n)
  BY DEF Over
<1> HIDE DEF n
<1>3. RecInv(n) /\ InUse(n) /\ MarkTrue(n) /\ SentOnce(req[r], n)
  BY <1>1 DEF RecInv, InUse, MarkTrue, SentOnce
<1> QED BY <1>1, <1>2, <1>3 DEF Moved

\* A step that only moves on within the same turn, with its queue as it was.
LEMMA SameQueue ==
  ASSUME TypeOK, RequestInv, NEW r \in Request, NEW n \in RequestRec, Become(r, n),
         n.queue = req[r].queue, n.tried = req[r].tried, n.list = req[r].list,
         n.snap = req[r].snap, n.pc \in {"mark", "next", "pump", "drain", "try", "failed"},
         req[r].pc \in {"existing", "try", "mark", "next", "pump", "drain"},
         n.pc = "failed" => n.queue = <<>>,
         n.pc = "mark" => n.after \in {"next", "pump", "drain", "idle"}, InUse(n), MarkTrue(n),
         n.committed <=> (n.pc \in {"pump", "drain"} \/ (n.pc = "mark" /\ n.after # "next")),
         req[r].committed => n.committed
  PROVE  Moved(r, n)
<1>1. RecInv(req[r])
  BY DEF RequestInv
<1>2. RecInv(n)
  BY <1>1 DEF RecInv
<1>3. SentOnce(req[r], n)
  BY DEF SentOnce
<1> QED BY <1>2, <1>3 DEF Moved

\* The same for a step that takes the next channel.
LEMMA TakesOne ==
  ASSUME TypeOK, RequestInv, NEW r \in Request, AtChannel(r), NEW n \in RequestRec, Become(r, n),
         n.queue = Taken(r).queue, n.tried = Taken(r).tried, n.list = req[r].list,
         n.snap = req[r].snap, n.pc \in {"mark", "next", "pump", "drain"},
         n.pc = "mark" => n.after \in {"next", "pump", "drain", "idle"}, InUse(n), MarkTrue(n),
         n.committed <=> (n.pc \in {"pump", "drain"} \/ (n.pc = "mark" /\ n.after # "next"))
  PROVE  Moved(r, n)
<1>1. /\ RecInv(req[r]) /\ RecInv(Taken(r)) /\ Taken(r).pc = "try" /\ ~req[r].committed
      /\ Cur(r) \notin req[r].tried /\ Taken(r).list = req[r].list /\ Taken(r).snap = req[r].snap
  BY TakenKeeps DEF RequestInv
<1>2. RecInv(n)
  BY <1>1 DEF RecInv
<1>3. SentOnce(req[r], n)
  BY <1>1 DEF SentOnce, Cur
<1> QED BY <1>2, <1>3 DEF Moved

LEMMA RequestMoves ==
  ASSUME IInv, NEW r \in Request,
         RequestStep(r) \/ (\E kind \in Kind : Arrive(r, kind)) \/ Leave(r) \/ SessionEnds(r)
  PROVE  \E n : Moved(r, n)
<1> DEFINE q == req[r]
<1> USE DEF IInv
<1>1. q \in RequestRec /\ InUse(q) /\ RecInv(q) /\ MarkTrue(q)
  BY DEF TypeOK, RequestInv, VerdictInv, InUse
<1>2. q.pc \in Place /\ q.open \in Channel \cup {None} /\ q.cur \in Channel \cup {None}
  BY <1>1 DEF RequestRec
<1>3. ASSUME NEW kind \in Kind, Arrive(r, kind) PROVE \E n : Moved(r, n)
  <2> DEFINE n == [q EXCEPT !.pc = "route", !.kind = kind]
  <2>1. Become(r, n) /\ n \in RequestRec /\ n.pc = "route" /\ n.queue = q.queue /\ n.tried = q.tried
        /\ n.committed = q.committed /\ q.pc = "idle"
    BY <1>1, <1>3 DEF Arrive, RequestRec, Place
  <2> HIDE DEF n
  <2>2. RecInv(n) /\ InUse(n) /\ MarkTrue(n) /\ SentOnce(q, n)
    BY <1>1, <2>1 DEF RecInv, InUse, MarkTrue, SentOnce
  <2> QED BY <2>1, <2>2 DEF Moved
<1>4. CASE ReadChannels(r)
  <2> DEFINE n == [q EXCEPT !.pc = "health", !.list = Enabled \cap Serves[r][q.kind]]
  <2>1. Become(r, n) /\ n \in RequestRec /\ n.pc = "health" /\ n.queue = q.queue /\ n.tried = q.tried
        /\ n.committed = q.committed /\ q.pc = "route"
    BY <1>1, <1>4 DEF ReadChannels, RequestRec, Place, Enabled
  <2> HIDE DEF n
  <2>2. RecInv(n) /\ InUse(n) /\ MarkTrue(n) /\ SentOnce(q, n)
    BY <1>1, <2>1 DEF RecInv, InUse, MarkTrue, SentOnce
  <2> QED BY <2>1, <2>2 DEF Moved
<1>5. CASE ReadHealth(r)
  <2> DEFINE bad == {c \in q.list : health[c] \in Unhealthy}
             found == Candidates(q.list, bad)
             open == IF found = {} \/ q.open \in found THEN q.open ELSE None
             pc == IF found = {} THEN "nobody" ELSE IF open # None THEN "existing" ELSE "try"
  <2>1. bad \subseteq q.list /\ found \subseteq q.list /\ q.list \subseteq Channel /\ q.pc = "health"
        /\ (found = {} => q.list = {})
    BY <1>1, <1>5 DEF ReadHealth, Candidates, RequestRec
  <2>2. PICK queue \in Orders(found) :
          Become(r, [q EXCEPT !.pc = pc, !.snap = bad, !.queue = queue, !.open = open])
    BY <1>5 DEF ReadHealth
  <2> DEFINE n == [q EXCEPT !.pc = pc, !.snap = bad, !.queue = queue, !.open = open]
  <2>3. /\ queue \in Seq(Channel) /\ Elems(queue) = found
        /\ \A i, j \in DOMAIN queue : i # j => queue[i] # queue[j]
    BY <2>1, OrdersAreSequences
  <2>4. /\ n \in RequestRec /\ n.pc = pc /\ n.queue = queue /\ n.tried = {} /\ ~n.committed
        /\ n.list = q.list /\ n.snap = bad /\ n.open = open
    BY <1>1, <2>1, <2>3 DEF RequestRec, Place, RecInv
  <2>5. pc \in {"nobody", "existing", "try"} /\ (pc = "nobody" => q.list = {})
        /\ (pc = "existing" => open \in Channel) /\ (pc # "nobody" => found # {} /\ q.list # {})
    BY <1>2, <2>1
  <2>6. Become(r, n)
    BY <2>2
  <2> HIDE DEF n, pc, open, bad
  <2>7. RecInv(n)
    BY <2>3, <2>4, <2>5, <2>1 DEF RecInv
  <2>8. InUse(n) /\ MarkTrue(n) /\ SentOnce(q, n)
    BY <1>1, <2>1, <2>4, <2>5 DEF InUse, MarkTrue, SentOnce, RecInv
  <2> QED BY <2>4, <2>6, <2>7, <2>8 DEF Moved
<1>6. CASE Reuse(r)
  <2>1. q.pc = "existing" /\ q.open \in Channel /\ ~q.committed
    BY <1>1, <1>6 DEF Reuse, RecInv
  <2>2. CASE Become(r, [q EXCEPT !.pc = "pump", !.cur = q.open, !.open = None, !.committed = TRUE])
    <3> DEFINE n == [q EXCEPT !.pc = "pump", !.cur = q.open, !.open = None, !.committed = TRUE]
    <3>1. n \in RequestRec /\ n.pc = "pump" /\ n.cur \in Channel /\ n.committed /\ n.queue = q.queue
          /\ n.tried = q.tried /\ n.list = q.list /\ n.snap = q.snap
      BY <1>1, <2>1 DEF RequestRec, Place
    <3> HIDE DEF n
    <3> QED BY <2>1, <2>2, <3>1, SameQueue DEF InUse, MarkTrue, n
  <2>3. CASE Become(r, [q EXCEPT !.pc = "try", !.open = None])
    <3> DEFINE n == [q EXCEPT !.pc = "try", !.open = None]
    <3>1. n \in RequestRec /\ n.pc = "try" /\ ~n.committed /\ n.queue = q.queue
          /\ n.tried = q.tried /\ n.list = q.list /\ n.snap = q.snap
      BY <1>1, <2>1 DEF RequestRec, Place
    <3> HIDE DEF n
    <3> QED BY <2>1, <2>3, <3>1, SameQueue DEF InUse, MarkTrue, n
  <2> QED BY <1>6, <2>2, <2>3 DEF Reuse
<1>7. CASE Mark(r)
  <2>1. q.pc = "mark" /\ q.cur \in Channel
    BY <1>1, <1>7 DEF Mark, InUse
  <2>2. CASE q.after = "idle"
    <3>1. Over(r, IF q.kind = "ws" THEN q.cur ELSE None)
      BY <1>7, <2>2 DEF Mark
    <3> QED BY <2>1, <3>1, OverMoves
  <2>3. CASE q.after # "idle"
    <3> DEFINE n == [q EXCEPT !.pc = q.after, !.mark = "none", !.after = "idle"]
    <3>1. n \in RequestRec /\ n.pc = q.after /\ n.committed = q.committed /\ n.queue = q.queue
          /\ n.tried = q.tried /\ n.list = q.list /\ n.snap = q.snap /\ n.cur = q.cur
      BY <1>1, <2>1 DEF RequestRec, Verdict, Unhealthy, Place
    <3>2. Become(r, n)
      BY <1>7, <2>3 DEF Mark
    <3>3. q.after \in {"next", "pump", "drain"}
      BY <1>1, <2>1, <2>3 DEF RecInv
    <3> HIDE DEF n
    <3>4. n.committed <=> n.pc \in {"pump", "drain"}
      BY <1>1, <2>1, <3>1, <3>3 DEF RecInv
    <3> QED BY <2>1, <3>1, <3>2, <3>3, <3>4, SameQueue DEF InUse, MarkTrue
  <2> QED BY <2>2, <2>3
<1>8. CASE NextCandidate(r)
  <2> DEFINE n == [q EXCEPT !.pc = IF q.queue = <<>> THEN "failed" ELSE "try"]
  <2>1. n \in RequestRec /\ n.pc \in {"failed", "try"} /\ (n.pc = "failed" => n.queue = <<>>)
        /\ n.committed = q.committed /\ n.queue = q.queue
        /\ n.tried = q.tried /\ n.list = q.list /\ n.snap = q.snap /\ q.pc = "next"
    BY <1>1, <1>8 DEF NextCandidate, RequestRec, Place
  <2>2. Become(r, n)
    BY <1>8 DEF NextCandidate, Goto
  <2> HIDE DEF n
  <2>3. ~q.committed
    BY <1>1, <2>1 DEF RecInv
  <2> QED BY <2>1, <2>2, <2>3, SameQueue DEF InUse, MarkTrue
<1>9. CASE Reply(r)
  BY <1>2, <1>9, OverMoves DEF Reply
<1>10. CASE Refuses(r)
  BY <1>10, OverMoves DEF Refuses
<1>11. CASE Fails(r)
  <2> DEFINE t == Taken(r)
             n == [t EXCEPT !.pc = "mark", !.mark = "bad", !.after = "next"]
  <2>1. AtChannel(r) /\ Become(r, n) /\ upstream[Cur(r)] \in {"half", "down", "hung"}
    BY <1>11 DEF Fails
  <2>2. /\ t \in RequestRec /\ t.cur \in Channel /\ ~t.committed /\ t.list = q.list /\ t.snap = q.snap
        /\ t.cur = Cur(r)
    BY <1>1, <2>1, TakenKeeps
  <2>3. n \in RequestRec /\ n.pc = "mark" /\ n.mark = "bad" /\ n.after = "next" /\ ~n.committed
        /\ n.cur = Cur(r) /\ n.queue = t.queue /\ n.tried = t.tried /\ n.list = q.list /\ n.snap = q.snap
    BY <2>2 DEF RequestRec, Place, Verdict, Unhealthy
  <2>4. ever[Cur(r)] # {"up"}
    BY <2>1, <2>2 DEF EverInv
  <2> HIDE DEF n, t
  <2>5. MarkTrue(n) /\ InUse(n)
    BY <2>2, <2>3, <2>4 DEF MarkTrue, InUse, MayBe, Unhealthy
  <2> QED BY <2>1, <2>3, <2>5, TakesOne DEF t
<1>12. CASE RefusesSocket(r)
  <2> DEFINE t == Taken(r)
             n == [t EXCEPT !.pc = "mark", !.mark = "refused", !.after = "next"]
  <2>1. AtChannel(r) /\ Become(r, n) /\ upstream[Cur(r)] # "down"
    BY <1>12 DEF RefusesSocket
  <2>2. /\ t \in RequestRec /\ t.cur \in Channel /\ ~t.committed /\ t.list = q.list /\ t.snap = q.snap
        /\ t.cur = Cur(r)
    BY <1>1, <2>1, TakenKeeps
  <2>3. n \in RequestRec /\ n.pc = "mark" /\ n.mark = "refused" /\ n.after = "next" /\ ~n.committed
        /\ n.cur = Cur(r) /\ n.queue = t.queue /\ n.tried = t.tried /\ n.list = q.list /\ n.snap = q.snap
    BY <2>2 DEF RequestRec, Place, Verdict, Unhealthy
  <2>4. ever[Cur(r)] # {"down"}
    BY <2>1, <2>2 DEF EverInv
  <2> HIDE DEF n, t
  <2>5. MarkTrue(n) /\ InUse(n)
    BY <2>2, <2>3, <2>4 DEF MarkTrue, InUse, MayBe, Unhealthy
  <2> QED BY <2>1, <2>3, <2>5, TakesOne DEF t
<1>13. CASE Serve(r)
  <2> DEFINE t == Taken(r)
             marked(after) == [t EXCEPT !.pc = "mark", !.mark = "ok", !.after = after, !.committed = TRUE]
  <2>1. AtChannel(r) /\ upstream[Cur(r)] \in Mode
    BY <1>1, <1>13, TakenKeeps DEF Serve, TypeOK
  <2>2. /\ t \in RequestRec /\ t.cur \in Channel /\ ~t.committed /\ t.list = q.list /\ t.snap = q.snap
        /\ t.cur = Cur(r)
    BY <1>1, <2>1, TakenKeeps
  <2>3. ASSUME NEW after \in {"pump", "drain", "idle"}, Become(r, marked(after)), upstream[Cur(r)] # "down"
        PROVE  \E n : Moved(r, n)
    <3> DEFINE n == marked(after)
    <3>1. n \in RequestRec /\ n.pc = "mark" /\ n.mark = "ok" /\ n.after = after /\ n.committed
          /\ n.cur = Cur(r) /\ n.queue = t.queue /\ n.tried = t.tried /\ n.list = q.list /\ n.snap = q.snap
      BY <2>2, <2>3 DEF RequestRec, Place, Verdict, Unhealthy
    <3>2. ever[Cur(r)] # {"down"}
      BY <2>2, <2>3 DEF EverInv
    <3>3. Become(r, n)
      BY <2>3
    <3> HIDE DEF n, t
    <3>4. MarkTrue(n) /\ InUse(n)
      BY <2>2, <3>1, <3>2 DEF MarkTrue, InUse, MayBe, Unhealthy
    <3> QED BY <2>1, <2>3, <3>1, <3>3, <3>4, TakesOne DEF t
  <2>4. ASSUME Become(r, [t EXCEPT !.pc = "pump", !.committed = TRUE]) PROVE \E n : Moved(r, n)
    <3> DEFINE n == [t EXCEPT !.pc = "pump", !.committed = TRUE]
    <3>1. n \in RequestRec /\ n.pc = "pump" /\ n.committed
          /\ n.cur = Cur(r) /\ n.queue = t.queue /\ n.tried = t.tried /\ n.list = q.list /\ n.snap = q.snap
      BY <2>2 DEF RequestRec, Place
    <3>2. Become(r, n)
      BY <2>4
    <3> HIDE DEF n, t
    <3>3. MarkTrue(n) /\ InUse(n)
      BY <2>2, <3>1 DEF MarkTrue, InUse
    <3> QED BY <2>1, <3>1, <3>2, <3>3, TakesOne DEF t
  <2> HIDE DEF t
  <2>5. \/ Become(r, marked("pump")) /\ upstream[Cur(r)] # "down"
        \/ Become(r, marked("drain")) /\ upstream[Cur(r)] # "down"
        \/ Become(r, marked("idle")) /\ upstream[Cur(r)] # "down"
        \/ Become(r, [t EXCEPT !.pc = "pump", !.committed = TRUE])
    BY <1>13 DEF Serve, t, Up
  <2> HIDE DEF marked
  <2> QED BY <2>3, <2>4, <2>5
<1>14. CASE Passes(r)
  <2> DEFINE t == Taken(r)
             n == [t EXCEPT !.pc = "next"]
  <2>1. AtChannel(r) /\ Become(r, n)
    BY <1>14 DEF Passes
  <2>2. t \in RequestRec /\ ~t.committed /\ t.list = q.list /\ t.snap = q.snap
    BY <1>1, <2>1, TakenKeeps
  <2>3. n \in RequestRec /\ n.pc = "next" /\ ~n.committed /\ n.queue = t.queue /\ n.tried = t.tried
        /\ n.list = q.list /\ n.snap = q.snap
    BY <2>2 DEF RequestRec, Place
  <2> HIDE DEF n, t
  <2> QED BY <2>1, <2>3, TakesOne DEF t, MarkTrue, InUse
<1>15. CASE Finish(r)
  <2> DEFINE n == [q EXCEPT !.pc = "mark", !.mark = "ok", !.after = "idle"]
  <2>1. q.pc = "pump" /\ q.cur \in Channel /\ q.committed
    BY <1>1, <1>15 DEF Finish, InUse, RecInv
  <2>2. CASE Become(r, n) /\ upstream[q.cur] \in {"up", "half"}
    <3>1. n \in RequestRec /\ n.pc = "mark" /\ n.mark = "ok" /\ n.after = "idle" /\ n.committed
          /\ n.cur = q.cur /\ n.queue = q.queue /\ n.tried = q.tried /\ n.list = q.list /\ n.snap = q.snap
      BY <1>1, <2>1 DEF RequestRec, Place, Verdict, Unhealthy
    <3>2. ever[q.cur] # {"down"}
      BY <2>1, <2>2 DEF EverInv
    <3> HIDE DEF n
    <3> QED BY <2>1, <2>2, <3>1, <3>2, SameQueue DEF MarkTrue, InUse, MayBe, Unhealthy
  <2>3. CASE Over(r, None)
    BY <2>3, OverMoves
  <2> QED BY <1>15, <2>2, <2>3 DEF Finish
<1>16. CASE Break(r)
  <2> DEFINE n == [q EXCEPT !.pc = "mark", !.mark = "bad", !.after = "idle"]
  <2>1. q.pc = "pump" /\ q.cur \in Channel /\ q.committed /\ upstream[q.cur] # "up"
    BY <1>1, <1>16 DEF Break, InUse, RecInv, Up
  <2>2. CASE Become(r, n)
    <3>1. n \in RequestRec /\ n.pc = "mark" /\ n.mark = "bad" /\ n.after = "idle" /\ n.committed
          /\ n.cur = q.cur /\ n.queue = q.queue /\ n.tried = q.tried /\ n.list = q.list /\ n.snap = q.snap
      BY <1>1, <2>1 DEF RequestRec, Place, Verdict, Unhealthy
    <3>2. ever[q.cur] # {"up"}
      BY <2>1 DEF EverInv
    <3> HIDE DEF n
    <3> QED BY <2>1, <2>2, <3>1, <3>2, SameQueue DEF MarkTrue, InUse, MayBe, Unhealthy
  <2>3. CASE Over(r, None)
    BY <2>3, OverMoves
  <2> QED BY <1>16, <2>2, <2>3 DEF Break
<1>17. CASE Drain(r) \/ Leave(r) \/ SessionEnds(r)
  BY <1>17, OverMoves DEF Drain, Leave, SessionEnds
<1> QED BY <1>3, <1>4, <1>5, <1>6, <1>7, <1>8, <1>9, <1>10, <1>11, <1>12, <1>13, <1>14, <1>15, <1>16, <1>17
        DEF RequestStep

\* What a request does to the rest: it may write a verdict it holds.
LEMMA RequestWrites ==
  ASSUME IInv, NEW r \in Request,
         RequestStep(r) \/ (\E kind \in Kind : Arrive(r, kind)) \/ Leave(r) \/ SessionEnds(r)
  PROVE  /\ UNCHANGED <<world, prober>>
         /\ \/ health' = health
            \/ \E c \in Channel, v \in {"ok"} \cup Unhealthy :
                 MayBe(c, v) /\ health' = [health EXCEPT ![c] = v]
<1>1. CASE Mark(r)
  <2>1. req[r].cur \in Channel /\ req[r].mark \in {"ok"} \cup Unhealthy /\ MayBe(req[r].cur, req[r].mark)
    BY <1>1 DEF IInv, TypeOK, VerdictInv, MarkTrue, Mark
  <2> QED BY <1>1, <2>1 DEF Mark
<1>2. CASE ~Mark(r)
  BY <1>2 DEF RequestStep, Arrive, Leave, SessionEnds, ReadChannels, ReadHealth, Reuse, NextCandidate,
              Reply, Fails, Serve, Refuses, RefusesSocket, Passes, Finish, Break, Drain
<1> QED BY <1>1, <1>2

LEMMA RequestKeeps ==
  ASSUME IInv, NEW r \in Request,
         RequestStep(r) \/ (\E kind \in Kind : Arrive(r, kind)) \/ Leave(r) \/ SessionEnds(r)
  PROVE  IInv' /\ \A s \in Request : SentOnce(req[s], req'[s])
<1>1. PICK n : Moved(r, n)
  BY RequestMoves
<1>2. /\ UNCHANGED <<chan, upstream, ever, changes, prober>>
      /\ \/ health' = health
         \/ \E c \in Channel, v \in {"ok"} \cup Unhealthy :
              MayBe(c, v) /\ health' = [health EXCEPT ![c] = v]
  BY RequestWrites DEF world
<1>3. req' = [req EXCEPT ![r] = n] /\ req \in [Request -> RequestRec] /\ n \in RequestRec
  BY <1>1 DEF Moved, Become, IInv, TypeOK
<1>4. \A s \in Request : req'[s] = IF s = r THEN n ELSE req[s]
  BY <1>3
<1>5. /\ health' \in [Channel -> Verdict]
      /\ \A c \in Channel : health'[c] = health[c] \/ MayBe(c, health'[c])
  BY <1>2 DEF IInv, TypeOK, Verdict, Unhealthy
<1>6. TypeOK'
  BY <1>1, <1>2, <1>3, <1>4, <1>5 DEF Moved, InUse, IInv, TypeOK
<1>7. RequestInv'
  BY <1>1, <1>4 DEF Moved, IInv, RequestInv
<1>8. EverInv'
  BY <1>2 DEF IInv, EverInv
<1>9. VerdictInv'
  <2>1. \A c, v : MayBe(c, v)' <=> MayBe(c, v)
    BY <1>2 DEF MayBe
  <2>2. \A q : MarkTrue(q)' <=> MarkTrue(q)
    BY <2>1 DEF MarkTrue
  <2>3. \A c \in Channel : MayBe(c, health[c])'
    BY <1>2, <1>5 DEF IInv, VerdictInv, MayBe
  <2>4. \A s \in Request : MarkTrue(req[s])'
    BY <1>1, <1>2, <1>4 DEF IInv, VerdictInv, MarkTrue, MayBe, Moved
  <2> QED BY <1>2, <2>3, <2>4 DEF IInv, VerdictInv, MayBe
<1>10. \A s \in Request : SentOnce(req[s], req'[s])
  BY <1>1, <1>4 DEF Moved, SentOnce
<1> QED BY <1>6, <1>7, <1>8, <1>9, <1>10 DEF IInv

-----------------------------------------------------------------------------
(* Rounds and the world *)

LEMMA NoRoundType == NoRound \in ProberRec
BY DEF NoRound, ProberRec, Verdict, Unhealthy

LEMMA RoundKeeps ==
  ASSUME IInv, NEW p \in Prober, StartRound(p) \/ Round(p)
  PROVE  IInv' /\ UNCHANGED req
<1>1. UNCHANGED <<chan, upstream, ever, changes, req>>
  BY DEF StartRound, Round, Probe, Insert, Retain, world
<1>2. prober[p] \in ProberRec /\ prober \in [Prober -> ProberRec]
  BY DEF IInv, TypeOK
<1>3. PICK n \in ProberRec :
        /\ prober' = [prober EXCEPT ![p] = n]
        /\ n.pc = "insert" => n.cur \in Channel /\ MayBe(n.cur, n.result)
  <2>1. CASE StartRound(p)
    <3> DEFINE n == [NoRound EXCEPT !.pc = "probe", !.list = Listed, !.todo = Enabled]
    <3>1. n \in ProberRec /\ n.pc = "probe"
      BY NoRoundType DEF ProberRec, Listed, Enabled
    <3> QED BY <2>1, <3>1 DEF StartRound, Probing
  <2>2. CASE Probe(p)
    <3>1. PICK c \in prober[p].todo :
            Probing(p, [prober[p] EXCEPT !.pc = "insert", !.cur = c,
                          !.result = IF upstream[c] \in {"up", "half"} THEN "ok" ELSE "bad",
                          !.todo = @ \ {c}])
      BY <2>2 DEF Probe
    <3> DEFINE v == IF upstream[c] \in {"up", "half"} THEN "ok" ELSE "bad"
               n == [prober[p] EXCEPT !.pc = "insert", !.cur = c, !.result = v, !.todo = @ \ {c}]
    <3>2. c \in Channel /\ v \in Verdict
      BY <1>2 DEF ProberRec, Verdict, Unhealthy
    <3>3. MayBe(c, v)
      BY <3>2 DEF IInv, EverInv, MayBe
    <3>4. n \in ProberRec /\ n.cur = c /\ n.result = v
      BY <1>2, <3>2 DEF ProberRec
    <3>5. prober' = [prober EXCEPT ![p] = n]
      BY <3>1 DEF Probing
    <3> HIDE DEF v, n
    <3> QED BY <3>2, <3>3, <3>4, <3>5
  <2>3. CASE Insert(p)
    <3> DEFINE n == [prober[p] EXCEPT !.pc = "probe", !.cur = None, !.result = "none"]
    <3>1. n \in ProberRec /\ n.pc = "probe"
      BY <1>2 DEF ProberRec, Verdict, Unhealthy
    <3> QED BY <2>3, <3>1 DEF Insert, Probing
  <2>4. CASE Retain(p)
    BY <2>4, NoRoundType DEF Retain, Probing, NoRound
  <2> QED BY <2>1, <2>2, <2>3, <2>4 DEF Round
<1>4. \A s \in Prober : prober'[s] = IF s = p THEN n ELSE prober[s]
  BY <1>2, <1>3
<1>5. /\ health' \in [Channel -> Verdict]
      /\ \A c \in Channel : MayBe(c, health'[c])
  <2>1. CASE StartRound(p) \/ Probe(p)
    BY <2>1 DEF StartRound, Probe, IInv, TypeOK, VerdictInv
  <2>2. CASE Insert(p)
    <3>1. /\ prober[p].cur \in Channel /\ MayBe(prober[p].cur, prober[p].result)
          /\ prober[p].result \in Verdict
      BY <1>2, <2>2 DEF Insert, IInv, VerdictInv, ProberRec
    <3> QED BY <2>2, <3>1 DEF Insert, IInv, TypeOK, VerdictInv
  <2>3. CASE Retain(p)
    BY <2>3 DEF Retain, IInv, TypeOK, VerdictInv, Verdict, Unhealthy, MayBe
  <2> QED BY <2>1, <2>2, <2>3 DEF Round
<1>6. TypeOK'
  BY <1>1, <1>2, <1>3, <1>4, <1>5 DEF IInv, TypeOK
<1>7. RequestInv' /\ EverInv'
  BY <1>1 DEF IInv, RequestInv, EverInv
<1>8. VerdictInv'
  BY <1>1, <1>3, <1>4, <1>5 DEF IInv, VerdictInv, MarkTrue, MayBe
<1> QED BY <1>1, <1>6, <1>7, <1>8 DEF IInv

LEMMA WorldKeeps ==
  ASSUME IInv, Respawn \/ (\E c \in Channel : Edit(c) \/ Flip(c))
  PROVE  IInv' /\ UNCHANGED req
<1>0. changes' \in 0 .. MaxChanges /\ UNCHANGED req
  BY RoutingConstants DEF Respawn, Edit, Flip, Change, IInv, TypeOK
<1>1. CASE Respawn
  <2>1. /\ UNCHANGED <<chan, upstream, ever, health, req>>
        /\ prober' = [prober EXCEPT ![Timer] = NoRound]
    BY <1>1 DEF Respawn, Probing
  <2>2. prober' \in [Prober -> ProberRec] /\ \A p \in Prober : prober'[p] \in {prober[p], NoRound}
    BY <2>1, NoRoundType DEF IInv, TypeOK
  <2>3. TypeOK'
    BY <1>0, <2>1, <2>2 DEF IInv, TypeOK
  <2>4. RequestInv' /\ EverInv'
    BY <2>1 DEF IInv, RequestInv, EverInv
  <2>5. VerdictInv'
    BY <2>1, <2>2 DEF IInv, VerdictInv, MarkTrue, MayBe, NoRound
  <2> QED BY <1>0, <2>3, <2>4, <2>5 DEF IInv
<1>2. ASSUME NEW c \in Channel, Edit(c) PROVE IInv'
  <2>1. /\ UNCHANGED <<upstream, ever, health, req, prober>>
        /\ chan' \in [Channel -> {"on", "off", "absent"}]
    BY <1>2 DEF Edit, IInv, TypeOK
  <2>2. TypeOK'
    BY <1>0, <2>1 DEF IInv, TypeOK
  <2>3. RequestInv' /\ EverInv'
    BY <2>1 DEF IInv, RequestInv, EverInv
  <2>4. VerdictInv'
    BY <2>1 DEF IInv, VerdictInv, MarkTrue, MayBe
  <2> QED BY <2>2, <2>3, <2>4 DEF IInv
<1>3. ASSUME NEW c \in Channel, Flip(c) PROVE IInv'
  <2>1. PICK m \in Mode : /\ upstream' = [upstream EXCEPT ![c] = m]
                          /\ ever' = [ever EXCEPT ![c] = @ \cup {m}]
                          /\ UNCHANGED <<chan, health, req, prober>>
    BY <1>3 DEF Flip
  <2>2. /\ upstream' \in [Channel -> Mode] /\ ever' \in [Channel -> SUBSET Mode]
        /\ \A d \in Channel : ever[d] \subseteq ever'[d] /\ ever[d] # {} /\ upstream'[d] \in ever'[d]
    BY <2>1 DEF IInv, TypeOK, EverInv
  <2>3. TypeOK'
    BY <1>0, <2>1, <2>2 DEF IInv, TypeOK
  <2>4. RequestInv' /\ EverInv'
    BY <2>1, <2>2 DEF IInv, RequestInv, EverInv
  <2>5. ASSUME NEW d \in Channel, NEW v, MayBe(d, v) PROVE MayBe(d, v)'
    BY <2>2, <2>5 DEF MayBe
  <2>6. VerdictInv'
    <3>1. \A d \in Channel : MayBe(d, health[d])'
      BY <2>1, <2>2 DEF IInv, VerdictInv, MayBe
    <3>2. \A r \in Request : MarkTrue(req[r])'
      BY <2>1, <2>2 DEF IInv, TypeOK, VerdictInv, MarkTrue, MayBe
    <3> QED BY <2>1, <2>2, <3>1, <3>2 DEF IInv, VerdictInv, MayBe
  <2> QED BY <2>3, <2>4, <2>6 DEF IInv
<1> QED BY <1>0, <1>1, <1>2, <1>3

-----------------------------------------------------------------------------
(* The theorems *)

LEMMA InitIInv == Init => IInv
<1> SUFFICES ASSUME Init PROVE IInv
  OBVIOUS
<1>1. TypeOK
  BY NoRequestType, NoRoundType, RoutingConstants DEF Init, TypeOK, Verdict, Unhealthy, NoRequest
<1>2. RecInv(NoRequest)
  BY DEF RecInv, NoRequest
<1> QED BY <1>1, <1>2 DEF Init, IInv, RequestInv, EverInv, VerdictInv, MarkTrue, MayBe, NoRequest,
                          NoRound

LEMMA StepIInv ==
  ASSUME IInv, [Next]_vars
  PROVE  IInv' /\ \A r \in Request : SentOnce(req[r], req'[r])
<1>1. \A r \in Request : UNCHANGED req => SentOnce(req[r], req'[r])
  BY DEF SentOnce
<1>2. CASE UNCHANGED vars
  <2>1. IInv'
    BY <1>2 DEF vars, world, IInv, TypeOK, RequestInv, EverInv, VerdictInv, MarkTrue, MayBe
  <2> QED BY <1>1, <1>2, <2>1 DEF vars
<1>3. CASE Next
  BY <1>1, <1>3, RequestKeeps, RoundKeeps, WorldKeeps DEF Next
<1> QED BY <1>2, <1>3

\* The inductive invariant the theorems below rest on: what the code's loops keep of each
\* request's queue, of what was tried, and of every verdict that is about to be recorded
\* (run_operation, mark_health, probe_all).
THEOREM IInvAlways == Spec => []IInv
<1>1. IInv /\ [Next]_vars => IInv'
  BY StepIInv
<1> QED BY InitIInv, <1>1, PTL DEF Spec

\* The records, the map and the channels in use keep their types.
THEOREM RoutingTypeCorrect == Spec => []TypeOK
<1>1. IInv => TypeOK
  BY DEF IInv
<1> QED BY IInvAlways, <1>1, PTL

\* Nothing is recorded of a channel that it has given no cause for, for any number of clients
\* and rounds that write over each other: what always works is unhealthy only as one that did
\* not open a WebSocket (mark_health, mark_ws_channel_health, probe_all).
THEOREM HealthAlwaysTrue == Spec => []HealthIsTrue
<1>1. IInv => HealthIsTrue
  BY DEF IInv, VerdictInv, MarkTrue, HealthIsTrue
<1> QED BY IInvAlways, <1>1, PTL

\* Nobody is turned away while a channel is left that could serve, and no channel seen
\* unhealthy is asked before the healthy ones (candidates_for_model_ranked, run_operation).
THEOREM NeverPassedOver == Spec => []NoneIsPassedOver
<1>1. ASSUME IInv PROVE NoneIsPassedOver
  <2> SUFFICES ASSUME NEW r \in Request
               PROVE  /\ req[r].pc = "nobody" => req[r].list = {}
                      /\ req[r].pc = "failed" =>
                           req[r].tried \in {req[r].list, req[r].list \ req[r].snap} \ {{}}
                      /\ req[r].tried \cap req[r].snap # {} => req[r].list \subseteq req[r].snap
    BY DEF NoneIsPassedOver
  <2> DEFINE q == req[r]
  <2>1. RecInv(q) /\ q.pc \in Place
    BY <1>1 DEF IInv, RequestInv, TypeOK, RequestRec
  <2>2. q.pc = "nobody" => q.list = {}
    BY <2>1 DEF RecInv
  <2>3. ASSUME q.pc = "failed"
        PROVE  q.tried \in {q.list, q.list \ q.snap} \ {{}}
    <3>1. /\ q.queue = <<>> /\ q.list # {}
          /\ q.tried \cup Elems(q.queue) = Candidates(q.list, q.snap)
      BY <2>1, <2>3 DEF RecInv
    <3>2. Elems(<<>>) = {}
      BY DEF Elems
    <3>3. q.tried = Candidates(q.list, q.snap)
      BY <3>1, <3>2
    <3> QED BY <3>1, <3>3 DEF Candidates
  <2>4. ASSUME q.tried \cap q.snap # {} PROVE q.list \subseteq q.snap
    <3>1. q.tried \subseteq Candidates(q.list, q.snap)
      BY <2>1, <2>4 DEF RecInv, Place
    <3> QED BY <2>4, <3>1 DEF Candidates
  <2> QED BY <2>2, <2>3, <2>4
<1> QED BY IInvAlways, <1>1, PTL

\* A request whose answer has begun goes to no other channel, and never twice to one
\* (start_stream_response, ws_session).
THEOREM AlwaysSentOnce == Spec => NeverSentAgain
<1>1. IInv /\ [Next]_vars => [\A r \in Request :
         /\ req'[r].tried # req[r].tried /\ req'[r].tried # {} =>
              ~req[r].committed /\ Cur(r) \notin req[r].tried
         /\ req[r].committed => req'[r].committed \/ req'[r].pc = "idle"]_vars
  BY StepIInv DEF SentOnce, Cur
<1> QED BY IInvAlways, <1>1, PTL DEF Spec, NeverSentAgain
=============================================================================
