------------------------- MODULE RemotePlansProofs -------------------------
(* Theorems about RemotePlans, for any number of plans, requests, keys and faults. *)
EXTENDS RemotePlans, TLAPS

(***************************************************************************)
(* What each stage of a request and of a plan knows                         *)
(***************************************************************************)

Known(p) == plan[p].rev \in View /\ plan[p].target \in View

\* A plan is looked up, refreshed and annotated only for a request that names one.
ReqOK(r) ==
  /\ IF req[r].pc = "idle" THEN req[r].what = None /\ cmd[r] = "none"
     ELSE /\ req[r].what \in Plan \cup {Direct} /\ req[r].key \in Key
          /\ req[r].what \in Plan => plan[req[r].what].pc = "ready"
  /\ req[r].pc \in {"asked", "known", "fresh", "read"} => req[r].what \in Plan
  /\ req[r].pc \in {"sent", "asked", "known", "fresh", "read", "noted"} => cmd[r] = "none"
ReqInv == \A r \in Req : ReqOK(r)
PlanInv == \A p \in Plan : plan[p].pc # "none" => Known(p)
TypeInv == TypeOK /\ ReqInv /\ PlanInv

\* What is reported, stored or answered as done has taken effect.
TrueOf(r) ==
  /\ cmd[r] \in {"changed", "ok"} => took[EffectOf(r)] > 0
  /\ req[r].pc \in {"done", "applied"} => took[EffectOf(r)] > 0
ResultTrue(k) ==
  /\ results[k] \in Plan => took[results[k]] > 0
  /\ results[k] = Direct => took[k] > 0
TrueInv == (\A r \in Req : TrueOf(r)) /\ (\A k \in Key : ResultTrue(k))

\* The lock has one holder.
LockInv == \A r, s \in Req : cmd[r] \in Locked /\ cmd[s] \in Locked => r = s

\* A plan is attempted once at a time; what its record says of its effect.
Attempt(r) == /\ req[r].what \in Plan
              /\ req[r].pc \notin Final \/ cmd[r] \in Locked \cup {"queued"}
SingleInv == \A r, s \in Req :
  Attempt(r) /\ Attempt(s) /\ req[r].what = req[s].what => r = s
RecordOf(p) ==
  /\ took[p] <= 1
  /\ journal[p] \in {"none", "Planned"} => took[p] = 0
  /\ plan[p].pc \in {"none", "previewed", "stored"} => journal[p] = "none"
AttemptOK(r) ==
  req[r].what \in Plan =>
    /\ req[r].pc = "read" => journal[req[r].what] = "Planned"
    /\ cmd[r] = "running" => journal[req[r].what] = "Prepared" /\ took[req[r].what] = 0
OnceInv == SingleInv /\ (\A p \in Plan : RecordOf(p)) /\ (\A r \in Req : AttemptOK(r))

\* What is half changed is Prepared in the journal.
OpenInv == /\ \A o \in begun : journal[o] = "Prepared"
           /\ InterruptedBlocks

-----------------------------------------------------------------------------
(* Types *)

LEMMA TypeStep ==
  ASSUME TypeInv, [Next]_vars PROVE TypeInv'
<1> USE RemoteConstants DEF TypeInv, TypeOK, ReqInv, ReqOK, PlanInv, Known, Final, Locked, At, Goto, OpOf, EffectOf, sessions, owner
<1>1. ASSUME NEW p \in Plan, Preview(p) PROVE TypeInv'
  BY <1>1 DEF Preview
<1>2. ASSUME NEW p \in Plan, NEW io \in IO, StorePlan(p, io) PROVE TypeInv'
  BY <1>2 DEF StorePlan, IO, Spend
<1>3. ASSUME NEW p \in Plan, NEW io \in IO, JournalPlan(p, io) PROVE TypeInv'
  BY <1>3 DEF JournalPlan, IO, Spend
<1>4. ASSUME NEW p \in Plan, Expire(p) PROVE TypeInv'
  BY <1>4 DEF Expire
<1>5. ASSUME NEW r \in Req, NEW w \in Plan \cup {Direct}, NEW k \in Key, Send(r, w, k) PROVE TypeInv'
  BY <1>5 DEF Send, Busy
<1>6. ASSUME NEW r \in Req, Lookup(r) PROVE TypeInv'
  BY <1>6 DEF Lookup
<1>7. ASSUME NEW r \in Req, GetPlan(r) PROVE TypeInv'
  BY <1>7 DEF GetPlan
<1>8. ASSUME NEW r \in Req, Refresh(r) PROVE TypeInv'
  BY <1>8 DEF Refresh
<1>9. ASSUME NEW r \in Req, ReadRecord(r) PROVE TypeInv'
  BY <1>9 DEF ReadRecord
<1>10. ASSUME NEW r \in Req, NEW io \in IO, Annotate(r, io) PROVE TypeInv'
  BY <1>10 DEF Annotate, IO, Spend
<1>11. ASSUME NEW r \in Req, Call(r) PROVE TypeInv'
  BY <1>11 DEF Call
<1>12. ASSUME NEW r \in Req, Receive(r) PROVE TypeInv'
  BY <1>12 DEF Receive
<1>13. ASSUME NEW r \in Req, NEW io \in IO, Record(r, io) PROVE TypeInv'
  BY <1>13 DEF Record, IO, Spend
<1>14. ASSUME NEW r \in Req, GiveUp(r) PROVE TypeInv'
  BY <1>14 DEF GiveUp
<1>15. ASSUME NEW r \in Req, NEW io \in IO, Begin(r, io) PROVE TypeInv'
  BY <1>15 DEF Begin, LockFree, Blocked, IO, Spend
<1>16. ASSUME NEW r \in Req, Reject(r) PROVE TypeInv'
  BY <1>16 DEF Reject
<1>17. ASSUME NEW r \in Req, NEW io \in IO, Dispatch(r, io) PROVE TypeInv'
  BY <1>17 DEF Dispatch, IO, Spend
<1>18. ASSUME NEW r \in Req, NEW io \in IO, Finish(r, io) PROVE TypeInv'
  BY <1>18 DEF Finish, IO, Spend
<1>19. ASSUME KillOwner PROVE TypeInv'
  BY <1>19 DEF KillOwner, Spend
<1>20. ASSUME NEW o \in Plan \cup Req, Accept(o) PROVE TypeInv'
  BY <1>20 DEF Accept, LockFree
<1>21. ASSUME NEW c \in View, ChangeHere(c) PROVE TypeInv'
  BY <1>21 DEF ChangeHere
<1>22. ASSUME UNCHANGED vars PROVE TypeInv'
  BY <1>22 DEF vars
<1> QED BY <1>1, <1>2, <1>3, <1>4, <1>5, <1>6, <1>7, <1>8, <1>9, <1>10, <1>11, <1>12, <1>13, <1>14, <1>15, <1>16, <1>17, <1>18, <1>19, <1>20, <1>21, <1>22 DEF Next, PlanStep, SessionStep, CommandStep, Others

LEMMA TypeInit == Init => TypeInv
BY RemoteConstants DEF Init, TypeInv, TypeOK, ReqInv, ReqOK, PlanInv, Final, Locked

\* Every variable keeps its type, whatever overlaps.
THEOREM RemoteTypeCorrect == Spec => []TypeOK
<1>1. TypeInv => TypeOK
  BY DEF TypeInv
<1> QED BY <1>1, TypeInit, TypeStep, PTL DEF Spec

-----------------------------------------------------------------------------
(* What is reported is true *)

LEMMA TrueStep ==
  ASSUME TypeInv, TypeInv', TrueInv, [Next]_vars PROVE TrueInv'
<1> USE RemoteConstants DEF TypeInv, TypeOK, ReqInv, ReqOK, PlanInv, Known, Final, Locked, At, Goto, OpOf, EffectOf, sessions, owner, TrueInv, TrueOf, ResultTrue
<1>1. ASSUME NEW p \in Plan, Preview(p) PROVE TrueInv'
  BY <1>1 DEF Preview
<1>2. ASSUME NEW p \in Plan, NEW io \in IO, StorePlan(p, io) PROVE TrueInv'
  BY <1>2 DEF StorePlan, IO, Spend
<1>3. ASSUME NEW p \in Plan, NEW io \in IO, JournalPlan(p, io) PROVE TrueInv'
  BY <1>3 DEF JournalPlan, IO, Spend
<1>4. ASSUME NEW p \in Plan, Expire(p) PROVE TrueInv'
  BY <1>4 DEF Expire
<1>5. ASSUME NEW r \in Req, NEW w \in Plan \cup {Direct}, NEW k \in Key, Send(r, w, k) PROVE TrueInv'
  BY <1>5 DEF Send, Busy
<1>6. ASSUME NEW r \in Req, Lookup(r) PROVE TrueInv'
  BY <1>6 DEF Lookup
<1>7. ASSUME NEW r \in Req, GetPlan(r) PROVE TrueInv'
  BY <1>7 DEF GetPlan
<1>8. ASSUME NEW r \in Req, Refresh(r) PROVE TrueInv'
  BY <1>8 DEF Refresh
<1>9. ASSUME NEW r \in Req, ReadRecord(r) PROVE TrueInv'
  BY <1>9 DEF ReadRecord
<1>10. ASSUME NEW r \in Req, NEW io \in IO, Annotate(r, io) PROVE TrueInv'
  BY <1>10 DEF Annotate, IO, Spend
<1>11. ASSUME NEW r \in Req, Call(r) PROVE TrueInv'
  BY <1>11 DEF Call
<1>12. ASSUME NEW r \in Req, Receive(r) PROVE TrueInv'
  BY <1>12 DEF Receive
<1>13. ASSUME NEW r \in Req, NEW io \in IO, Record(r, io) PROVE TrueInv'
  BY <1>13 DEF Record, IO, Spend
<1>14. ASSUME NEW r \in Req, GiveUp(r) PROVE TrueInv'
  BY <1>14 DEF GiveUp
<1>15. ASSUME NEW r \in Req, NEW io \in IO, Begin(r, io) PROVE TrueInv'
  BY <1>15 DEF Begin, LockFree, Blocked, IO, Spend
<1>16. ASSUME NEW r \in Req, Reject(r) PROVE TrueInv'
  BY <1>16 DEF Reject
<1>17. ASSUME NEW r \in Req, NEW io \in IO, Dispatch(r, io) PROVE TrueInv'
  <2>1. /\ cmd[r] = "running" /\ cmd' = [cmd EXCEPT ![r] = IF io = "ok" THEN "changed" ELSE "failed"]
        /\ req' = req /\ results' = results /\ EffectOf(r) \in Plan \cup Key
        /\ took' = took \/ took' = [took EXCEPT ![EffectOf(r)] = IF @ = 0 THEN 1 ELSE 2]
        /\ io # "fail" => took'[EffectOf(r)] > 0
    BY <1>17 DEF Dispatch
  <2>2. \A x \in Plan \cup Key : took[x] > 0 => took'[x] > 0
    BY <2>1
  <2>3. ASSUME NEW k \in Key PROVE ResultTrue(k)'
    BY <2>1, <2>2
  <2>4. ASSUME NEW s \in Req PROVE TrueOf(s)'
    BY <2>1, <2>2
  <2> QED BY <2>3, <2>4
<1>18. ASSUME NEW r \in Req, NEW io \in IO, Finish(r, io) PROVE TrueInv'
  BY <1>18 DEF Finish, IO, Spend
<1>19. ASSUME KillOwner PROVE TrueInv'
  BY <1>19 DEF KillOwner, Spend
<1>20. ASSUME NEW o \in Plan \cup Req, Accept(o) PROVE TrueInv'
  BY <1>20 DEF Accept, LockFree
<1>21. ASSUME NEW c \in View, ChangeHere(c) PROVE TrueInv'
  BY <1>21 DEF ChangeHere
<1>22. ASSUME UNCHANGED vars PROVE TrueInv'
  BY <1>22 DEF vars
<1> QED BY <1>1, <1>2, <1>3, <1>4, <1>5, <1>6, <1>7, <1>8, <1>9, <1>10, <1>11, <1>12, <1>13, <1>14, <1>15, <1>16, <1>17, <1>18, <1>19, <1>20, <1>21, <1>22 DEF Next, PlanStep, SessionStep, CommandStep, Others

\* Who is told "applied", from an execution or from the results on file, is told the
\* truth (cached_remote_mutation, apply_provider_switch, execute_mutation_response).
THEOREM AppliedAlwaysTrue == Spec => []AppliedIsTrue
<1>1. Init => TrueInv
  BY RemoteConstants DEF Init, TrueInv, TrueOf, ResultTrue
<1>2. TrueInv => AppliedIsTrue
  BY DEF TrueInv, TrueOf, AppliedIsTrue, At
<1> QED BY <1>1, <1>2, TypeInit, TypeStep, TrueStep, PTL DEF Spec

-----------------------------------------------------------------------------
(* One holder of the lock, one attempt at a plan *)

LEMMA LockStep ==
  ASSUME TypeInv, LockInv, [Next]_vars PROVE LockInv'
<1> USE RemoteConstants DEF TypeInv, TypeOK, ReqInv, ReqOK, PlanInv, Known, Final, Locked, At, Goto, OpOf, EffectOf, sessions, owner, LockInv
<1>1. ASSUME NEW p \in Plan, Preview(p) PROVE LockInv'
  BY <1>1 DEF Preview
<1>2. ASSUME NEW p \in Plan, NEW io \in IO, StorePlan(p, io) PROVE LockInv'
  BY <1>2 DEF StorePlan, IO, Spend
<1>3. ASSUME NEW p \in Plan, NEW io \in IO, JournalPlan(p, io) PROVE LockInv'
  BY <1>3 DEF JournalPlan, IO, Spend
<1>4. ASSUME NEW p \in Plan, Expire(p) PROVE LockInv'
  BY <1>4 DEF Expire
<1>5. ASSUME NEW r \in Req, NEW w \in Plan \cup {Direct}, NEW k \in Key, Send(r, w, k) PROVE LockInv'
  BY <1>5 DEF Send, Busy
<1>6. ASSUME NEW r \in Req, Lookup(r) PROVE LockInv'
  BY <1>6 DEF Lookup
<1>7. ASSUME NEW r \in Req, GetPlan(r) PROVE LockInv'
  BY <1>7 DEF GetPlan
<1>8. ASSUME NEW r \in Req, Refresh(r) PROVE LockInv'
  BY <1>8 DEF Refresh
<1>9. ASSUME NEW r \in Req, ReadRecord(r) PROVE LockInv'
  BY <1>9 DEF ReadRecord
<1>10. ASSUME NEW r \in Req, NEW io \in IO, Annotate(r, io) PROVE LockInv'
  BY <1>10 DEF Annotate, IO, Spend
<1>11. ASSUME NEW r \in Req, Call(r) PROVE LockInv'
  BY <1>11 DEF Call
<1>12. ASSUME NEW r \in Req, Receive(r) PROVE LockInv'
  BY <1>12 DEF Receive
<1>13. ASSUME NEW r \in Req, NEW io \in IO, Record(r, io) PROVE LockInv'
  BY <1>13 DEF Record, IO, Spend
<1>14. ASSUME NEW r \in Req, GiveUp(r) PROVE LockInv'
  BY <1>14 DEF GiveUp
<1>15. ASSUME NEW r \in Req, NEW io \in IO, Begin(r, io) PROVE LockInv'
  BY <1>15 DEF Begin, LockFree, Blocked, IO, Spend
<1>16. ASSUME NEW r \in Req, Reject(r) PROVE LockInv'
  BY <1>16 DEF Reject
<1>17. ASSUME NEW r \in Req, NEW io \in IO, Dispatch(r, io) PROVE LockInv'
  BY <1>17 DEF Dispatch, IO, Spend
<1>18. ASSUME NEW r \in Req, NEW io \in IO, Finish(r, io) PROVE LockInv'
  BY <1>18 DEF Finish, IO, Spend
<1>19. ASSUME KillOwner PROVE LockInv'
  BY <1>19 DEF KillOwner, Spend
<1>20. ASSUME NEW o \in Plan \cup Req, Accept(o) PROVE LockInv'
  BY <1>20 DEF Accept, LockFree
<1>21. ASSUME NEW c \in View, ChangeHere(c) PROVE LockInv'
  BY <1>21 DEF ChangeHere
<1>22. ASSUME UNCHANGED vars PROVE LockInv'
  BY <1>22 DEF vars
<1> QED BY <1>1, <1>2, <1>3, <1>4, <1>5, <1>6, <1>7, <1>8, <1>9, <1>10, <1>11, <1>12, <1>13, <1>14, <1>15, <1>16, <1>17, <1>18, <1>19, <1>20, <1>21, <1>22 DEF Next, PlanStep, SessionStep, CommandStep, Others

LEMMA SingleStep ==
  ASSUME ~Overlap, TypeInv, SingleInv, [Next]_vars PROVE SingleInv'
<1> USE RemoteConstants DEF TypeInv, TypeOK, ReqInv, ReqOK, PlanInv, Known, Final, Locked, At, Goto, OpOf, EffectOf, sessions, owner, SingleInv, Attempt
<1>1. ASSUME NEW p \in Plan, Preview(p) PROVE SingleInv'
  BY <1>1 DEF Preview
<1>2. ASSUME NEW p \in Plan, NEW io \in IO, StorePlan(p, io) PROVE SingleInv'
  BY <1>2 DEF StorePlan, IO, Spend
<1>3. ASSUME NEW p \in Plan, NEW io \in IO, JournalPlan(p, io) PROVE SingleInv'
  BY <1>3 DEF JournalPlan, IO, Spend
<1>4. ASSUME NEW p \in Plan, Expire(p) PROVE SingleInv'
  BY <1>4 DEF Expire
<1>5. ASSUME NEW r \in Req, NEW w \in Plan \cup {Direct}, NEW k \in Key, Send(r, w, k) PROVE SingleInv'
  BY <1>5 DEF Send, Busy
<1>6. ASSUME NEW r \in Req, Lookup(r) PROVE SingleInv'
  BY <1>6 DEF Lookup
<1>7. ASSUME NEW r \in Req, GetPlan(r) PROVE SingleInv'
  BY <1>7 DEF GetPlan
<1>8. ASSUME NEW r \in Req, Refresh(r) PROVE SingleInv'
  BY <1>8 DEF Refresh
<1>9. ASSUME NEW r \in Req, ReadRecord(r) PROVE SingleInv'
  BY <1>9 DEF ReadRecord
<1>10. ASSUME NEW r \in Req, NEW io \in IO, Annotate(r, io) PROVE SingleInv'
  BY <1>10 DEF Annotate, IO, Spend
<1>11. ASSUME NEW r \in Req, Call(r) PROVE SingleInv'
  BY <1>11 DEF Call
<1>12. ASSUME NEW r \in Req, Receive(r) PROVE SingleInv'
  BY <1>12 DEF Receive
<1>13. ASSUME NEW r \in Req, NEW io \in IO, Record(r, io) PROVE SingleInv'
  BY <1>13 DEF Record, IO, Spend
<1>14. ASSUME NEW r \in Req, GiveUp(r) PROVE SingleInv'
  BY <1>14 DEF GiveUp
<1>15. ASSUME NEW r \in Req, NEW io \in IO, Begin(r, io) PROVE SingleInv'
  BY <1>15 DEF Begin, LockFree, Blocked, IO, Spend
<1>16. ASSUME NEW r \in Req, Reject(r) PROVE SingleInv'
  BY <1>16 DEF Reject
<1>17. ASSUME NEW r \in Req, NEW io \in IO, Dispatch(r, io) PROVE SingleInv'
  BY <1>17 DEF Dispatch, IO, Spend
<1>18. ASSUME NEW r \in Req, NEW io \in IO, Finish(r, io) PROVE SingleInv'
  BY <1>18 DEF Finish, IO, Spend
<1>19. ASSUME KillOwner PROVE SingleInv'
  BY <1>19 DEF KillOwner, Spend
<1>20. ASSUME NEW o \in Plan \cup Req, Accept(o) PROVE SingleInv'
  BY <1>20 DEF Accept, LockFree
<1>21. ASSUME NEW c \in View, ChangeHere(c) PROVE SingleInv'
  BY <1>21 DEF ChangeHere
<1>22. ASSUME UNCHANGED vars PROVE SingleInv'
  BY <1>22 DEF vars
<1> QED BY <1>1, <1>2, <1>3, <1>4, <1>5, <1>6, <1>7, <1>8, <1>9, <1>10, <1>11, <1>12, <1>13, <1>14, <1>15, <1>16, <1>17, <1>18, <1>19, <1>20, <1>21, <1>22 DEF Next, PlanStep, SessionStep, CommandStep, Others

-----------------------------------------------------------------------------
(* A record leaves Planned before the plan takes effect, and does not come back *)

LEMMA RecordStep ==
  ASSUME TypeInv, OnceInv, [Next]_vars PROVE (\A q \in Plan : RecordOf(q))' /\ (\A s \in Req : AttemptOK(s))'
<1> USE RemoteConstants DEF TypeInv, TypeOK, ReqInv, ReqOK, PlanInv, Known, Final, Locked, At, Goto, OpOf, EffectOf, sessions, owner, OnceInv, SingleInv, Attempt, RecordOf, AttemptOK
<1>1. ASSUME NEW p \in Plan, Preview(p) PROVE (\A q \in Plan : RecordOf(q))' /\ (\A s \in Req : AttemptOK(s))'
  BY <1>1 DEF Preview
<1>2. ASSUME NEW p \in Plan, NEW io \in IO, StorePlan(p, io) PROVE (\A q \in Plan : RecordOf(q))' /\ (\A s \in Req : AttemptOK(s))'
  BY <1>2 DEF StorePlan, IO, Spend
<1>3. ASSUME NEW p \in Plan, NEW io \in IO, JournalPlan(p, io) PROVE (\A q \in Plan : RecordOf(q))' /\ (\A s \in Req : AttemptOK(s))'
  BY <1>3 DEF JournalPlan, IO, Spend
<1>4. ASSUME NEW p \in Plan, Expire(p) PROVE (\A q \in Plan : RecordOf(q))' /\ (\A s \in Req : AttemptOK(s))'
  BY <1>4 DEF Expire
<1>5. ASSUME NEW r \in Req, NEW w \in Plan \cup {Direct}, NEW k \in Key, Send(r, w, k) PROVE (\A q \in Plan : RecordOf(q))' /\ (\A s \in Req : AttemptOK(s))'
  BY <1>5 DEF Send, Busy
<1>6. ASSUME NEW r \in Req, Lookup(r) PROVE (\A q \in Plan : RecordOf(q))' /\ (\A s \in Req : AttemptOK(s))'
  BY <1>6 DEF Lookup
<1>7. ASSUME NEW r \in Req, GetPlan(r) PROVE (\A q \in Plan : RecordOf(q))' /\ (\A s \in Req : AttemptOK(s))'
  BY <1>7 DEF GetPlan
<1>8. ASSUME NEW r \in Req, Refresh(r) PROVE (\A q \in Plan : RecordOf(q))' /\ (\A s \in Req : AttemptOK(s))'
  BY <1>8 DEF Refresh
<1>9. ASSUME NEW r \in Req, ReadRecord(r) PROVE (\A q \in Plan : RecordOf(q))' /\ (\A s \in Req : AttemptOK(s))'
  BY <1>9 DEF ReadRecord
<1>10. ASSUME NEW r \in Req, NEW io \in IO, Annotate(r, io) PROVE (\A q \in Plan : RecordOf(q))' /\ (\A s \in Req : AttemptOK(s))'
  BY <1>10 DEF Annotate, IO, Spend
<1>11. ASSUME NEW r \in Req, Call(r) PROVE (\A q \in Plan : RecordOf(q))' /\ (\A s \in Req : AttemptOK(s))'
  BY <1>11 DEF Call
<1>12. ASSUME NEW r \in Req, Receive(r) PROVE (\A q \in Plan : RecordOf(q))' /\ (\A s \in Req : AttemptOK(s))'
  BY <1>12 DEF Receive
<1>13. ASSUME NEW r \in Req, NEW io \in IO, Record(r, io) PROVE (\A q \in Plan : RecordOf(q))' /\ (\A s \in Req : AttemptOK(s))'
  BY <1>13 DEF Record, IO, Spend
<1>14. ASSUME NEW r \in Req, GiveUp(r) PROVE (\A q \in Plan : RecordOf(q))' /\ (\A s \in Req : AttemptOK(s))'
  BY <1>14 DEF GiveUp
<1>15. ASSUME NEW r \in Req, NEW io \in IO, Begin(r, io) PROVE (\A q \in Plan : RecordOf(q))' /\ (\A s \in Req : AttemptOK(s))'
  BY <1>15 DEF Begin, LockFree, Blocked, IO, Spend
<1>16. ASSUME NEW r \in Req, Reject(r) PROVE (\A q \in Plan : RecordOf(q))' /\ (\A s \in Req : AttemptOK(s))'
  BY <1>16 DEF Reject
<1>17. ASSUME NEW r \in Req, NEW io \in IO, Dispatch(r, io) PROVE (\A q \in Plan : RecordOf(q))' /\ (\A s \in Req : AttemptOK(s))'
  BY <1>17 DEF Dispatch, IO, Spend
<1>18. ASSUME NEW r \in Req, NEW io \in IO, Finish(r, io) PROVE (\A q \in Plan : RecordOf(q))' /\ (\A s \in Req : AttemptOK(s))'
  BY <1>18 DEF Finish, IO, Spend
<1>19. ASSUME KillOwner PROVE (\A q \in Plan : RecordOf(q))' /\ (\A s \in Req : AttemptOK(s))'
  BY <1>19 DEF KillOwner, Spend
<1>20. ASSUME NEW o \in Plan \cup Req, Accept(o) PROVE (\A q \in Plan : RecordOf(q))' /\ (\A s \in Req : AttemptOK(s))'
  BY <1>20 DEF Accept, LockFree
<1>21. ASSUME NEW c \in View, ChangeHere(c) PROVE (\A q \in Plan : RecordOf(q))' /\ (\A s \in Req : AttemptOK(s))'
  BY <1>21 DEF ChangeHere
<1>22. ASSUME UNCHANGED vars PROVE (\A q \in Plan : RecordOf(q))' /\ (\A s \in Req : AttemptOK(s))'
  BY <1>22 DEF vars
<1> QED BY <1>1, <1>2, <1>3, <1>4, <1>5, <1>6, <1>7, <1>8, <1>9, <1>10, <1>11, <1>12, <1>13, <1>14, <1>15, <1>16, <1>17, <1>18, <1>19, <1>20, <1>21, <1>22 DEF Next, PlanStep, SessionStep, CommandStep, Others

-----------------------------------------------------------------------------
(* What an owner that died left open *)

LEMMA OpenStep ==
  ASSUME TypeInv, LockInv, OnceInv, OpenInv, [Next]_vars PROVE OpenInv'
<1> USE RemoteConstants DEF TypeInv, TypeOK, ReqInv, ReqOK, PlanInv, Known, Final, Locked, At, Goto, OpOf, EffectOf, sessions, owner, LockInv, OnceInv, AttemptOK, RecordOf, OpenInv, InterruptedBlocks
<1>1. ASSUME NEW p \in Plan, Preview(p) PROVE OpenInv'
  BY <1>1 DEF Preview
<1>2. ASSUME NEW p \in Plan, NEW io \in IO, StorePlan(p, io) PROVE OpenInv'
  BY <1>2 DEF StorePlan, IO, Spend
<1>3. ASSUME NEW p \in Plan, NEW io \in IO, JournalPlan(p, io) PROVE OpenInv'
  BY <1>3 DEF JournalPlan, IO, Spend
<1>4. ASSUME NEW p \in Plan, Expire(p) PROVE OpenInv'
  BY <1>4 DEF Expire
<1>5. ASSUME NEW r \in Req, NEW w \in Plan \cup {Direct}, NEW k \in Key, Send(r, w, k) PROVE OpenInv'
  BY <1>5 DEF Send, Busy
<1>6. ASSUME NEW r \in Req, Lookup(r) PROVE OpenInv'
  BY <1>6 DEF Lookup
<1>7. ASSUME NEW r \in Req, GetPlan(r) PROVE OpenInv'
  BY <1>7 DEF GetPlan
<1>8. ASSUME NEW r \in Req, Refresh(r) PROVE OpenInv'
  BY <1>8 DEF Refresh
<1>9. ASSUME NEW r \in Req, ReadRecord(r) PROVE OpenInv'
  BY <1>9 DEF ReadRecord
<1>10. ASSUME NEW r \in Req, NEW io \in IO, Annotate(r, io) PROVE OpenInv'
  BY <1>10 DEF Annotate, IO, Spend
<1>11. ASSUME NEW r \in Req, Call(r) PROVE OpenInv'
  BY <1>11 DEF Call
<1>12. ASSUME NEW r \in Req, Receive(r) PROVE OpenInv'
  BY <1>12 DEF Receive
<1>13. ASSUME NEW r \in Req, NEW io \in IO, Record(r, io) PROVE OpenInv'
  BY <1>13 DEF Record, IO, Spend
<1>14. ASSUME NEW r \in Req, GiveUp(r) PROVE OpenInv'
  BY <1>14 DEF GiveUp
<1>15. ASSUME NEW r \in Req, NEW io \in IO, Begin(r, io) PROVE OpenInv'
  BY <1>15 DEF Begin, LockFree, Blocked, IO, Spend
<1>16. ASSUME NEW r \in Req, Reject(r) PROVE OpenInv'
  BY <1>16 DEF Reject
<1>17. ASSUME NEW r \in Req, NEW io \in IO, Dispatch(r, io) PROVE OpenInv'
  BY <1>17 DEF Dispatch, IO, Spend
<1>18. ASSUME NEW r \in Req, NEW io \in IO, Finish(r, io) PROVE OpenInv'
  BY <1>18 DEF Finish, IO, Spend
<1>19. ASSUME KillOwner PROVE OpenInv'
  BY <1>19 DEF KillOwner, Spend
<1>20. ASSUME NEW o \in Plan \cup Req, Accept(o) PROVE OpenInv'
  BY <1>20 DEF Accept, LockFree
<1>21. ASSUME NEW c \in View, ChangeHere(c) PROVE OpenInv'
  BY <1>21 DEF ChangeHere
<1>22. ASSUME UNCHANGED vars PROVE OpenInv'
  BY <1>22 DEF vars
<1> QED BY <1>1, <1>2, <1>3, <1>4, <1>5, <1>6, <1>7, <1>8, <1>9, <1>10, <1>11, <1>12, <1>13, <1>14, <1>15, <1>16, <1>17, <1>18, <1>19, <1>20, <1>21, <1>22 DEF Next, PlanStep, SessionStep, CommandStep, Others

-----------------------------------------------------------------------------
(* Together, while no plan is sent again before its last attempt has ended *)

IInv == TypeInv /\ LockInv /\ OnceInv /\ OpenInv

LEMMA IInvInit == Init => IInv
<1> SUFFICES ASSUME Init PROVE IInv
  OBVIOUS
<1>1. TypeInv
  BY TypeInit
<1>2. LockInv
  BY DEF Init, LockInv, Locked
<1>3. OnceInv
  BY RemoteConstants DEF Init, OnceInv, SingleInv, Attempt, RecordOf, AttemptOK, Final, Locked
<1>4. OpenInv
  BY DEF Init, OpenInv, InterruptedBlocks
<1> QED BY <1>1, <1>2, <1>3, <1>4 DEF IInv

LEMMA IInvStep ==
  ASSUME ~Overlap, IInv, [Next]_vars PROVE IInv'
<1>1. TypeInv' /\ LockInv'
  BY TypeStep, LockStep DEF IInv
<1>2. OnceInv'
  BY SingleStep, RecordStep DEF IInv, OnceInv
<1>3. OpenInv'
  BY OpenStep DEF IInv
<1> QED BY <1>1, <1>2, <1>3 DEF IInv

LEMMA IInvAlways ==
  ASSUME ~Overlap PROVE Spec => []IInv
BY IInvInit, IInvStep, PTL DEF Spec

\* A plan takes effect at most once, with whatever keys it is sent again, whoever dies
\* on the way and whatever a person accepts (prepare, complete, recover_operation).
THEOREM NeverTwice ==
  ASSUME ~Overlap PROVE Spec => []AppliedOnce
<1>1. IInv => AppliedOnce
  BY DEF IInv, OnceInv, RecordOf, AppliedOnce
<1> QED BY <1>1, IInvAlways, PTL

\* Nothing changes over an operation that was interrupted and that nobody has accepted
\* (blocking_operations in execute_with_application).
THEOREM InterruptedAlwaysBlocks ==
  ASSUME ~Overlap PROVE Spec => []InterruptedBlocks
<1>1. IInv => InterruptedBlocks
  BY DEF IInv, OpenInv
<1> QED BY <1>1, IInvAlways, PTL

\* A plan takes effect at most once and exactly when it is said to, for any number of
\* sessions, keys and retries (prepare, complete, cached_remote_mutation).
THEOREM AlwaysOnceAndTruly ==
  ASSUME ~Overlap PROVE Spec => []AppliedOnceAndTruly
BY NeverTwice, AppliedAlwaysTrue, PTL DEF AppliedOnceAndTruly

=============================================================================
