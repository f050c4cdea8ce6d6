------------------------- MODULE StreamTalesProofs --------------------------
(* Theorems about the converters and the types of StreamConversion, for any routes and    *)
(* bounds; and what the events of an answer tell whoever reads them, for each converter.  *)
EXTENDS StreamConversion, SequenceTheorems, TLAPS

-----------------------------------------------------------------------------
(* Usage *)

Plain == [UsageField -> Nat]
Said(usage) == [f \in UsageField |-> Count(usage[f])]

LEMMA CountIsNat ==
  ASSUME NEW u \in Usage
  PROVE  /\ \A f \in UsageField : Count(u[f]) \in Nat
         /\ Cached(u) \in Nat
<1>1. \A f \in UsageField : Count(u[f]) \in Nat
  BY DEF Usage, Count
<1>2. "read" \in UsageField /\ "write" \in UsageField
  BY DEF UsageField
<1> QED BY <1>1, <1>2 DEF Cached

\* Neither convention ever counts below zero, whatever an upstream reports: what was read
\* from the cache may exceed the prompt (chat_usage_to_messages, responses_usage_to_messages,
\* messages_usage_to_chat, messages_usage_to_responses).
THEOREM UsageIsNatural ==
  ASSUME None \notin Nat, NEW u \in Usage
  PROVE  Exclusive(u) \in Plain /\ Totals(u) \in Plain
<1>1. \A f \in UsageField : Count(u[f]) \in Nat
  BY CountIsNat
<1>2. Cached(u) \in Nat
  BY CountIsNat
<1>3. Exclusive(u) \in Plain
  BY <1>1, <1>2 DEF Exclusive, Plain
<1>4. Totals(u) \in Plain
  BY <1>1, <1>2 DEF Totals, Plain
<1> QED BY <1>3, <1>4

LEMMA PlainCounts ==
  ASSUME None \notin Nat, NEW u \in Plain
  PROVE  u \in Usage /\ \A f \in UsageField : Count(u[f]) = u[f] /\ u[f] \in Nat
BY DEF Plain, Usage, Count

\* Usage that goes out of messages and comes back is what it was: a conversation relayed
\* through two gateways is billed as through one (messages_usage_to_chat, then
\* chat_usage_to_messages).
THEOREM UsageComesBack ==
  ASSUME None \notin Nat, NEW u \in Usage
  PROVE  Exclusive(Totals(u)) = Said(u)
<1> DEFINE t == Totals(u)
<1>1. \A f \in UsageField : Count(u[f]) \in Nat
  BY CountIsNat
<1>2. Cached(u) \in Nat
  BY CountIsNat
<1>3. t \in Plain
  BY UsageIsNatural
<1>4. \A f \in UsageField : Count(t[f]) = t[f]
  BY <1>3, PlainCounts
<1>5. /\ "prompt" \in UsageField /\ "read" \in UsageField /\ "write" \in UsageField
      /\ "read" # "prompt" /\ "write" # "prompt"
  BY DEF UsageField
<1>6. \A f \in UsageField : f # "prompt" => t[f] = Count(u[f])
  BY DEF Totals
<1>7. t["prompt"] = Count(u["prompt"]) + Cached(u)
  BY <1>5 DEF Totals
<1>8. Cached(t) = Cached(u)
  BY <1>4, <1>5, <1>6 DEF Cached
<1>9. \A f \in UsageField : Exclusive(t)[f] = Count(u[f])
  <2> SUFFICES ASSUME NEW f \in UsageField PROVE Exclusive(t)[f] = Count(u[f])
    OBVIOUS
  <2>1. CASE f # "prompt"
    BY <2>1, <1>4, <1>6 DEF Exclusive
  <2>2. CASE f = "prompt"
    <3>1. Count(t[f]) = Count(u[f]) + Cached(t)
      BY <2>2, <1>4, <1>7, <1>8
    <3>2. Count(u[f]) \in Nat /\ Cached(t) \in Nat
      BY <1>1, <1>2, <1>8
    <3>3. Exclusive(t)[f] = IF Count(t[f]) >= Cached(t) THEN Count(t[f]) - Cached(t) ELSE 0
      BY <2>2 DEF Exclusive
    <3> QED BY <3>1, <3>2, <3>3
  <2> QED BY <2>1, <2>2
<1>10. Exclusive(t) = [f \in UsageField |-> Exclusive(t)[f]]
  BY DEF Exclusive
<1> QED BY <1>9, <1>10 DEF Said

\* The other way round nothing is lost either, as long as the upstream's prompt counts in
\* what was cached of it, which is what its dialect says it does (chat_usage_to_messages, then
\* messages_usage_to_chat).
THEOREM UsageGoesThrough ==
  ASSUME None \notin Nat, NEW u \in Usage, Cached(u) <= Count(u["prompt"])
  PROVE  Totals(Exclusive(u)) = Said(u)
<1> DEFINE t == Exclusive(u)
<1>1. \A f \in UsageField : Count(u[f]) \in Nat
  BY CountIsNat
<1>2. Cached(u) \in Nat
  BY CountIsNat
<1>3. t \in Plain
  BY UsageIsNatural
<1>4. \A f \in UsageField : Count(t[f]) = t[f]
  BY <1>3, PlainCounts
<1>5. /\ "prompt" \in UsageField /\ "read" \in UsageField /\ "write" \in UsageField
      /\ "read" # "prompt" /\ "write" # "prompt"
  BY DEF UsageField
<1>6. \A f \in UsageField : f # "prompt" => t[f] = Count(u[f])
  BY DEF Exclusive
<1>7. t["prompt"] = Count(u["prompt"]) - Cached(u)
  <2>1. t["prompt"] = IF Count(u["prompt"]) >= Cached(u) THEN Count(u["prompt"]) - Cached(u) ELSE 0
    BY <1>5 DEF Exclusive
  <2> QED BY <2>1, <1>1, <1>2, <1>5
<1>8. Cached(t) = Cached(u)
  BY <1>4, <1>5, <1>6 DEF Cached
<1>9. \A f \in UsageField : Totals(t)[f] = Count(u[f])
  <2> SUFFICES ASSUME NEW f \in UsageField PROVE Totals(t)[f] = Count(u[f])
    OBVIOUS
  <2>1. CASE f # "prompt"
    BY <2>1, <1>4, <1>6 DEF Totals
  <2>2. CASE f = "prompt"
    <3>1. Count(t[f]) = Count(u[f]) - Cached(t)
      BY <2>2, <1>4, <1>7, <1>8
    <3>2. Count(u[f]) \in Nat /\ Cached(t) \in Nat
      BY <1>1, <1>2, <1>8
    <3>3. Totals(t)[f] = Count(t[f]) + Cached(t)
      BY <2>2 DEF Totals
    <3> QED BY <3>1, <3>2, <3>3
  <2> QED BY <2>1, <2>2
<1>10. Totals(t) = [f \in UsageField |-> Totals(t)[f]]
  BY DEF Totals
<1> QED BY <1>9, <1>10 DEF Said

-----------------------------------------------------------------------------
(* Types *)

\* What is said of an event beyond its fields: it begins a block of some kind, or goes on
\* with one; and it is not the mark for the transport.
Proper(ev) ==
  /\ ev.e # "Done"
  /\ ev.e \in {"content_block_start", "response.output_item.added"} => ev.kind \in BlockKind
  /\ ev.e \in {"content_block_delta", "response.delta"} =>
       ev.kind \in BlockKind \cup {"signature"}
  /\ ev.e \in {"[DONE]", "message_stop", "response.completed", "error", "response.failed"} =>
       ev.kind = "none"
Msg == {ev \in Event : Proper(ev)}
Frame == Msg \cup {Done}

LEMMA TuplesAreSeqs ==
  ASSUME NEW S
  PROVE  /\ <<>> \in Seq(S)
         /\ \A a \in S : <<a>> \in Seq(S)
         /\ \A a, b \in S : <<a, b>> \in Seq(S)
         /\ \A a, b, c \in S : <<a, b, c>> \in Seq(S)
OBVIOUS

LEMMA ConcatIsSeq ==
  ASSUME NEW S, NEW s \in Seq(S), NEW t \in Seq(S)
  PROVE  s \o t \in Seq(S)
OBVIOUS

LEMMA NoUsageIsUsage == NoUsage \in Usage /\ ZeroUsage \in Usage
BY DEF NoUsage, ZeroUsage, Usage

LEMMA BareIsEvent ==
  \A e \in EventName : Bare(e) \in Event /\ Bare(e).e = e /\ Bare(e).kind = "none"
<1>1. <<>> \in Seq(Item)
  BY TuplesAreSeqs
<1> QED BY <1>1, NoUsageIsUsage DEF Bare, Event, EventKind, Reason

LEMMA BareIsMsg ==
  \A e \in EventName \ {"Done", "content_block_start", "response.output_item.added",
                       "content_block_delta", "response.delta"} :
    Bare(e) \in Msg /\ Bare(e).e = e
BY BareIsEvent DEF Msg, Proper

\* Every constructor yields a message of its name.
LEMMA Messages ==
  ASSUME NEW i \in Nat, NEW id \in Nat, NEW frag \in Nat, NEW kind \in BlockKind,
         NEW usage \in Usage, NEW why \in Reason
  PROVE  /\ MessageStart(usage) \in Msg /\ MessageStart(usage).e = "message_start"
         /\ BlockStart(i, kind, id) \in Msg /\ BlockStart(i, kind, id).e = "content_block_start"
         /\ BlockDelta(i, kind, frag) \in Msg /\ BlockDelta(i, kind, frag).e = "content_block_delta"
         /\ BlockDelta(i, "signature", 0) \in Msg
         /\ BlockDelta(i, "signature", 0).e = "content_block_delta"
         /\ BlockStop(i) \in Msg /\ BlockStop(i).e = "content_block_stop"
         /\ MessageDelta(why, usage) \in Msg /\ MessageDelta(why, usage).e = "message_delta"
         /\ MessageStop \in Msg /\ MessageStop.e = "message_stop"
<1>0. kind \in EventKind /\ "signature" \in EventKind
  BY DEF EventKind
<1>1. MessageStart(usage) \in Msg /\ MessageStart(usage).e = "message_start"
  <2> DEFINE b == Bare("message_start")
  <2>1. b \in Event /\ b.e = "message_start"
    BY BareIsEvent DEF EventName
  <2> HIDE DEF b
  <2>2. LET n == [b EXCEPT !.usage = usage] IN n \in Msg /\ n.e = "message_start"
    BY <2>1, <1>0 DEF Msg, Proper, Event, BlockKind
  <2> QED BY <2>2 DEF MessageStart, b
<1>2. BlockStart(i, kind, id) \in Msg /\ BlockStart(i, kind, id).e = "content_block_start"
  <2> DEFINE b == Bare("content_block_start")
  <2>1. b \in Event /\ b.e = "content_block_start"
    BY BareIsEvent DEF EventName
  <2> HIDE DEF b
  <2>2. LET n == [b EXCEPT !.i = i, !.kind = kind, !.id = id] IN n \in Msg /\ n.e = "content_block_start"
    BY <2>1, <1>0 DEF Msg, Proper, Event, BlockKind
  <2> QED BY <2>2 DEF BlockStart, b
<1>3. BlockDelta(i, kind, frag) \in Msg /\ BlockDelta(i, kind, frag).e = "content_block_delta"
  <2> DEFINE b == Bare("content_block_delta")
  <2>1. b \in Event /\ b.e = "content_block_delta"
    BY BareIsEvent DEF EventName
  <2> HIDE DEF b
  <2>2. LET n == [b EXCEPT !.i = i, !.kind = kind, !.frag = frag] IN n \in Msg /\ n.e = "content_block_delta"
    BY <2>1, <1>0 DEF Msg, Proper, Event, BlockKind
  <2> QED BY <2>2 DEF BlockDelta, b
<1>4. BlockDelta(i, "signature", 0) \in Msg /\ BlockDelta(i, "signature", 0).e = "content_block_delta"
  <2> DEFINE b == Bare("content_block_delta")
  <2>1. b \in Event /\ b.e = "content_block_delta"
    BY BareIsEvent DEF EventName
  <2> HIDE DEF b
  <2>2. LET n == [b EXCEPT !.i = i, !.kind = "signature", !.frag = 0] IN n \in Msg /\ n.e = "content_block_delta"
    BY <2>1, <1>0 DEF Msg, Proper, Event, BlockKind
  <2> QED BY <2>2 DEF BlockDelta, b
<1>5. BlockStop(i) \in Msg /\ BlockStop(i).e = "content_block_stop"
  <2> DEFINE b == Bare("content_block_stop")
  <2>1. b \in Event /\ b.e = "content_block_stop"
    BY BareIsEvent DEF EventName
  <2> HIDE DEF b
  <2>2. LET n == [b EXCEPT !.i = i] IN n \in Msg /\ n.e = "content_block_stop"
    BY <2>1, <1>0 DEF Msg, Proper, Event, BlockKind
  <2> QED BY <2>2 DEF BlockStop, b
<1>6. MessageDelta(why, usage) \in Msg /\ MessageDelta(why, usage).e = "message_delta"
  <2> DEFINE b == Bare("message_delta")
  <2>1. b \in Event /\ b.e = "message_delta"
    BY BareIsEvent DEF EventName
  <2> HIDE DEF b
  <2>2. LET n == [b EXCEPT !.why = why, !.usage = usage] IN n \in Msg /\ n.e = "message_delta"
    BY <2>1, <1>0 DEF Msg, Proper, Event, BlockKind
  <2> QED BY <2>2 DEF MessageDelta, b
<1>7. MessageStop \in Msg /\ MessageStop.e = "message_stop"
  BY BareIsMsg DEF EventName, MessageStop
<1> QED BY <1>1, <1>2, <1>3, <1>4, <1>5, <1>6, <1>7

LEMMA ChunkIsMsg ==
  ASSUME NEW kind \in EventKind
  PROVE  Chunk(kind) \in Msg /\ Chunk(kind).e = "chunk" /\ Chunk(kind).kind = kind
<1> DEFINE b == Bare("chunk")
<1>1. b \in Event /\ b.e = "chunk"
  BY BareIsEvent DEF EventName
<1> HIDE DEF b
<1>2. LET n == [b EXCEPT !.kind = kind] IN n \in Msg /\ n.e = "chunk" /\ n.kind = kind
  BY <1>1 DEF Msg, Proper, Event
<1> QED BY <1>2 DEF Chunk, b

LEMMA Chunks ==
  ASSUME NEW i \in Nat, NEW id \in Nat, NEW frag \in Nat, NEW kind \in EventKind,
         NEW usage \in Usage, NEW why \in Reason
  PROVE  /\ TextChunk(kind, frag) \in Msg /\ TextChunk(kind, frag).e = "chunk"
         /\ ToolChunk(i, id, frag) \in Msg /\ ToolChunk(i, id, frag).e = "chunk"
         /\ FinishChunk(why) \in Msg /\ FinishChunk(why).e = "chunk"
         /\ UsageChunk(usage) \in Msg /\ UsageChunk(usage).e = "chunk"
         /\ ChatDone \in Msg /\ ChatDone.e = "[DONE]"
<1>0. "tool" \in EventKind /\ "finish" \in EventKind /\ "usage" \in EventKind
  BY DEF EventKind, BlockKind
<1>1. TextChunk(kind, frag) \in Msg /\ TextChunk(kind, frag).e = "chunk"
  <2> DEFINE c == Chunk(kind)
  <2>1. c \in Msg /\ c.e = "chunk"
    BY <1>0, ChunkIsMsg
  <2> HIDE DEF c
  <2>2. LET n == [c EXCEPT !.frag = frag] IN n \in Msg /\ n.e = "chunk"
    BY <2>1 DEF Msg, Proper, Event
  <2> QED BY <2>2 DEF TextChunk, c
<1>2. ToolChunk(i, id, frag) \in Msg /\ ToolChunk(i, id, frag).e = "chunk"
  <2> DEFINE c == Chunk("tool")
  <2>1. c \in Msg /\ c.e = "chunk"
    BY <1>0, ChunkIsMsg
  <2> HIDE DEF c
  <2>2. LET n == [c EXCEPT !.i = i, !.id = id, !.frag = frag] IN n \in Msg /\ n.e = "chunk"
    BY <2>1 DEF Msg, Proper, Event
  <2> QED BY <2>2 DEF ToolChunk, c
<1>3. FinishChunk(why) \in Msg /\ FinishChunk(why).e = "chunk"
  <2> DEFINE c == Chunk("finish")
  <2>1. c \in Msg /\ c.e = "chunk"
    BY <1>0, ChunkIsMsg
  <2> HIDE DEF c
  <2>2. LET n == [c EXCEPT !.why = why] IN n \in Msg /\ n.e = "chunk"
    BY <2>1 DEF Msg, Proper, Event
  <2> QED BY <2>2 DEF FinishChunk, c
<1>4. UsageChunk(usage) \in Msg /\ UsageChunk(usage).e = "chunk"
  <2> DEFINE c == Chunk("usage")
  <2>1. c \in Msg /\ c.e = "chunk"
    BY <1>0, ChunkIsMsg
  <2> HIDE DEF c
  <2>2. LET n == [c EXCEPT !.usage = usage] IN n \in Msg /\ n.e = "chunk"
    BY <2>1 DEF Msg, Proper, Event
  <2> QED BY <2>2 DEF UsageChunk, c
<1>5. ChatDone \in Msg /\ ChatDone.e = "[DONE]"
  BY BareIsMsg DEF EventName, ChatDone
<1> QED BY <1>1, <1>2, <1>3, <1>4, <1>5

LEMMA Items ==
  ASSUME NEW i \in Nat, NEW id \in Nat, NEW frag \in Nat, NEW kind \in BlockKind,
         NEW usage \in Usage, NEW items \in Seq(Item), NEW signed \in BOOLEAN
  PROVE  /\ Added(i, kind, id) \in Msg /\ Added(i, kind, id).e = "response.output_item.added"
         /\ ItemDelta(i, kind, frag) \in Msg /\ ItemDelta(i, kind, frag).e = "response.delta"
         /\ PartDone(i, kind) \in Msg /\ PartDone(i, kind).e = "response.done"
         /\ ItemDone(i, kind, id, signed) \in Msg
         /\ ItemDone(i, kind, id, signed).e = "response.output_item.done"
         /\ Completed(items, usage) \in Msg /\ Completed(items, usage).e = "response.completed"
<1>0. kind \in EventKind
  BY DEF EventKind
<1>1. Added(i, kind, id) \in Msg /\ Added(i, kind, id).e = "response.output_item.added"
  <2> DEFINE b == Bare("response.output_item.added")
  <2>1. b \in Event /\ b.e = "response.output_item.added" /\ b.kind = "none"
    BY BareIsEvent DEF EventName
  <2> HIDE DEF b
  <2>2. LET n == [b EXCEPT !.i = i, !.kind = kind, !.id = id] IN n \in Msg /\ n.e = "response.output_item.added"
    BY <2>1, <1>0 DEF Msg, Proper, Event, BlockKind
  <2> QED BY <2>2 DEF Added, b
<1>2. ItemDelta(i, kind, frag) \in Msg /\ ItemDelta(i, kind, frag).e = "response.delta"
  <2> DEFINE b == Bare("response.delta")
  <2>1. b \in Event /\ b.e = "response.delta" /\ b.kind = "none"
    BY BareIsEvent DEF EventName
  <2> HIDE DEF b
  <2>2. LET n == [b EXCEPT !.i = i, !.kind = kind, !.frag = frag] IN n \in Msg /\ n.e = "response.delta"
    BY <2>1, <1>0 DEF Msg, Proper, Event, BlockKind
  <2> QED BY <2>2 DEF ItemDelta, b
<1>3. PartDone(i, kind) \in Msg /\ PartDone(i, kind).e = "response.done"
  <2> DEFINE b == Bare("response.done")
  <2>1. b \in Event /\ b.e = "response.done" /\ b.kind = "none"
    BY BareIsEvent DEF EventName
  <2> HIDE DEF b
  <2>2. LET n == [b EXCEPT !.i = i, !.kind = kind] IN n \in Msg /\ n.e = "response.done"
    BY <2>1, <1>0 DEF Msg, Proper, Event, BlockKind
  <2> QED BY <2>2 DEF PartDone, b
<1>4. ItemDone(i, kind, id, signed) \in Msg /\ ItemDone(i, kind, id, signed).e = "response.output_item.done"
  <2> DEFINE b == Bare("response.output_item.done")
  <2>1. b \in Event /\ b.e = "response.output_item.done" /\ b.kind = "none"
    BY BareIsEvent DEF EventName
  <2> HIDE DEF b
  <2>2. LET n == [b EXCEPT !.i = i, !.kind = kind, !.id = id, !.signed = signed] IN n \in Msg /\ n.e = "response.output_item.done"
    BY <2>1, <1>0 DEF Msg, Proper, Event, BlockKind
  <2> QED BY <2>2 DEF ItemDone, b
<1>5. Completed(items, usage) \in Msg /\ Completed(items, usage).e = "response.completed"
  <2> DEFINE b == Bare("response.completed")
  <2>1. b \in Event /\ b.e = "response.completed" /\ b.kind = "none"
    BY BareIsEvent DEF EventName
  <2> HIDE DEF b
  <2>2. LET n == [b EXCEPT !.items = items, !.usage = usage] IN n \in Msg /\ n.e = "response.completed"
    BY <2>1, <1>0 DEF Msg, Proper, Event, BlockKind
  <2> QED BY <2>2 DEF Completed, b
<1> QED BY <1>1, <1>2, <1>3, <1>4, <1>5

-----------------------------------------------------------------------------
(* What a push yields, by what it is given: the end of an answer comes only *)
(* of an end, an error only of an error.                                    *)

EndName == {"[DONE]", "message_stop", "response.completed"}
ErrorName == {"error", "response.failed"}
Calm == {ev \in Msg : ev.e \notin EndName \cup ErrorName}
Ending == {ev \in Msg : ev.e \in EndName}
Failing == {ev \in Msg : ev.e \in ErrorName}
Stopping == {ev \in Ending : ev.e = "message_stop"}

TypedYield(y) == y.usage \in Usage /\ y.error \in BOOLEAN /\ y.capture \in Capture
Inwarded(y, ev) ==
  /\ y.st \in Inward /\ TypedYield(y) /\ y.out \in Seq(Msg)
  /\ ev \in Calm => y.out \in Seq(Calm) /\ ~y.error
  /\ ev \in Ending => y.out \in Seq(Calm \cup Stopping) /\ ~y.error
  /\ ev \in Failing => y.out \in Seq(Calm \cup Failing) /\ (y.error \/ y.out \in Seq(Calm))

LEMMA CapturesNothing == NoCapture \in Capture
BY TuplesAreSeqs DEF NoCapture, Capture

LEMMA CalmIsMsg ==
  ASSUME NEW out \in Seq(Calm)
  PROVE  /\ out \in Seq(Msg) /\ out \in Seq(Calm \cup Stopping) /\ out \in Seq(Calm \cup Failing)
         /\ \A more : out \in Seq(Calm \cup more)
<1>1. Calm \subseteq Msg
  BY DEF Calm
<1> QED BY <1>1, SeqMonotonic

LEMMA YieldIs ==
  ASSUME NEW st, NEW out
  PROVE  LET y == Yield(st, out)
         IN y.st = st /\ y.out = out /\ ~y.error /\ TypedYield(y) /\ y.usage = NoUsage
BY CapturesNothing, NoUsageIsUsage DEF Yield, TypedYield

LEMMA UsageYieldIs ==
  ASSUME NEW st, NEW out, NEW usage \in Usage
  PROVE  LET y == [Yield(st, out) EXCEPT !.usage = usage]
         IN y.st = st /\ y.out = out /\ ~y.error /\ TypedYield(y) /\ y.usage = usage
<1>1. LET y == [Yield(st, out) EXCEPT !.usage = usage]
      IN /\ y.st = st /\ y.out = out /\ y.usage = usage /\ y.error = FALSE
         /\ y.capture = NoCapture
  BY DEF Yield
<1> QED BY <1>1, CapturesNothing DEF TypedYield

\* The usual case: something calm, whatever the event was.
LEMMA CalmYield ==
  ASSUME NEW ev, NEW st \in Inward, NEW out \in Seq(Calm)
  PROVE  Inwarded(Yield(st, out), ev)
<1>1. out \in Seq(Msg) /\ out \in Seq(Calm \cup Stopping) /\ out \in Seq(Calm \cup Failing)
  BY CalmIsMsg
<1> QED BY <1>1, YieldIs DEF Inwarded

LEMMA CalmUsageYield ==
  ASSUME NEW ev, NEW st \in Inward, NEW out \in Seq(Calm), NEW usage \in Usage
  PROVE  Inwarded([Yield(st, out) EXCEPT !.usage = usage], ev)
<1>1. out \in Seq(Msg) /\ out \in Seq(Calm \cup Stopping) /\ out \in Seq(Calm \cup Failing)
  BY CalmIsMsg
<1> QED BY <1>1, UsageYieldIs DEF Inwarded

LEMMA BlocksAreCalm ==
  ASSUME NEW i \in Nat, NEW id \in Nat, NEW frag \in Nat, NEW kind \in BlockKind,
         NEW usage \in Usage, NEW why \in Reason
  PROVE  /\ MessageStart(usage) \in Calm /\ BlockStart(i, kind, id) \in Calm
         /\ BlockDelta(i, kind, frag) \in Calm /\ BlockDelta(i, "signature", 0) \in Calm
         /\ BlockStop(i) \in Calm /\ MessageDelta(why, usage) \in Calm
         /\ MessageStop \in Stopping
<1>1. /\ MessageStart(usage) \in Msg /\ MessageStart(usage).e = "message_start"
      /\ BlockStart(i, kind, id) \in Msg /\ BlockStart(i, kind, id).e = "content_block_start"
      /\ BlockDelta(i, kind, frag) \in Msg /\ BlockDelta(i, kind, frag).e = "content_block_delta"
      /\ BlockDelta(i, "signature", 0) \in Msg
      /\ BlockDelta(i, "signature", 0).e = "content_block_delta"
      /\ BlockStop(i) \in Msg /\ BlockStop(i).e = "content_block_stop"
      /\ MessageDelta(why, usage) \in Msg /\ MessageDelta(why, usage).e = "message_delta"
      /\ MessageStop \in Msg /\ MessageStop.e = "message_stop"
  BY Messages
<1> QED BY <1>1 DEF Calm, Ending, Stopping, EndName, ErrorName

LEMMA AnyDeltaIsCalm ==
  ASSUME NEW i \in Nat, NEW frag \in Nat, NEW kind \in BlockKind \cup {"signature"}
  PROVE  BlockDelta(i, kind, frag) \in Calm
<1> DEFINE b == Bare("content_block_delta")
<1>1. b \in Event /\ b.e = "content_block_delta"
  BY BareIsEvent DEF EventName
<1>2. kind \in EventKind
  BY DEF EventKind
<1> HIDE DEF b
<1>3. LET n == [b EXCEPT !.i = i, !.kind = kind, !.frag = frag]
      IN n \in Msg /\ n.e = "content_block_delta"
  BY <1>1, <1>2 DEF Msg, Proper, Event, BlockKind
<1> QED BY <1>3 DEF BlockDelta, b, Calm, EndName, ErrorName

LEMMA BareIsCalm ==
  Bare("ping") \in Calm /\ Bare("response.created") \in Calm /\ Bare("response.in_progress") \in Calm
BY BareIsMsg DEF Calm, EndName, ErrorName, EventName

LEMMA BareIsFailing == Bare("error") \in Failing /\ Bare("response.failed") \in Failing
BY BareIsMsg DEF Failing, ErrorName, EventName

LEMMA MergedUsage ==
  ASSUME NEW u \in Usage, NEW v \in Usage
  PROVE  MergeUsage(u, v) \in Usage
BY DEF MergeUsage, Usage

LEMMA InwardParts ==
  ASSUME NEW s \in Inward
  PROVE  /\ EnsureStarted(s) \in Seq(Calm) /\ CloseBlock(s) \in Seq(Calm) /\ NextIndex(s) \in Nat
         /\ \A block \in OpenBlock, id \in Nat :
              block.kind \in BlockKind =>
                Opened(s, block) \in Inward /\ EnsureBlock(s, block, id) \in Seq(Calm)
<1>1. s.index \in Nat /\ NextIndex(s) \in Nat
  BY DEF Inward, NextIndex
<1>2. EnsureStarted(s) \in Seq(Calm)
  <2>1. 0 \in Nat /\ "text" \in BlockKind /\ "none" \in Reason
    BY DEF BlockKind, Reason
  <2>2. MessageStart(ZeroUsage) \in Calm
    BY <2>1, BlocksAreCalm, NoUsageIsUsage
  <2> QED BY <2>2, TuplesAreSeqs DEF EnsureStarted
<1>3. CloseBlock(s) \in Seq(Calm)
  <2>1. 0 \in Nat /\ "text" \in BlockKind /\ "none" \in Reason
    BY DEF BlockKind, Reason
  <2>2. BlockStop(s.index) \in Calm
    BY <1>1, <2>1, BlocksAreCalm, NoUsageIsUsage
  <2> QED BY <2>2, TuplesAreSeqs DEF CloseBlock
<1>4. ASSUME NEW block \in OpenBlock, NEW id \in Nat, block.kind \in BlockKind
      PROVE  Opened(s, block) \in Inward /\ EnsureBlock(s, block, id) \in Seq(Calm)
  <2>1. Opened(s, block) \in Inward
    BY <1>1 DEF Opened, Inward
  <2>2. "none" \in Reason /\ 0 \in Nat
    BY DEF Reason
  <2>3. <<BlockStart(NextIndex(s), block.kind, id)>> \in Seq(Calm)
    BY <1>1, <1>4, <2>2, BlocksAreCalm, NoUsageIsUsage, TuplesAreSeqs
  <2>4. CloseBlock(s) \o <<BlockStart(NextIndex(s), block.kind, id)>> \in Seq(Calm)
    BY <1>3, <2>3, ConcatIsSeq
  <2>5. EnsureBlock(s, block, id) \in Seq(Calm)
    BY <2>4, TuplesAreSeqs DEF EnsureBlock
  <2> QED BY <2>1, <2>5
<1> QED BY <1>1, <1>2, <1>3, <1>4

LEMMA ExclusiveIsUsage ==
  ASSUME None \notin Nat, NEW u \in Usage
  PROVE  Exclusive(u) \in Usage /\ Totals(u) \in Usage
BY UsageIsNatural, PlainCounts

LEMMA ReasonsMap ==
  ASSUME NEW why \in Reason
  PROVE  FinishToStop(why) \in Reason /\ StopToFinish(why) \in Reason
BY DEF Reason, FinishToStop, StopToFinish

\* ChatToMessagesStream.
LEMMA ChatToMessagesYields ==
  ASSUME None \notin Nat, NEW s \in Inward, NEW ev \in Msg
  PROVE  Inwarded(ChatToMessages(s, ev), ev)
<1> DEFINE y == ChatToMessages(s, ev)
           begun == [s EXCEPT !.started = TRUE]
           start == EnsureStarted(s)
           block == [kind |-> ev.kind, i |-> ev.i]
           opened == Opened(begun, block)
           delta == IF ev.frag = 0 THEN <<>> ELSE <<BlockDelta(opened.index, ev.kind, ev.frag)>>
           why == IF s.why # "none" THEN s.why ELSE IF s.tool THEN "tool_use" ELSE "end_turn"
<1>1. begun \in Inward /\ start \in Seq(Calm) /\ why \in Reason
  BY InwardParts DEF Inward, Reason
<1>2. /\ ev.i \in Nat /\ ev.id \in Nat /\ ev.frag \in Nat /\ ev.kind \in EventKind
      /\ ev.usage \in Usage /\ ev.why \in Reason /\ ev \in Event
  BY DEF Msg, Event
<1>3. CASE ev.e = "error"
  <2>1. y = [Yield(s, <<ev>>) EXCEPT !.error = TRUE]
    BY <1>3 DEF ChatToMessages, Msg, Proper, BlockKind
  <2>2. y = [st |-> s, out |-> <<ev>>, usage |-> NoUsage, error |-> TRUE, capture |-> NoCapture]
    BY <2>1 DEF Yield
  <2>3. ev \in Failing /\ ev \notin Calm /\ ev \notin Ending
    BY <1>3 DEF Failing, Calm, Ending, EndName, ErrorName
  <2>4. <<ev>> \in Seq(Failing) /\ <<ev>> \in Seq(Msg) /\ <<ev>> \in Seq(Calm \cup Failing)
    BY <2>3, TuplesAreSeqs
  <2> QED BY <2>2, <2>3, <2>4, CapturesNothing, NoUsageIsUsage DEF Inwarded, TypedYield
<1>4. CASE ev.e = "[DONE]"
  <2> DEFINE st == [begun EXCEPT !.open = NoBlock, !.index = NextIndex(s)]
             usage == MergeUsage(ZeroUsage, s.usage)
             out == start \o CloseBlock(s) \o <<MessageDelta(why, usage), MessageStop>>
  <2>1. y = Yield(st, out)
    BY <1>4 DEF ChatToMessages, Msg, Proper, BlockKind
  <2>2. st \in Inward
    BY <1>1, InwardParts DEF Inward, NoBlock, OpenBlock
  <2>3. usage \in Usage
    BY NoUsageIsUsage, MergedUsage DEF Inward
  <2>4. MessageDelta(why, usage) \in Calm /\ MessageStop \in Stopping
    BY <1>1, <1>2, <2>3, BlocksAreCalm DEF BlockKind
  <2>5. <<MessageDelta(why, usage), MessageStop>> \in Seq(Calm \cup Stopping)
    BY <2>4, TuplesAreSeqs
  <2>6. start \o CloseBlock(s) \in Seq(Calm \cup Stopping)
    BY <1>1, InwardParts, ConcatIsSeq, CalmIsMsg
  <2> HIDE DEF st, usage, start
  <2>7. out \in Seq(Calm \cup Stopping)
    BY <2>5, <2>6, ConcatIsSeq
  <2>8. out \in Seq(Msg)
    <3>1. Calm \cup Stopping \subseteq Msg
      BY DEF Calm, Ending, Stopping
    <3> QED BY <2>7, <3>1, SeqMonotonic
  <2>9. ev \notin Calm /\ ev \notin Failing
    BY <1>4 DEF Calm, Failing, EndName, ErrorName
  <2> HIDE DEF out
  <2> QED BY <2>1, <2>2, <2>7, <2>8, <2>9, YieldIs DEF Inwarded
<1>5. CASE ev.e \notin {"error", "[DONE]"} /\ ev.kind \in BlockKind
  <2> DEFINE st == [opened EXCEPT !.tool = @ \/ ev.kind = "tool"]
             out == start \o EnsureBlock(begun, block, ev.id) \o delta
  <2>1. y = Yield(st, out)
    BY <1>5 DEF ChatToMessages, BlockKind
  <2>2. block \in OpenBlock /\ block.kind \in BlockKind
    BY <1>2, <1>5 DEF OpenBlock
  <2>3. opened \in Inward /\ EnsureBlock(begun, block, ev.id) \in Seq(Calm)
    BY <1>1, <1>2, <2>2, InwardParts
  <2>4. st \in Inward
    BY <2>3 DEF Inward
  <2>5. delta \in Seq(Calm)
    <3>1. opened.index \in Nat
      BY <2>3 DEF Inward
    <3>2. BlockDelta(opened.index, ev.kind, ev.frag) \in Calm
      BY <3>1, <1>2, <1>5, BlocksAreCalm
    <3> QED BY <3>2, TuplesAreSeqs
  <2> HIDE DEF st, start, block, delta
  <2>6. out \in Seq(Calm)
    BY <1>1, <2>3, <2>5, ConcatIsSeq
  <2> HIDE DEF out
  <2> QED BY <2>1, <2>4, <2>6, CalmYield
<1>6. CASE ev.e \notin {"error", "[DONE]"} /\ ev.kind = "finish"
  <2> DEFINE st == [begun EXCEPT !.why = FinishToStop(ev.why)]
  <2>1. y = Yield(st, start)
    BY <1>6 DEF ChatToMessages, BlockKind
  <2>2. st \in Inward
    BY <1>1, <1>2, ReasonsMap DEF Inward
  <2> HIDE DEF st, start
  <2> QED BY <1>1, <2>1, <2>2, CalmYield
<1>7. CASE ev.e \notin {"error", "[DONE]"} /\ ev.kind = "usage"
  <2> DEFINE st == [begun EXCEPT !.usage = Exclusive(ev.usage)]
  <2>1. y = [Yield(st, start) EXCEPT !.usage = Exclusive(ev.usage)]
    BY <1>7 DEF ChatToMessages, BlockKind
  <2>2. Exclusive(ev.usage) \in Usage
    BY <1>2, ExclusiveIsUsage
  <2>3. st \in Inward
    BY <1>1, <2>2 DEF Inward
  <2> HIDE DEF st, start
  <2> QED BY <1>1, <2>1, <2>2, <2>3, CalmUsageYield
<1>8. CASE ev.e \notin {"error", "[DONE]"} /\ ev.kind \notin BlockKind \cup {"finish", "usage"}
  <2>1. y = Yield(begun, start)
    BY <1>8 DEF ChatToMessages, BlockKind
  <2> HIDE DEF begun, start
  <2> QED BY <1>1, <2>1, CalmYield
<1> QED BY <1>3, <1>4, <1>5, <1>6, <1>7, <1>8

\* ResponsesToMessagesStream.
LEMMA ResponsesToMessagesYields ==
  ASSUME None \notin Nat, NEW s \in Inward, NEW ev \in Msg
  PROVE  Inwarded(ResponsesToMessages(s, ev), ev)
<1> DEFINE y == ResponsesToMessages(s, ev)
           next == [s EXCEPT !.index = @ + 1]
           tool == s.tool \/ \E k \in DOMAIN ev.items : ev.items[k].kind = "tool"
           usage == IF ev.usage = NoUsage THEN NoUsage ELSE Exclusive(ev.usage)
           why == IF tool THEN "tool_use" ELSE "end_turn"
<1>1. next \in Inward /\ why \in Reason /\ s.index \in Nat
  BY DEF Inward, Reason
<1>2. /\ ev.i \in Nat /\ ev.id \in Nat /\ ev.frag \in Nat /\ ev.kind \in EventKind
      /\ ev.usage \in Usage /\ ev.why \in Reason /\ ev \in Event
  BY DEF Msg, Event
<1>3. 0 \in Nat /\ "text" \in BlockKind /\ "none" \in Reason
  BY DEF BlockKind, Reason
<1>4. usage \in Usage /\ MergeUsage(ZeroUsage, usage) \in Usage
  BY <1>2, ExclusiveIsUsage, NoUsageIsUsage, MergedUsage
<1>5. CASE ev.e = "response.created"
  <2>1. y = Yield(s, <<MessageStart(ZeroUsage)>>)
    BY <1>5 DEF ResponsesToMessages
  <2>2. <<MessageStart(ZeroUsage)>> \in Seq(Calm)
    BY <1>3, BlocksAreCalm, NoUsageIsUsage, TuplesAreSeqs
  <2> QED BY <2>1, <2>2, CalmYield
<1>6. CASE ev.e = "response.in_progress"
  <2>1. y = Yield(s, <<Bare("ping")>>)
    BY <1>6 DEF ResponsesToMessages
  <2> QED BY <2>1, BareIsCalm, TuplesAreSeqs, CalmYield
<1>7. CASE ev.e = "response.output_item.added"
  <2> DEFINE st == [s EXCEPT !.tool = @ \/ ev.kind = "tool"]
             out == <<BlockStart(s.index, ev.kind, ev.id)>>
  <2>1. y = Yield(st, out)
    BY <1>7 DEF ResponsesToMessages
  <2>2. st \in Inward
    BY DEF Inward
  <2>3. ev.kind \in BlockKind
    BY <1>7 DEF Msg, Proper
  <2>4. out \in Seq(Calm)
    BY <1>1, <1>2, <1>3, <2>3, BlocksAreCalm, NoUsageIsUsage, TuplesAreSeqs
  <2> QED BY <2>1, <2>2, <2>4, CalmYield
<1>8. CASE ev.e = "response.delta"
  <2> DEFINE out == <<BlockDelta(s.index, ev.kind, ev.frag)>>
  <2>1. y = Yield(s, out)
    BY <1>8 DEF ResponsesToMessages
  <2>2. ev.kind \in BlockKind \cup {"signature"}
    BY <1>8 DEF Msg, Proper
  <2>3. BlockDelta(s.index, ev.kind, ev.frag) \in Calm
    BY <1>1, <1>2, <1>3, <2>2, AnyDeltaIsCalm
  <2> QED BY <2>1, <2>3, TuplesAreSeqs, CalmYield
<1>9. CASE ev.e = "response.done"
  <2>1. y = Yield(next, <<BlockStop(s.index)>>)
    BY <1>9 DEF ResponsesToMessages
  <2>2. <<BlockStop(s.index)>> \in Seq(Calm)
    BY <1>1, <1>3, BlocksAreCalm, NoUsageIsUsage, TuplesAreSeqs
  <2> QED BY <1>1, <2>1, <2>2, CalmYield
<1>10. CASE ev.e = "response.output_item.done" /\ ev.kind = "thinking"
  <2>1. y = Yield(next, Signature(s, ev))
    BY <1>10 DEF ResponsesToMessages
  <2>2. BlockStop(s.index) \in Calm /\ BlockDelta(s.index, "signature", 0) \in Calm
    BY <1>1, <1>3, BlocksAreCalm, NoUsageIsUsage
  <2>3. Signature(s, ev) \in Seq(Calm)
    BY <2>2, TuplesAreSeqs, ConcatIsSeq DEF Signature
  <2> QED BY <1>1, <2>1, <2>3, CalmYield
<1>11. CASE ev.e = "response.completed"
  <2> DEFINE out == <<MessageDelta(why, MergeUsage(ZeroUsage, usage)), MessageStop>>
  <2>1. y = [Yield(s, out) EXCEPT !.usage = usage]
    BY <1>11 DEF ResponsesToMessages
  <2>2. MessageDelta(why, MergeUsage(ZeroUsage, usage)) \in Calm /\ MessageStop \in Stopping
    BY <1>1, <1>3, <1>4, BlocksAreCalm
  <2> HIDE DEF why, usage
  <2>3. out \in Seq(Calm \cup Stopping)
    BY <2>2, TuplesAreSeqs
  <2>4. out \in Seq(Msg)
    <3>1. Calm \cup Stopping \subseteq Msg
      BY DEF Calm, Ending, Stopping
    <3> QED BY <2>3, <3>1, SeqMonotonic
  <2>5. ev \notin Calm /\ ev \notin Failing
    BY <1>11 DEF Calm, Failing, EndName, ErrorName
  <2> HIDE DEF out
  <2>6. y.st = s /\ y.out = out /\ ~y.error /\ TypedYield(y)
    BY <1>4, <2>1, UsageYieldIs
  <2> QED BY <2>3, <2>4, <2>5, <2>6 DEF Inwarded
<1>12. CASE ev.e \in {"error", "response.failed"}
  <2> DEFINE out == <<Bare("error")>>
  <2>1. y = [Yield(s, out) EXCEPT !.error = TRUE]
    BY <1>12 DEF ResponsesToMessages
  <2>2. y.st = s /\ y.out = out /\ y.usage = NoUsage /\ y.error = TRUE /\ y.capture = NoCapture
    BY <2>1 DEF Yield
  <2>3. ev \notin Calm /\ ev \notin Ending
    BY <1>12 DEF Calm, Ending, EndName, ErrorName
  <2>4. out \in Seq(Msg) /\ out \in Seq(Calm \cup Failing)
    <3>1. Bare("error") \in Msg /\ Bare("error") \in Failing
      BY BareIsFailing DEF Failing
    <3> QED BY <3>1, TuplesAreSeqs
  <2> QED BY <2>2, <2>3, <2>4, CapturesNothing, NoUsageIsUsage DEF Inwarded, TypedYield
<1>13. CASE /\ ev.e \notin {"response.created", "response.in_progress", "response.output_item.added",
                         "response.delta", "response.done", "response.completed", "error",
                         "response.failed"}
            /\ ~(ev.e = "response.output_item.done" /\ ev.kind = "thinking")
  <2>1. y = Yield(s, <<>>)
    BY <1>13 DEF ResponsesToMessages
  <2> QED BY <2>1, TuplesAreSeqs, CalmYield
<1> QED BY <1>5, <1>6, <1>7, <1>8, <1>9, <1>10, <1>11, <1>12, <1>13

-----------------------------------------------------------------------------
(* Away from messages *)

LEMMA MapsStayMaps ==
  ASSUME NEW S, NEW f, f \in [DOMAIN f -> S], DOMAIN f \subseteq Nat, NEW k \in Nat, NEW v \in S
  PROVE  /\ LET g == Put(f, k, v) IN g \in [DOMAIN g -> S] /\ DOMAIN g \subseteq Nat
         /\ LET g == Drop(f, k) IN g \in [DOMAIN g -> S] /\ DOMAIN g \subseteq Nat
<1>1. DOMAIN Put(f, k, v) = DOMAIN f \cup {k} /\ Put(f, k, v) \in [DOMAIN f \cup {k} -> S]
  BY DEF Put
<1>2. DOMAIN Drop(f, k) = DOMAIN f \ {k} /\ Drop(f, k) \in [DOMAIN f \ {k} -> S]
  BY DEF Drop, Restrict
<1> QED BY <1>1, <1>2

LEMMA BlockIsState ==
  ASSUME NEW kind \in BlockKind, NEW i \in Nat, NEW id \in Nat
  PROVE  Block(kind, i, id) \in BlockState
BY TuplesAreSeqs DEF Block, BlockState

LEMMA AccumulateKeepsState ==
  ASSUME NEW s, IsOutward(s), NEW ev \in Msg
  PROVE  IsOutward(Accumulate(s, ev))
<1>1. CASE ev.i \notin DOMAIN s.blocks
  BY <1>1 DEF Accumulate
<1>2. CASE ev.i \in DOMAIN s.blocks
  <2> DEFINE block == s.blocks[ev.i]
  <2>1. block \in BlockState /\ ev.frag \in Nat
    BY <1>2 DEF IsOutward, Msg, Event
  <2>2. Append(block.text, ev.frag) \in Seq(Nat)
    BY <2>1, AppendProperties DEF BlockState
  <2>3. [block EXCEPT !.signed = TRUE] \in BlockState
    BY <2>1 DEF BlockState
  <2>4. [block EXCEPT !.text = Append(@, ev.frag)] \in BlockState
    BY <2>1, <2>2 DEF BlockState
  <2>5. ASSUME NEW b \in BlockState
        PROVE  IsOutward([s EXCEPT !.blocks[ev.i] = b])
    BY <2>5 DEF IsOutward
  <2>6. CASE ev.kind = "signature"
    <3>1. Accumulate(s, ev) = [s EXCEPT !.blocks[ev.i] = [block EXCEPT !.signed = TRUE]]
      BY <1>2, <2>6 DEF Accumulate
    <3> QED BY <2>3, <2>5, <3>1
  <2>7. CASE ev.kind # "signature"
    <3>1. Accumulate(s, ev) = [s EXCEPT !.blocks[ev.i] = [block EXCEPT !.text = Append(@, ev.frag)]]
      BY <1>2, <2>7 DEF Accumulate
    <3> QED BY <2>4, <2>5, <3>1
  <2> QED BY <2>6, <2>7
<1> QED BY <1>1, <1>2

LEMMA ThoughtIsSeq ==
  ASSUME NEW s, IsOutward(s), NEW block \in BlockState
  PROVE  Thought(s, block) \in Seq(Seq(Nat))
<1>1. s.thinking \in Seq(Seq(Nat)) /\ block.text \in Seq(Nat)
  BY DEF IsOutward, BlockState
<1> QED BY <1>1, AppendProperties DEF Thought

LEMMA IdsAreSeq ==
  ASSUME NEW s, IsOutward(s), NEW id \in Nat
  PROVE  Ids(s, id) \in Seq(Nat)
<1>1. s.ids \in Seq(Nat)
  BY DEF IsOutward
<1> QED BY <1>1, AppendProperties DEF Ids

LEMMA UsageStates ==
  ASSUME NEW s, IsOutward(s), NEW ev \in Msg
  PROVE  /\ IsOutward(Seeded(s, ev)) /\ IsOutward(Merged(s, ev)) /\ Merged(s, ev).usage \in Usage
         /\ ev.usage \in Usage
<1>1. ev.usage \in Usage /\ s.usage \in Usage
  BY DEF IsOutward, Msg, Event
<1>2. MergeUsage(s.usage, ev.usage) \in Usage
  BY <1>1, MergedUsage
<1>3. IsOutward(Seeded(s, ev))
  BY <1>1 DEF Seeded, IsOutward
<1>4. IsOutward(Merged(s, ev)) /\ Merged(s, ev).usage \in Usage
  BY <1>2 DEF Merged, IsOutward
<1> QED BY <1>1, <1>3, <1>4

LEMMA CaptureStates ==
  ASSUME NEW s, IsOutward(s)
  PROVE  IsOutward(Taken(s)) /\ Captured(s) \in Capture
<1>1. Captured(s) \in Capture
  BY CapturesNothing DEF Captured, Capture, IsOutward
<1>2. <<>> \in Seq(Seq(Nat)) /\ <<>> \in Seq(Nat)
  BY TuplesAreSeqs
<1>3. IsOutward(Taken(s))
  BY <1>2 DEF Taken, IsOutward
<1> QED BY <1>1, <1>3

\* What a push of the second stage yields, but for the end.
Outwarded(y, ev) ==
  /\ IsOutward(y.st) /\ TypedYield(y)
  /\ ev \in Calm => y.out \in Seq(Calm) /\ ~y.error
  /\ ev \in Ending => ~y.error
  /\ ev \in Failing => y.out = <<>>

LEMMA CalmOutward ==
  ASSUME NEW ev \in Calm, NEW st, IsOutward(st), NEW out \in Seq(Calm)
  PROVE  /\ Outwarded(Yield(st, out), ev)
         /\ \A usage \in Usage :
              /\ Outwarded([Yield(st, out) EXCEPT !.usage = usage], ev)
              /\ Outwarded(Reports(Yield(st, out), usage, ev), ev)
<1>1. ev \notin Ending /\ ev \notin Failing
  BY DEF Calm, Ending, Failing
<1>2. Outwarded(Yield(st, out), ev)
  BY <1>1, YieldIs DEF Outwarded
<1>3. \A usage \in Usage : Outwarded([Yield(st, out) EXCEPT !.usage = usage], ev)
  BY <1>1, UsageYieldIs DEF Outwarded
<1> QED BY <1>2, <1>3 DEF Reports

\* An event that says nothing to the client, an end or an error under another name included.
LEMMA SilentOutward ==
  ASSUME NEW ev, NEW st, IsOutward(st)
  PROVE  Outwarded(Yield(st, <<>>), ev) /\ Yield(st, <<>>).out = <<>>
<1> DEFINE none == <<>>
           y == Yield(st, none)
<1>1. none \in Seq(Calm)
  BY TuplesAreSeqs
<1> HIDE DEF none
<1>2. y.st = st /\ y.out = none /\ ~y.error /\ TypedYield(y)
  BY YieldIs
<1>3. Outwarded(y, ev) /\ y.out = none
  <2>1. none = <<>>
    BY DEF none
  <2> HIDE DEF y
  <2> QED BY <1>1, <1>2, <2>1 DEF Outwarded
<1> QED BY <1>3 DEF none

LEMMA FailedOutward ==
  ASSUME NEW ev \in Failing, NEW s, IsOutward(s)
  PROVE  LET y == [Yield(s, <<>>) EXCEPT !.error = TRUE] IN Outwarded(y, ev) /\ y.out = <<>>
<1> DEFINE y == [Yield(s, <<>>) EXCEPT !.error = TRUE]
<1>1. y.st = s /\ y.out = <<>> /\ y.usage = NoUsage /\ y.error = TRUE /\ y.capture = NoCapture
  BY DEF Yield
<1>2. ev \notin Calm /\ ev \notin Ending
  BY DEF Calm, Ending, Failing, EndName, ErrorName
<1> QED BY <1>1, <1>2, CapturesNothing, NoUsageIsUsage DEF Outwarded, TypedYield

LEMMA CapturedOutward ==
  ASSUME NEW ev \in Ending, NEW s, IsOutward(s), NEW out
  PROVE  LET y == [Yield(Taken(s), out) EXCEPT !.capture = Captured(s)]
         IN Outwarded(y, ev) /\ y.out = out
<1> DEFINE y == [Yield(Taken(s), out) EXCEPT !.capture = Captured(s)]
<1>1. /\ y.st = Taken(s) /\ y.out = out /\ y.usage = NoUsage /\ y.error = FALSE
      /\ y.capture = Captured(s)
  BY DEF Yield
<1>2. ev \notin Calm /\ ev \notin Failing
  BY DEF Calm, Ending, Failing, EndName, ErrorName
<1> QED BY <1>1, <1>2, CaptureStates, NoUsageIsUsage DEF Outwarded, TypedYield

\* MessagesToChatStream.
LEMMA MessagesToChatYields ==
  ASSUME None \notin Nat, NEW s, IsOutward(s), NEW ev \in Msg, NEW include \in BOOLEAN
  PROVE  LET y == MessagesToChat(s, ev, include)
         IN /\ Outwarded(y, ev)
            /\ ev \in Ending => y.out = <<>> \/ \E x \in Seq(Calm) : y.out = x \o <<Done>>
<1> DEFINE y == MessagesToChat(s, ev, include)
           closed == [s EXCEPT !.blocks = Drop(@, ev.i), !.thinking = Thought(s, s.blocks[ev.i])]
           tool == [s EXCEPT !.tool = Put(@, ev.i, s.count), !.count = @ + 1, !.ids = Ids(s, ev.id)]
           told == IF ev.why = "none" THEN s ELSE [s EXCEPT !.why = StopToFinish(ev.why)]
           usage == IF include /\ s.usage # NoUsage THEN <<UsageChunk(Totals(s.usage))>> ELSE <<>>
<1>1. /\ ev.i \in Nat /\ ev.id \in Nat /\ ev.frag \in Nat /\ ev.kind \in EventKind
      /\ ev.usage \in Usage /\ ev.why \in Reason /\ ev \in Event
  BY DEF Msg, Event
<1>2. s.count \in Nat /\ s.usage \in Usage /\ s.why \in Reason
  BY DEF IsOutward
<1>3. 0 \in Nat /\ "text" \in BlockKind /\ "none" \in Reason /\ NoUsage \in Usage
      /\ "role" \in EventKind /\ "text" \in EventKind /\ "thinking" \in EventKind
  BY NoUsageIsUsage DEF BlockKind, Reason, EventKind
<1>4. ASSUME NEW e, ev.e = e, e \notin EndName \cup ErrorName
      PROVE  ev \in Calm /\ ev \notin Ending
  BY <1>4 DEF Calm, Ending
<1>5. CASE ev.e = "message_start"
  <2>1. y = Reports(Yield(Seeded(s, ev), <<Chunk("role")>>), ev.usage, ev)
    BY <1>5 DEF MessagesToChat
  <2>2. Chunk("role") \in Calm
    BY <1>3, ChunkIsMsg DEF Calm, EndName, ErrorName
  <2>3. ev \in Calm /\ ev \notin Ending
    BY <1>4, <1>5 DEF EndName, ErrorName
  <2> QED BY <1>1, <2>1, <2>2, <2>3, UsageStates, TuplesAreSeqs, CalmOutward
<1>6. CASE ev.e = "content_block_start" /\ ev.kind = "thinking"
  <2> DEFINE st == [s EXCEPT !.blocks = Put(@, ev.i, Block("thinking", 0, 0))]
  <2>1. y = Yield(st, <<>>)
    BY <1>6 DEF MessagesToChat
  <2>2. Block("thinking", 0, 0) \in BlockState
    BY BlockIsState DEF BlockKind
  <2>3. IsOutward(st)
    BY <1>1, <2>2, MapsStayMaps DEF IsOutward
  <2> QED BY <2>1, <2>3, SilentOutward
<1>7. CASE ev.e = "content_block_start" /\ ev.kind = "tool"
  <2>1. y = Yield(tool, <<ToolChunk(s.count, ev.id, 0)>>)
    BY <1>7 DEF MessagesToChat
  <2>2. IsOutward(tool)
    <3>1. LET g == Put(s.tool, ev.i, s.count) IN g \in [DOMAIN g -> Nat] /\ DOMAIN g \subseteq Nat
      BY <1>1, <1>2, MapsStayMaps DEF IsOutward
    <3>2. Ids(s, ev.id) \in Seq(Nat)
      BY <1>1, IdsAreSeq
    <3>3. s.count + 1 \in Nat
      BY <1>2
    <3> QED BY <3>1, <3>2, <3>3 DEF IsOutward
  <2>3. ToolChunk(s.count, ev.id, 0) \in Msg /\ ToolChunk(s.count, ev.id, 0).e = "chunk"
    BY <1>1, <1>2, <1>3, Chunks, SMTT(30)
  <2>4. ToolChunk(s.count, ev.id, 0) \in Calm
    BY <2>3 DEF Calm, EndName, ErrorName
  <2>5. ev \in Calm /\ ev \notin Ending
    BY <1>4, <1>7 DEF EndName, ErrorName
  <2> HIDE DEF tool
  <2> QED BY <2>1, <2>2, <2>4, <2>5, TuplesAreSeqs, CalmOutward
<1>8. CASE ev.e = "content_block_delta" /\ ev.kind \in {"text", "thinking", "tool", "signature"}
  <2> DEFINE text == TextChunk(ev.kind, ev.frag)
             piece == ToolChunk(ToolCall(s, ev.i), 0, ev.frag)
  <2>1. y \in {Yield(s, <<text>>), Yield(Accumulate(s, ev), <<text>>),
               Yield(Accumulate(s, ev), <<>>), Yield(s, <<piece>>)}
    <3>1. CASE ev.kind = "text"
      BY <1>8, <3>1 DEF MessagesToChat
    <3>2. CASE ev.kind = "thinking"
      BY <1>8, <3>2 DEF MessagesToChat
    <3>3. CASE ev.kind = "signature"
      BY <1>8, <3>3 DEF MessagesToChat
    <3>4. CASE ev.kind = "tool"
      BY <1>8, <3>4 DEF MessagesToChat
    <3> QED BY <1>8, <3>1, <3>2, <3>3, <3>4
  <2>2. ToolCall(s, ev.i) \in Nat
    BY DEF ToolCall, IsOutward
  <2>3. text \in Calm /\ piece \in Calm
    <3>1. text \in Msg /\ text.e = "chunk" /\ piece \in Msg /\ piece.e = "chunk"
      BY <1>1, <1>3, <2>2, Chunks
    <3> QED BY <3>1 DEF Calm, EndName, ErrorName
  <2>4. IsOutward(Accumulate(s, ev))
    BY AccumulateKeepsState
  <2>5. ev \in Calm /\ ev \notin Ending
    BY <1>4, <1>8 DEF EndName, ErrorName
  <2> HIDE DEF text, piece
  <2>6. <<text>> \in Seq(Calm) /\ <<piece>> \in Seq(Calm) /\ <<>> \in Seq(Calm)
    BY <2>3, TuplesAreSeqs
  <2> QED BY <2>1, <2>4, <2>5, <2>6, CalmOutward
<1>9. CASE ev.e = "content_block_stop" /\ ev.i \in DOMAIN s.blocks
  <2>1. y = Yield(closed, <<>>)
    BY <1>9 DEF MessagesToChat
  <2>2. IsOutward(closed)
    <3>1. s.blocks[ev.i] \in BlockState
      BY <1>9 DEF IsOutward
    <3>2. Thought(s, s.blocks[ev.i]) \in Seq(Seq(Nat))
      BY <3>1, ThoughtIsSeq
    <3>3. LET g == Drop(s.blocks, ev.i) IN g \in [DOMAIN g -> BlockState] /\ DOMAIN g \subseteq Nat
      BY <1>1, <3>1, MapsStayMaps DEF IsOutward
    <3> QED BY <3>2, <3>3 DEF IsOutward
  <2> HIDE DEF closed
  <2> QED BY <2>1, <2>2, SilentOutward
<1>10. CASE ev.e = "message_delta"
  <2>1. y = Reports(Yield(Merged(told, ev), <<>>), Merged(s, ev).usage, ev)
    BY <1>10 DEF MessagesToChat
  <2>2. IsOutward(told)
    BY <1>1, ReasonsMap DEF IsOutward
  <2>3. ev \in Calm /\ ev \notin Ending
    BY <1>4, <1>10 DEF EndName, ErrorName
  <2> HIDE DEF told
  <2> QED BY <2>1, <2>2, <2>3, UsageStates, TuplesAreSeqs, CalmOutward
<1>11. CASE ev.e = "message_stop"
  <2> DEFINE x == <<FinishChunk(s.why)>> \o usage
             out == x \o <<Done>>
  <2>1. y = [Yield(Taken(s), out) EXCEPT !.capture = Captured(s)]
    BY <1>11 DEF MessagesToChat
  <2>2. FinishChunk(s.why) \in Calm
    <3>1. FinishChunk(s.why) \in Msg /\ FinishChunk(s.why).e = "chunk"
      BY <1>2, <1>3, Chunks
    <3> QED BY <3>1 DEF Calm, EndName, ErrorName
  <2>3. usage \in Seq(Calm)
    <3>1. Totals(s.usage) \in Usage
      BY <1>2, ExclusiveIsUsage
    <3>2. UsageChunk(Totals(s.usage)) \in Msg /\ UsageChunk(Totals(s.usage)).e = "chunk"
      BY <1>3, <3>1, Chunks
    <3>3. UsageChunk(Totals(s.usage)) \in Calm
      BY <3>2 DEF Calm, EndName, ErrorName
    <3> QED BY <3>3, TuplesAreSeqs
  <2> HIDE DEF usage
  <2>4. x \in Seq(Calm)
    BY <2>2, <2>3, TuplesAreSeqs, ConcatIsSeq
  <2>5. ev \in Ending
    BY <1>11 DEF Ending, EndName
  <2> HIDE DEF x
  <2>6. Outwarded(y, ev) /\ y.out = out
    BY <2>1, <2>5, CapturedOutward
  <2> QED BY <2>4, <2>6
<1>12. CASE ev.e = "error"
  <2>1. y = [Yield(s, <<>>) EXCEPT !.error = TRUE]
    BY <1>12 DEF MessagesToChat
  <2>2. ev \in Failing
    BY <1>12 DEF Failing, ErrorName
  <2> QED BY <2>1, <2>2, FailedOutward
<1>13. CASE /\ ev.e \notin {"message_start", "message_delta", "message_stop", "error"}
            /\ ~(ev.e = "content_block_start" /\ ev.kind \in {"thinking", "tool"})
            /\ ~(ev.e = "content_block_delta" /\ ev.kind \in {"text", "thinking", "tool", "signature"})
            /\ ~(ev.e = "content_block_stop" /\ ev.i \in DOMAIN s.blocks)
  <2>1. y = Yield(s, <<>>)
    BY <1>13 DEF MessagesToChat
  <2> QED BY <2>1, SilentOutward
<1> QED BY <1>5, <1>6, <1>7, <1>8, <1>9, <1>10, <1>11, <1>12, <1>13

LEMMA ItemsAreCalm ==
  /\ \A i \in Nat, kind \in BlockKind, id \in Nat : Added(i, kind, id) \in Calm
  /\ \A i \in Nat, kind \in BlockKind, frag \in Nat : ItemDelta(i, kind, frag) \in Calm
  /\ \A i \in Nat, kind \in BlockKind : PartDone(i, kind) \in Calm
  /\ \A i \in Nat, kind \in BlockKind, id \in Nat, signed \in BOOLEAN :
       ItemDone(i, kind, id, signed) \in Calm
  /\ \A items \in Seq(Item), usage \in Usage : Completed(items, usage) \in Ending
<1>1. ASSUME NEW i \in Nat, NEW id \in Nat, NEW frag \in Nat, NEW kind \in BlockKind,
             NEW usage \in Usage, NEW items \in Seq(Item), NEW signed \in BOOLEAN
      PROVE  /\ Added(i, kind, id) \in Calm /\ ItemDelta(i, kind, frag) \in Calm
             /\ PartDone(i, kind) \in Calm /\ ItemDone(i, kind, id, signed) \in Calm
             /\ Completed(items, usage) \in Ending
  <2>1. /\ Added(i, kind, id) \in Msg /\ Added(i, kind, id).e = "response.output_item.added"
        /\ ItemDelta(i, kind, frag) \in Msg /\ ItemDelta(i, kind, frag).e = "response.delta"
        /\ PartDone(i, kind) \in Msg /\ PartDone(i, kind).e = "response.done"
        /\ ItemDone(i, kind, id, signed) \in Msg
        /\ ItemDone(i, kind, id, signed).e = "response.output_item.done"
        /\ Completed(items, usage) \in Msg /\ Completed(items, usage).e = "response.completed"
    BY <1>1, Items
  <2> QED BY <2>1 DEF Calm, Ending, EndName, ErrorName
<1>2. /\ 0 \in Nat /\ "text" \in BlockKind /\ NoUsage \in Usage /\ FALSE \in BOOLEAN
      /\ <<>> \in Seq(Item)
  BY NoUsageIsUsage, TuplesAreSeqs DEF BlockKind
<1>3. \A i \in Nat, kind \in BlockKind, id \in Nat : Added(i, kind, id) \in Calm
  BY <1>1, <1>2
<1>4. \A i \in Nat, kind \in BlockKind, frag \in Nat : ItemDelta(i, kind, frag) \in Calm
  BY <1>1, <1>2
<1>5. \A i \in Nat, kind \in BlockKind : PartDone(i, kind) \in Calm
  BY <1>1, <1>2
<1>6. \A i \in Nat, kind \in BlockKind, id \in Nat, signed \in BOOLEAN :
        ItemDone(i, kind, id, signed) \in Calm
  BY <1>1, <1>2
<1>7. \A items \in Seq(Item), usage \in Usage : Completed(items, usage) \in Ending
  BY <1>1, <1>2
<1> QED BY <1>3, <1>4, <1>5, <1>6, <1>7

\* MessagesToResponsesStream.
LEMMA MessagesToResponsesYields ==
  ASSUME None \notin Nat, NEW s, IsOutward(s), NEW ev \in Msg
  PROVE  LET y == MessagesToResponses(s, ev)
         IN /\ Outwarded(y, ev)
            /\ ev \in Ending => y.out = <<>> \/ \E c \in Ending : y.out = <<c, Done>>
<1> DEFINE y == MessagesToResponses(s, ev)
           known == ev.i \in DOMAIN s.blocks
           block == s.blocks[ev.i]
           opened == [s EXCEPT !.blocks = Put(@, ev.i, Block(ev.kind, s.count, ev.id)),
                               !.count = @ + 1]
           closed == [s EXCEPT !.blocks = Drop(@, ev.i), !.thinking = Thought(s, block),
                               !.ids = IF block.kind = "tool" THEN Ids(s, block.id) ELSE @,
                               !.items = Finalized(s, block)]
           part == IF block.kind = "thinking" THEN <<>> ELSE <<PartDone(block.i, block.kind)>>
           usage == IF s.usage = NoUsage THEN NoUsage ELSE Totals(s.usage)
<1>1. /\ ev.i \in Nat /\ ev.id \in Nat /\ ev.frag \in Nat /\ ev.kind \in EventKind
      /\ ev.usage \in Usage /\ ev.why \in Reason /\ ev \in Event
  BY DEF Msg, Event
<1>2. s.count \in Nat /\ s.usage \in Usage /\ s.items \in Seq(Item) /\ s.ids \in Seq(Nat)
  BY DEF IsOutward
<1>3. /\ 0 \in Nat /\ "text" \in BlockKind /\ NoUsage \in Usage /\ FALSE \in BOOLEAN
      /\ <<>> \in Seq(Item)
  BY NoUsageIsUsage, TuplesAreSeqs DEF BlockKind
<1>4. known => block \in BlockState
  BY DEF IsOutward
<1>5. ASSUME NEW e, ev.e = e, e \notin EndName \cup ErrorName
      PROVE  ev \in Calm /\ ev \notin Ending
  BY <1>5 DEF Calm, Ending
<1>6. CASE ev.e = "message_start"
  <2> DEFINE out == <<Bare("response.created"), Bare("response.in_progress")>>
  <2>1. y = Reports(Yield(Seeded(s, ev), out), ev.usage, ev)
    BY <1>6 DEF MessagesToResponses
  <2>2. out \in Seq(Calm)
    BY BareIsCalm, TuplesAreSeqs
  <2>3. ev \in Calm /\ ev \notin Ending
    BY <1>5, <1>6 DEF EndName, ErrorName
  <2> HIDE DEF out
  <2> QED BY <1>1, <2>1, <2>2, <2>3, UsageStates, CalmOutward
<1>7. CASE ev.e = "content_block_start"
  <2>1. y = Yield(opened, <<Added(s.count, ev.kind, ev.id)>>)
    BY <1>7 DEF MessagesToResponses
  <2>2. ev.kind \in BlockKind
    BY <1>7 DEF Msg, Proper
  <2>3. IsOutward(opened)
    <3>1. Block(ev.kind, s.count, ev.id) \in BlockState
      BY <1>1, <1>2, <2>2, BlockIsState
    <3>2. LET g == Put(s.blocks, ev.i, Block(ev.kind, s.count, ev.id))
          IN g \in [DOMAIN g -> BlockState] /\ DOMAIN g \subseteq Nat
      BY <1>1, <3>1, MapsStayMaps DEF IsOutward
    <3>3. s.count + 1 \in Nat
      BY <1>2
    <3> QED BY <3>2, <3>3 DEF IsOutward
  <2>4. Added(s.count, ev.kind, ev.id) \in Calm
    BY <1>1, <1>2, <2>2, ItemsAreCalm
  <2>5. ev \in Calm /\ ev \notin Ending
    BY <1>5, <1>7 DEF EndName, ErrorName
  <2> HIDE DEF opened
  <2> QED BY <2>1, <2>3, <2>4, <2>5, TuplesAreSeqs, CalmOutward
<1>8. CASE ev.e = "content_block_delta" /\ known
  <2> DEFINE out == IF ev.kind = "signature" THEN <<>> ELSE <<ItemDelta(block.i, ev.kind, ev.frag)>>
  <2>1. y = Yield(Accumulate(s, ev), out)
    BY <1>8 DEF MessagesToResponses
  <2>2. ev.kind # "signature" => ItemDelta(block.i, ev.kind, ev.frag) \in Calm
    <3>1. ev.kind # "signature" => ev.kind \in BlockKind
      BY <1>8 DEF Msg, Proper
    <3>2. block.i \in Nat
      BY <1>4, <1>8 DEF BlockState
    <3> HIDE DEF block
    <3> QED BY <1>1, <3>1, <3>2, ItemsAreCalm
  <2>3. out \in Seq(Calm)
    BY <2>2, TuplesAreSeqs
  <2>4. ev \in Calm /\ ev \notin Ending
    BY <1>5, <1>8 DEF EndName, ErrorName
  <2> HIDE DEF out
  <2> QED BY <2>1, <2>3, <2>4, AccumulateKeepsState, CalmOutward
<1>9. CASE ev.e = "content_block_stop" /\ known
  <2> DEFINE out == part \o <<ItemDone(block.i, block.kind, block.id, FALSE)>>
  <2>1. y = Yield(closed, out)
    BY <1>9 DEF MessagesToResponses
  <2>2. block \in BlockState /\ block.i \in Nat /\ block.id \in Nat /\ block.kind \in BlockKind
        /\ block.text \in Seq(Nat)
    BY <1>4, <1>9 DEF BlockState
  <2>3. IsOutward(closed)
    <3>1. Thought(s, block) \in Seq(Seq(Nat))
      BY <2>2, ThoughtIsSeq
    <3>2. LET g == Drop(s.blocks, ev.i) IN g \in [DOMAIN g -> BlockState] /\ DOMAIN g \subseteq Nat
      BY <1>1, <2>2, MapsStayMaps DEF IsOutward
    <3>3. Ids(s, block.id) \in Seq(Nat)
      BY <2>2, IdsAreSeq
    <3>4. Finalized(s, block) \in Seq(Item)
      <4>1. [kind |-> block.kind, id |-> block.id, text |-> block.text] \in Item
        BY <2>2 DEF Item
      <4> QED BY <1>2, <4>1, AppendProperties DEF Finalized
    <3> HIDE DEF block
    <3> QED BY <1>2, <3>1, <3>2, <3>3, <3>4 DEF IsOutward
  <2>4. ItemDone(block.i, block.kind, block.id, FALSE) \in Calm /\ PartDone(block.i, block.kind) \in Calm
    <3> HIDE DEF block
    <3> QED BY <1>3, <2>2, ItemsAreCalm
  <2>5. part \in Seq(Calm) /\ <<ItemDone(block.i, block.kind, block.id, FALSE)>> \in Seq(Calm)
    BY <2>4, TuplesAreSeqs
  <2> HIDE DEF part
  <2>6. out \in Seq(Calm)
    BY <2>5, ConcatIsSeq
  <2>7. ev \in Calm /\ ev \notin Ending
    BY <1>5, <1>9 DEF EndName, ErrorName
  <2> HIDE DEF out, closed
  <2> QED BY <2>1, <2>3, <2>6, <2>7, CalmOutward
<1>10. CASE ev.e = "message_delta"
  <2>1. y = Reports(Yield(Merged(s, ev), <<>>), Merged(s, ev).usage, ev)
    BY <1>10 DEF MessagesToResponses
  <2>2. ev \in Calm /\ ev \notin Ending
    BY <1>5, <1>10 DEF EndName, ErrorName
  <2> QED BY <2>1, <2>2, UsageStates, TuplesAreSeqs, CalmOutward
<1>11. CASE ev.e = "message_stop"
  <2> DEFINE c == Completed(s.items, usage)
             out == <<c, Done>>
  <2>1. y = [Yield(Taken(s), out) EXCEPT !.capture = Captured(s)]
    BY <1>11 DEF MessagesToResponses
  <2>2. usage \in Usage
    BY <1>2, <1>3, ExclusiveIsUsage
  <2> HIDE DEF usage
  <2>3. c \in Ending
    BY <1>2, <2>2, ItemsAreCalm
  <2>4. ev \in Ending
    BY <1>11 DEF Ending, EndName
  <2> HIDE DEF c
  <2>5. Outwarded(y, ev) /\ y.out = out
    BY <2>1, <2>4, CapturedOutward
  <2> QED BY <2>3, <2>5
<1>12. CASE ev.e = "error"
  <2>1. y = [Yield(s, <<>>) EXCEPT !.error = TRUE]
    BY <1>12 DEF MessagesToResponses
  <2>2. ev \in Failing
    BY <1>12 DEF Failing, ErrorName
  <2> QED BY <2>1, <2>2, FailedOutward
<1>13. CASE /\ ev.e \notin {"message_start", "message_delta", "message_stop", "error",
                         "content_block_start"}
            /\ ~(ev.e = "content_block_delta" /\ known)
            /\ ~(ev.e = "content_block_stop" /\ known)
  <2>1. y = Yield(s, <<>>)
    BY <1>13 DEF MessagesToResponses
  <2> QED BY <2>1, SilentOutward
<1> QED BY <1>6, <1>7, <1>8, <1>9, <1>10, <1>11, <1>12, <1>13

(***************************************************************************)
(* The invariants                                                          *)
(***************************************************************************)

\* What is known of the types beyond TypeOK: messages are proper, and only frames hold the
\* mark; what was said of the last block is on record.
SaidInv ==
  /\ up.blocks = Len(said.items)
  /\ up.pc = "block" =>
       up.blocks # 0 /\ up.kind \in BlockKind /\ (up.kind = "tool" => said.tools # <<>>)
PumpRecord ==
  [pc : {"read", "convert", "send", "closing", "failover", "ended"},
   chunk : Seq(Msg), mid : Seq(Msg), error : BOOLEAN, committed : BOOLEAN, failed : BOOLEAN,
   waited : BOOLEAN, usage : Usage, capture : Capture]
TypeInv ==
  /\ route \in Routes /\ up \in Upstream /\ said \in Content /\ wire \in Seq(Msg)
  /\ inward \in Inward /\ IsOutward(outward)
  /\ pump \in PumpRecord
  /\ frames \in Seq(Frame) /\ heard \in Client /\ log \in Log /\ SaidInv

Finishes(ev) == ev.e \in EndName
Lost == ~up.complete /\ up.pc \in {"failed", "gone"}

\* What is under way tells of an end only if there was one, and of an error only if there
\* will be none.
Tellable ==
  {ev \in Msg : /\ Finishes(ev) => up.complete
                /\ IsError(ev) => Lost
                /\ ev.e = "[DONE]" => In("chat")}
ForMessages ==
  {ev \in Msg : (Finishes(ev) => ev.e = "message_stop") /\ (IsError(ev) => pump.error)}
FlowInv ==
  /\ up.complete => up.pc \in {"over", "gone"}
  /\ wire \in Seq(Tellable) /\ pump.chunk \in Seq(Tellable) /\ pump.mid \in Seq(Tellable)
  /\ pump.error => Lost
  /\ Passthrough => pump.mid = <<>>
  /\ route.client = "messages" /\ ~Passthrough => pump.mid \in Seq(ForMessages)

ErrorBefore(s, k) == \E j \in DOMAIN s : j < k /\ IsError(s[j])
EndBefore(s, k) == \E j \in DOMAIN s : j < k /\ Finishes(s[j])
Marked(s) == \E k \in DOMAIN s : s[k] = Done

\* A batch: an end is followed by the mark, a mark follows an end or an error, and an error
\* is there only if the task knows of it.  h is what the client has made of the frames before.
Orderly(s, failing, complete, chat, h) ==
  \A k \in DOMAIN s :
    /\ Finishes(s[k]) => complete /\ \E j \in DOMAIN s : j > k /\ s[j] = Done
    /\ s[k] = Done => complete \/ h.end = "error" \/ ErrorBefore(s, k)
    /\ IsError(s[k]) => failing
    /\ s[k] = Done /\ ~failing /\ ~chat =>
         EndBefore(s, k) \/ h.end = "over" \/ h.confused

\* What is left to send of a batch after which the request is marked as failed.
TellsOfError(s, h) ==
  /\ Marked(s)
  /\ \A k \in DOMAIN s :
       ~Finishes(s[k]) /\ (s[k] = Done => h.end = "error" \/ ErrorBefore(s, k))

ForChat == route.client = "chat"
BatchInv ==
  /\ pump.pc = "convert" => Orderly(frames, pump.error, up.complete, ForChat, heard)
  /\ pump.pc = "send" => Orderly(frames, pump.failed, up.complete, ForChat, heard)
  /\ pump.pc \in {"read", "closing", "ended", "failover"} => frames = <<>>

\* The task and the client.
TellInv ==
  /\ heard.end = "over" =>
       /\ up.complete /\ ~pump.failed /\ pump.pc \in {"send", "closing", "ended"}
       /\ pump.pc = "send" => Marked(frames)
  /\ heard.end = "error" => pump.failed
  /\ pump.failed =>
       /\ pump.pc \in {"send", "closing", "ended"}
       /\ pump.pc = "send" => TellsOfError(frames, heard)
  /\ heard.closed =>
       /\ pump.pc \in {"closing", "ended"}
       /\ IF pump.failed THEN heard.end = "error" ELSE heard.end = "over" \/ heard.confused
  /\ log.status # 0 =>
       pump.pc = "ended" /\ log.status = IF pump.failed THEN 502 ELSE 200

IInv == FlowInv /\ BatchInv /\ TellInv

(***************************************************************************)
(* Types                                                                   *)
(***************************************************************************)

LEMMA MsgIsEvent ==
  /\ Msg \subseteq Event /\ Frame \subseteq Event /\ Msg \subseteq Frame
  /\ Done \in Frame /\ Done \in Event /\ Done.e = "Done" /\ Done \notin Msg
<1>1. Done \in Event /\ Done.e = "Done"
  BY BareIsEvent DEF Done, EventName
<1>2. Done \notin Msg
  BY <1>1 DEF Msg, Proper
<1> QED BY <1>1, <1>2 DEF Msg, Frame

LEMMA TypeInvImpliesTypeOK == TypeInv => TypeOK
<1> SUFFICES ASSUME TypeInv PROVE TypeOK
  OBVIOUS
<1>1. wire \in Seq(Event) /\ pump.chunk \in Seq(Event) /\ pump.mid \in Seq(Event)
      /\ frames \in Seq(Event)
  BY MsgIsEvent, SeqMonotonic DEF TypeInv, PumpRecord
<1>2. pump \in Pump
  BY <1>1 DEF TypeInv, Pump, PumpRecord
<1> QED BY <1>1, <1>2 DEF TypeInv, TypeOK

LEMMA RouteIsRoute ==
  ASSUME TypeInv
  PROVE  /\ route.up \in Dialect /\ route.client \in Dialect /\ route.include \in BOOLEAN
         /\ route.bill \in Usage /\ None \notin Nat
BY StreamConstants DEF TypeInv, Route

Changed(s, n, e) == [s EXCEPT ![n] = e]

LEMMA ElementChanged ==
  \A S : \A s \in Seq(S) : \A n, e :
    (n \in DOMAIN s => e \in S) =>
      Changed(s, n, e) \in Seq(S) /\ Len(Changed(s, n, e)) = Len(s)
<1> SUFFICES ASSUME NEW S, NEW s \in Seq(S), NEW n, NEW e, n \in DOMAIN s => e \in S
             PROVE  Changed(s, n, e) \in Seq(S) /\ Len(Changed(s, n, e)) = Len(s)
  OBVIOUS
<1>1. CASE n \in DOMAIN s
  <2>1. n \in 1 .. Len(s)
    BY <1>1
  <2>2. /\ [s EXCEPT ![n] = e] \in Seq(S)
        /\ Len([s EXCEPT ![n] = e]) = Len(s)
    BY <1>1, <2>1, ExceptSeq
  <2> QED BY <2>2 DEF Changed
<1>2. CASE n \notin DOMAIN s
  <2>1. [s EXCEPT ![n] = e] = s
    BY <1>2
  <2> QED BY <2>1 DEF Changed
<1> QED BY <1>1, <1>2

LEMMA MoreIsContent ==
  ASSUME NEW c \in Content, NEW kind \in BlockKind, NEW n \in Nat, NEW frag \in Nat
  PROVE  LET m == More(c, kind, n, frag)
         IN m \in Content /\ m.items = c.items /\ Len(m.tools) = Len(c.tools)
<1> DEFINE m == More(c, kind, n, frag)
<1>1. CASE kind = "text"
  <2>1. Append(c.text, frag) \in Seq(Nat)
    BY AppendProperties DEF Content
  <2> QED BY <1>1, <2>1 DEF More, Content
<1>2. CASE kind = "thinking"
  <2>1. Append(c.thinking, frag) \in Seq(Nat)
    BY AppendProperties DEF Content
  <2> QED BY <1>2, <2>1 DEF More, Content
<1>3. CASE kind = "tool"
  <2> DEFINE e == [c.tools[n] EXCEPT !.text = Append(@, frag)]
  <2>1. n \in DOMAIN c.tools => e \in ToolCalled
    <3> SUFFICES ASSUME n \in DOMAIN c.tools PROVE e \in ToolCalled
      OBVIOUS
    <3>1. c.tools[n] \in ToolCalled
      BY DEF Content
    <3>2. Append(c.tools[n].text, frag) \in Seq(Nat)
      BY <3>1, AppendProperties DEF ToolCalled
    <3> QED BY <3>1, <3>2 DEF ToolCalled
  <2>2. m = [c EXCEPT !.tools = [@ EXCEPT ![n] = e]]
    BY <1>3 DEF More
  <2>3. c.tools \in Seq(ToolCalled)
    BY DEF Content
  <2> HIDE DEF e
  <2>4. Changed(c.tools, n, e) \in Seq(ToolCalled) /\ Len(Changed(c.tools, n, e)) = Len(c.tools)
    BY <2>1, <2>3, ElementChanged
  <2>5. m = [c EXCEPT !.tools = Changed(c.tools, n, e)]
    BY <2>2 DEF Changed
  <2> QED BY <2>4, <2>5 DEF Content
<1> QED BY <1>1, <1>2, <1>3 DEF BlockKind

LEMMA MoreOfLastIsContent ==
  ASSUME NEW c \in Content, NEW kind \in BlockKind, NEW frag \in Nat
  PROVE  LET m == MoreOfLast(c, kind, frag)
         IN m \in Content /\ Len(m.items) = Len(c.items) /\ Len(m.tools) = Len(c.tools)
<1> DEFINE b == More(c, kind, Len(c.tools), frag)
           n == Len(c.items)
           e == [b.items[n] EXCEPT !.text = Append(@, frag)]
           m == MoreOfLast(c, kind, frag)
<1>1. Len(c.tools) \in Nat
  BY DEF Content
<1>2. b \in Content /\ b.items = c.items /\ Len(b.tools) = Len(c.tools)
  BY <1>1, MoreIsContent
<1> HIDE DEF b
<1>3. n \in DOMAIN b.items => e \in Item
  <2> SUFFICES ASSUME n \in DOMAIN b.items PROVE e \in Item
    OBVIOUS
  <2>1. b.items[n] \in Item
    BY <1>2 DEF Content
  <2>2. Append(b.items[n].text, frag) \in Seq(Nat)
    BY <2>1, AppendProperties DEF Item
  <2> QED BY <2>1, <2>2 DEF Item
<1>4. m = [b EXCEPT !.items = [@ EXCEPT ![n] = e]]
  BY DEF MoreOfLast, b
<1>5. b.items \in Seq(Item)
  BY <1>2 DEF Content
<1> HIDE DEF e, n
<1>6. Changed(b.items, n, e) \in Seq(Item) /\ Len(Changed(b.items, n, e)) = Len(b.items)
  BY <1>3, <1>5, ElementChanged
<1>7. m = [b EXCEPT !.items = Changed(b.items, n, e)]
  BY <1>4 DEF Changed
<1> HIDE DEF m
<1>8. m \in Content /\ Len(m.items) = Len(c.items) /\ Len(m.tools) = Len(c.tools)
  BY <1>2, <1>6, <1>7 DEF Content
<1> QED BY <1>8 DEF m

LEMMA BegunIsContent ==
  ASSUME NEW c \in Content, NEW kind \in BlockKind, NEW id \in Nat
  PROVE  LET m == Begun(c, kind, id)
         IN m \in Content /\ Len(m.items) = Len(c.items) + 1 /\ (kind = "tool" => m.tools # <<>>)
<1>1. [kind |-> kind, id |-> id, text |-> <<>>] \in Item /\ [id |-> id, text |-> <<>>] \in ToolCalled
  BY TuplesAreSeqs DEF Item, ToolCalled
<1>2. c.items \in Seq(Item) /\ c.tools \in Seq(ToolCalled)
  BY DEF Content
<1>3. LET a == Append(c.items, [kind |-> kind, id |-> id, text |-> <<>>])
      IN a \in Seq(Item) /\ Len(a) = Len(c.items) + 1
  BY <1>1, <1>2, AppendProperties
<1>4. LET a == Append(c.tools, [id |-> id, text |-> <<>>])
      IN a \in Seq(ToolCalled) /\ a # <<>>
  BY <1>1, <1>2, AppendProperties
<1> QED BY <1>2, <1>3, <1>4 DEF Begun, Content

-----------------------------------------------------------------------------
(* The upstream *)

LEMMA TypeInvParts ==
  ASSUME TypeInv
  PROVE  /\ up \in Upstream /\ said \in Content /\ wire \in Seq(Msg)
         /\ up.blocks \in Nat /\ up.pieces \in Nat /\ up.blocks = Len(said.items)
         /\ Len(said.tools) \in Nat /\ bill \in Usage
         /\ said.items \in Seq(Item) /\ said.tools \in Seq(ToolCalled)
BY RouteIsRoute DEF TypeInv, Upstream, Content, SaidInv, bill

\* A step of the upstream: only what it says has to be looked at.
LEMMA SpeaksTyped ==
  ASSUME TypeInv, NEW evs, Speaks(evs), evs \in Seq(Msg), up' \in Upstream, said' \in Content,
         SaidInv'
  PROVE  TypeInv'
<1>1. wire' \in Seq(Msg)
  BY ConcatIsSeq, TypeInvParts DEF Speaks
<1> QED BY <1>1 DEF TypeInv, Speaks

LEMMA ForDialectIsOneOf ==
  ASSUME TypeInv, NEW S, NEW a, NEW b, NEW c, a \in S, b \in S, c \in S
  PROVE  ForDialect(a, b, c) \in S
<1>1. route.up \in {"chat", "messages", "responses"}
  BY RouteIsRoute DEF Dialect
<1> QED BY <1>1 DEF ForDialect, In

\* All but the end and the error are events of no consequence.
Speaking == up.pc \in {"start", "open", "block"}
SaysCalmly == Speaking /\ up'.complete = up.complete /\ \E evs \in Seq(Calm) : Speaks(evs)
LEMMA SpeaksCalmly ==
  ASSUME TypeInv, NEW evs, Speaks(evs), evs \in Seq(Calm), up' \in Upstream, said' \in Content,
         SaidInv', up'.complete = up.complete, Speaking
  PROVE  TypeInv' /\ SaysCalmly
<1>1. evs \in Seq(Msg)
  BY CalmIsMsg
<1>2. TypeInv'
  BY <1>1, SpeaksTyped
<1> QED BY <1>2 DEF SaysCalmly

LEMMA ChunksAreCalm ==
  ASSUME NEW i \in Nat, NEW id \in Nat, NEW frag \in Nat, NEW kind \in EventKind,
         NEW usage \in Usage, NEW why \in Reason
  PROVE  /\ TextChunk(kind, frag) \in Calm /\ ToolChunk(i, id, frag) \in Calm
         /\ FinishChunk(why) \in Calm /\ UsageChunk(usage) \in Calm
<1>1. /\ TextChunk(kind, frag) \in Msg /\ TextChunk(kind, frag).e = "chunk"
      /\ ToolChunk(i, id, frag) \in Msg /\ ToolChunk(i, id, frag).e = "chunk"
      /\ FinishChunk(why) \in Msg /\ FinishChunk(why).e = "chunk"
      /\ UsageChunk(usage) \in Msg /\ UsageChunk(usage).e = "chunk"
  BY Chunks
<1> QED BY <1>1 DEF Calm, EndName, ErrorName

LEMMA BeginTyped == TypeInv /\ Begin => TypeInv' /\ SaysCalmly
<1> SUFFICES ASSUME TypeInv, Begin PROVE TypeInv' /\ SaysCalmly
  OBVIOUS
<1> DEFINE chat == <<Chunk("role")>>
           messages == <<MessageStart(PromptOf)>>
           responses == <<Bare("response.created"), Bare("response.in_progress")>>
<1>1. chat \in Seq(Calm)
  <2>1. Chunk("role") \in Calm
    BY ChunkIsMsg DEF EventKind, Calm, EndName, ErrorName
  <2> QED BY <2>1, TuplesAreSeqs
<1>2. PromptOf \in Usage
  BY TypeInvParts DEF PromptOf, Usage
<1>3. messages \in Seq(Calm)
  <2>1. 0 \in Nat /\ "text" \in BlockKind /\ "none" \in Reason
    BY DEF BlockKind, Reason
  <2>2. MessageStart(PromptOf) \in Calm
    BY <1>2, <2>1, BlocksAreCalm
  <2> QED BY <2>2, TuplesAreSeqs
<1>4. responses \in Seq(Calm)
  BY BareIsCalm, TuplesAreSeqs
<1> HIDE DEF chat, messages, responses
<1>5. ForDialect(chat, messages, responses) \in Seq(Calm)
  BY <1>1, <1>3, <1>4, ForDialectIsOneOf
<1>6. Speaks(ForDialect(chat, messages, responses))
  BY DEF Begin, chat, messages, responses
<1>7. up' \in Upstream /\ said' \in Content /\ SaidInv' /\ up'.complete = up.complete /\ Speaking
  BY TypeInvParts DEF Begin, Upstream, SaidInv, In, Speaking
<1> QED BY <1>5, <1>6, <1>7, SpeaksCalmly

LEMMA OpenTyped == ASSUME NEW kind \in BlockKind PROVE TypeInv /\ Open(kind) => TypeInv' /\ SaysCalmly
<1> SUFFICES ASSUME TypeInv, Open(kind) PROVE TypeInv' /\ SaysCalmly
  OBVIOUS
<1> DEFINE id == IF kind = "tool" THEN Len(said.tools) + 1 ELSE 0
           chat == IF kind = "tool" THEN <<ToolChunk(Len(said.tools), id, 0)>> ELSE <<>>
           messages == <<BlockStart(up.blocks, kind, id)>>
           responses == <<Added(up.blocks, kind, id)>>
<1>0. /\ id \in Nat /\ Len(said.tools) \in Nat /\ up.blocks \in Nat /\ 0 \in Nat
      /\ kind \in EventKind /\ NoUsage \in Usage /\ "none" \in Reason
      /\ <<>> \in Seq(Item) /\ FALSE \in BOOLEAN
  BY TypeInvParts, NoUsageIsUsage, TuplesAreSeqs DEF EventKind, Reason
<1>1. up' = [up EXCEPT !.pc = "block", !.kind = kind, !.blocks = @ + 1]
      /\ said' = Begun(said, kind, id) /\ Speaks(ForDialect(chat, messages, responses))
  BY DEF Open
<1> HIDE DEF id
<1>2. ToolChunk(Len(said.tools), id, 0) \in Calm /\ BlockStart(up.blocks, kind, id) \in Calm
      /\ Added(up.blocks, kind, id) \in Calm
  BY <1>0, ChunksAreCalm, BlocksAreCalm, ItemsAreCalm
<1>3. chat \in Seq(Calm) /\ messages \in Seq(Calm) /\ responses \in Seq(Calm)
  BY <1>2, TuplesAreSeqs
<1>4. said' \in Content /\ Len(said'.items) = Len(said.items) + 1 /\ (kind = "tool" => said'.tools # <<>>)
  BY <1>0, <1>1, TypeInvParts, BegunIsContent
<1>5. /\ up' \in Upstream /\ up'.blocks = up.blocks + 1 /\ up'.kind = kind /\ up.blocks + 1 # 0
      /\ up'.complete = up.complete /\ Speaking
  <2>1. up \in Upstream /\ up.blocks + 1 \in Nat /\ up.blocks + 1 # 0
    BY TypeInvParts
  <2> QED BY <1>1, <2>1 DEF Upstream, Open, Speaking
<1>6. SaidInv'
  BY <1>4, <1>5, TypeInvParts DEF SaidInv
<1> HIDE DEF chat, messages, responses
<1>7. ForDialect(chat, messages, responses) \in Seq(Calm)
  BY <1>3, ForDialectIsOneOf
<1> QED BY <1>1, <1>4, <1>5, <1>6, <1>7, SpeaksCalmly

LEMMA PieceTyped == TypeInv /\ Piece => TypeInv' /\ SaysCalmly
<1> SUFFICES ASSUME TypeInv, Piece PROVE TypeInv' /\ SaysCalmly
  OBVIOUS
<1> DEFINE n == up.pieces + 1
           i == up.blocks - 1
           chat == IF up.kind = "tool" THEN <<ToolChunk(Len(said.tools) - 1, 0, n)>>
                   ELSE <<TextChunk(up.kind, n)>>
           messages == <<BlockDelta(i, up.kind, n)>>
           responses == <<ItemDelta(i, up.kind, n)>>
<1>0. /\ n \in Nat /\ i \in Nat /\ up.kind \in BlockKind /\ up.pc = "block"
      /\ up.kind = "tool" => said.tools # <<>> /\ Len(said.tools) - 1 \in Nat
  BY TypeInvParts DEF Piece, TypeInv, SaidInv
<1>1. /\ 0 \in Nat /\ up.kind \in EventKind /\ NoUsage \in Usage /\ "none" \in Reason
      /\ <<>> \in Seq(Item) /\ FALSE \in BOOLEAN
  BY <1>0, NoUsageIsUsage, TuplesAreSeqs DEF EventKind, Reason
<1>2. up' = [up EXCEPT !.pieces = n] /\ said' = MoreOfLast(said, up.kind, n)
      /\ Speaks(ForDialect(chat, messages, responses))
  BY DEF Piece
<1> HIDE DEF n, i
<1>3. TextChunk(up.kind, n) \in Calm /\ BlockDelta(i, up.kind, n) \in Calm
      /\ ItemDelta(i, up.kind, n) \in Calm
  BY <1>0, <1>1, ChunksAreCalm, BlocksAreCalm, ItemsAreCalm
<1>4. up.kind = "tool" => ToolChunk(Len(said.tools) - 1, 0, n) \in Calm
  BY <1>0, <1>1, ChunksAreCalm
<1>5. chat \in Seq(Calm) /\ messages \in Seq(Calm) /\ responses \in Seq(Calm)
  BY <1>3, <1>4, TuplesAreSeqs
<1>6. said' \in Content /\ Len(said'.items) = Len(said.items) /\ Len(said'.tools) = Len(said.tools)
  BY <1>0, <1>2, TypeInvParts, MoreOfLastIsContent
<1>7. up.kind = "tool" => said'.tools # <<>>
  <2>1. up.kind = "tool" => Len(said.tools) # 0
    BY <1>0, TypeInvParts, EmptySeq
  <2> QED BY <1>6, <2>1
<1>8. /\ up' \in Upstream /\ up'.blocks = up.blocks /\ up'.kind = up.kind
      /\ up'.complete = up.complete /\ Speaking
  BY <1>0, <1>2, TypeInvParts DEF Upstream, Speaking
<1>9. SaidInv'
  BY <1>0, <1>6, <1>7, <1>8, TypeInvParts DEF SaidInv, TypeInv
<1> HIDE DEF chat, messages, responses
<1>10. ForDialect(chat, messages, responses) \in Seq(Calm)
  BY <1>5, ForDialectIsOneOf
<1> QED BY <1>2, <1>6, <1>8, <1>9, <1>10, SpeaksCalmly

LEMMA ShutTyped == ASSUME NEW signed \in BOOLEAN PROVE TypeInv /\ Shut(signed) => TypeInv' /\ SaysCalmly
<1> SUFFICES ASSUME TypeInv, Shut(signed) PROVE TypeInv' /\ SaysCalmly
  OBVIOUS
<1> DEFINE last == said.items[up.blocks]
           i == up.blocks - 1
           part == IF last.kind = "thinking" THEN <<>> ELSE <<PartDone(i, last.kind)>>
           mark == IF signed THEN <<BlockDelta(i, "signature", 0)>> ELSE <<>>
           messages == mark \o <<BlockStop(i)>>
           responses == part \o <<ItemDone(i, last.kind, last.id, signed)>>
<1>0. up.blocks # 0 /\ i \in Nat /\ last \in Item
  BY TypeInvParts DEF Shut, TypeInv, SaidInv
<1>1. last.kind \in BlockKind /\ last.id \in Nat /\ last.text \in Seq(Nat)
  BY <1>0 DEF Item
<1>2. /\ 0 \in Nat /\ NoUsage \in Usage /\ "none" \in Reason /\ <<>> \in Seq(Item)
  BY NoUsageIsUsage, TuplesAreSeqs DEF Reason
<1>3. up' = [up EXCEPT !.pc = "open", !.signed = IF signed THEN Append(@, last.text) ELSE @]
      /\ Speaks(ForDialect(<<>>, messages, responses)) /\ said' = said
  BY DEF Shut
<1> HIDE DEF last, i
<1>4. BlockDelta(i, "signature", 0) \in Calm /\ BlockStop(i) \in Calm
      /\ PartDone(i, last.kind) \in Calm /\ ItemDone(i, last.kind, last.id, signed) \in Calm
  BY <1>0, <1>1, <1>2, BlocksAreCalm, ItemsAreCalm
<1>5. part \in Seq(Calm) /\ mark \in Seq(Calm) /\ <<BlockStop(i)>> \in Seq(Calm)
      /\ <<ItemDone(i, last.kind, last.id, signed)>> \in Seq(Calm) /\ <<>> \in Seq(Calm)
  BY <1>4, TuplesAreSeqs
<1> HIDE DEF part, mark
<1>6. messages \in Seq(Calm) /\ responses \in Seq(Calm)
  BY <1>5, ConcatIsSeq
<1>7. /\ up' \in Upstream /\ up'.blocks = up.blocks /\ up'.pc = "open"
      /\ up'.complete = up.complete /\ Speaking
  <2>1. up.signed \in Seq(Seq(Nat))
    BY TypeInvParts DEF Upstream
  <2>2. Append(up.signed, last.text) \in Seq(Seq(Nat))
    BY <1>1, <2>1, AppendProperties
  <2> QED BY <1>3, <2>1, <2>2, TypeInvParts DEF Upstream, Shut, Speaking
<1>8. SaidInv' /\ said' \in Content
  BY <1>3, <1>7, TypeInvParts DEF SaidInv
<1> HIDE DEF messages, responses
<1>9. ForDialect(<<>>, messages, responses) \in Seq(Calm)
  BY <1>5, <1>6, ForDialectIsOneOf
<1> QED BY <1>3, <1>7, <1>8, <1>9, SpeaksCalmly

LEMMA EndTyped ==
  ASSUME NEW why \in Reason, NEW whole \in BOOLEAN
  PROVE  TypeInv /\ End(why, whole) => TypeInv'
<1> SUFFICES ASSUME TypeInv, End(why, whole) PROVE TypeInv'
  OBVIOUS
<1> DEFINE finish == IF why = "none" THEN <<>> ELSE <<FinishChunk(why)>>
           usage == IF bill = NoUsage THEN <<>> ELSE <<UsageChunk(bill)>>
           chat == finish \o usage \o <<ChatDone>>
           messages == <<MessageDelta(why, OutputOf(whole)), MessageStop>>
           responses == <<Completed(said.items, bill)>>
<1>0. /\ 0 \in Nat /\ "text" \in BlockKind /\ "text" \in EventKind /\ FALSE \in BOOLEAN
      /\ bill \in Usage /\ said.items \in Seq(Item)
  BY TypeInvParts DEF BlockKind, EventKind
<1>1. OutputOf(whole) \in Usage
  BY <1>0 DEF OutputOf, Usage
<1>2. FinishChunk(why) \in Msg /\ UsageChunk(bill) \in Msg /\ ChatDone \in Msg
  BY <1>0, Chunks
<1>3. MessageDelta(why, OutputOf(whole)) \in Msg /\ MessageStop \in Msg
  BY <1>0, <1>1, Messages
<1>4. Completed(said.items, bill) \in Msg
  BY <1>0, Items
<1>5. finish \in Seq(Msg) /\ usage \in Seq(Msg) /\ <<ChatDone>> \in Seq(Msg)
      /\ messages \in Seq(Msg) /\ responses \in Seq(Msg)
  BY <1>2, <1>3, <1>4, TuplesAreSeqs
<1>6. /\ up' = [up EXCEPT !.pc = "over", !.why = why, !.complete = TRUE, !.billed = TRUE]
      /\ Speaks(ForDialect(chat, messages, responses)) /\ said' = said
  BY DEF End
<1> HIDE DEF finish, usage, messages, responses
<1>7. chat \in Seq(Msg)
  BY <1>5, ConcatIsSeq
<1>8. up' \in Upstream /\ said' \in Content /\ SaidInv'
  BY <1>6, TypeInvParts DEF Upstream, SaidInv
<1> HIDE DEF chat
<1>9. ForDialect(chat, messages, responses) \in Seq(Msg)
  BY <1>5, <1>7, ForDialectIsOneOf
<1> QED BY <1>6, <1>8, <1>9, SpeaksTyped

LEMMA FailTyped == TypeInv /\ Fail => TypeInv'
<1> SUFFICES ASSUME TypeInv, Fail PROVE TypeInv'
  OBVIOUS
<1>1. PICK done \in BOOLEAN, failed \in BOOLEAN :
        Speaks(ForDialect(<<Bare("error")>> \o IF done THEN <<ChatDone>> ELSE <<>>,
                          <<Bare("error")>>,
                          <<Bare(IF failed THEN "response.failed" ELSE "error")>>))
  BY DEF Fail
<1> DEFINE more == IF done THEN <<ChatDone>> ELSE <<>>
           chat == <<Bare("error")>> \o more
           messages == <<Bare("error")>>
           responses == <<Bare(IF failed THEN "response.failed" ELSE "error")>>
<1>2. ChatDone \in Msg /\ Bare("error") \in Msg /\ Bare("response.failed") \in Msg
  BY BareIsMsg DEF EventName, ChatDone
<1>3. more \in Seq(Msg) /\ messages \in Seq(Msg) /\ responses \in Seq(Msg)
  BY <1>2, TuplesAreSeqs
<1>4. Speaks(ForDialect(chat, messages, responses))
  BY <1>1
<1> HIDE DEF more, messages, responses
<1>5. chat \in Seq(Msg)
  BY <1>2, <1>3, TuplesAreSeqs, ConcatIsSeq
<1>6. up' \in Upstream /\ said' \in Content /\ SaidInv'
  BY TypeInvParts DEF Fail, Upstream, SaidInv
<1> HIDE DEF chat
<1>7. ForDialect(chat, messages, responses) \in Seq(Msg)
  BY <1>3, <1>5, ForDialectIsOneOf
<1> QED BY <1>4, <1>6, <1>7, SpeaksTyped

LEMMA CloseTyped == TypeInv /\ Close => TypeInv'
<1> SUFFICES ASSUME TypeInv, Close PROVE TypeInv'
  OBVIOUS
<1>1. wire' \in Seq(Msg)
  BY TypeInvParts, TuplesAreSeqs DEF Close
<1>2. up' \in Upstream /\ SaidInv'
  BY TypeInvParts DEF Close, Upstream, SaidInv
<1> QED BY <1>1, <1>2 DEF Close, TypeInv

-----------------------------------------------------------------------------
(* The task *)

LEMMA TaskTyped ==
  ASSUME TypeInv, route' = route, up' = up, said' = said, wire' \in Seq(Msg),
         inward' \in Inward, IsOutward(outward'), pump' \in PumpRecord,
         frames' \in Seq(Frame), heard' \in Client, log' \in Log
  PROVE  TypeInv'
<1>1. IsOutward(outward)'
  BY DEF IsOutward
<1>2. SaidInv'
  BY DEF TypeInv, SaidInv
<1> QED BY <1>1, <1>2 DEF TypeInv

LEMMA TaskParts ==
  ASSUME TypeInv
  PROVE  /\ pump \in PumpRecord /\ wire \in Seq(Msg) /\ frames \in Seq(Frame)
         /\ pump.chunk \in Seq(Msg) /\ pump.mid \in Seq(Msg)
         /\ inward \in Inward /\ IsOutward(outward) /\ heard \in Client /\ log \in Log
         /\ outward.usage \in Usage
BY DEF TypeInv, PumpRecord, IsOutward

LEMMA CollectTyped ==
  ASSUME TypeInv, NEW y, TypedYield(y)
  PROVE  LET c == Collect(y)
         IN /\ c \in PumpRecord /\ c.pc = pump.pc /\ c.failed = pump.failed
            /\ c.chunk = pump.chunk /\ c.mid = pump.mid
            /\ c.error = (pump.error \/ y.error)
<1> DEFINE c == Collect(y)
<1>1. c = [pump EXCEPT !.error = @ \/ y.error,
                       !.usage = IF y.usage = NoUsage THEN @ ELSE y.usage,
                       !.capture = IF y.capture = NoCapture THEN @ ELSE y.capture]
  BY DEF Collect
<1>2. pump \in PumpRecord /\ y.error \in BOOLEAN /\ y.usage \in Usage /\ y.capture \in Capture
  BY TaskParts DEF TypedYield
<1>3. (pump.error \/ y.error) \in BOOLEAN
  OBVIOUS
<1>4. (IF y.usage = NoUsage THEN pump.usage ELSE y.usage) \in Usage
      /\ (IF y.capture = NoCapture THEN pump.capture ELSE y.capture) \in Capture
  BY <1>2 DEF PumpRecord
<1> HIDE DEF c
<1>5. /\ c \in PumpRecord /\ c.pc = pump.pc /\ c.failed = pump.failed /\ c.chunk = pump.chunk
      /\ c.mid = pump.mid /\ c.error = (pump.error \/ y.error)
  BY <1>1, <1>2, <1>3, <1>4 DEF PumpRecord
<1> QED BY <1>5 DEF c

LEMMA CutIsSeq ==
  \A S : \A s \in Seq(S) : \A n \in 0 .. Len(s) :
    SubSeq(s, 1, n) \in Seq(S) /\ SubSeq(s, n + 1, Len(s)) \in Seq(S)
<1> SUFFICES ASSUME NEW S, NEW s \in Seq(S), NEW n \in 0 .. Len(s)
             PROVE  SubSeq(s, 1, n) \in Seq(S) /\ SubSeq(s, n + 1, Len(s)) \in Seq(S)
  OBVIOUS
<1>1. SubSeq(s, 1, n) \in Seq(S)
  BY SubSeqProperties
<1>2. SubSeq(s, n + 1, Len(s)) \in Seq(S)
  BY SubSeqProperties
<1> QED BY <1>1, <1>2

LEMMA HeadsAndTails ==
  \A S : \A s \in Seq(S) : s # <<>> =>
    /\ Head(s) \in S /\ Tail(s) \in Seq(S) /\ Len(Tail(s)) = Len(s) - 1
    /\ \A k \in 1 .. Len(s) - 1 : Tail(s)[k] = s[k + 1]
<1> SUFFICES ASSUME NEW S, NEW s \in Seq(S), s # <<>>
             PROVE  /\ Head(s) \in S /\ Tail(s) \in Seq(S) /\ Len(Tail(s)) = Len(s) - 1
                    /\ \A k \in 1 .. Len(s) - 1 : Tail(s)[k] = s[k + 1]
  OBVIOUS
<1> QED BY HeadTailProperties

LEMMA ReadTyped == TypeInv /\ Read => TypeInv'
<1> SUFFICES ASSUME TypeInv, Read PROVE TypeInv'
  OBVIOUS
<1>1. PICK n \in 0 .. Len(wire) :
        /\ pump' = [pump EXCEPT !.pc = "convert", !.chunk = SubSeq(wire, 1, n)]
        /\ wire' = SubSeq(wire, n + 1, Len(wire))
  BY DEF Read
<1>2. SubSeq(wire, 1, n) \in Seq(Msg) /\ SubSeq(wire, n + 1, Len(wire)) \in Seq(Msg)
  BY CutIsSeq, TaskParts
<1>3. pump' \in PumpRecord
  BY <1>1, <1>2, TaskParts DEF PumpRecord
<1> QED BY <1>1, <1>2, <1>3, TaskTyped, TaskParts DEF Read, Frozen, upstream

LEMMA TappedIsUsage ==
  ASSUME TypeInv, NEW ev \in Msg
  PROVE  Tapped(ev) \in Usage
<1>1. ev.usage \in Usage /\ outward.usage \in Usage
  BY TaskParts DEF Msg, Event
<1>2. Exclusive(ev.usage) \in Usage
  BY <1>1, ExclusiveIsUsage, RouteIsRoute
<1>3. MergeUsage(outward.usage, ev.usage) \in Usage
  BY <1>1, MergedUsage
<1> QED BY <1>1, <1>2, <1>3 DEF Tapped

LEMMA PassedYields ==
  ASSUME TypeInv, NEW ev \in Msg
  PROVE  LET y == PassedThrough(ev)
         IN /\ IsOutward(y.st) /\ TypedYield(y) /\ y.error = IsError(ev)
            /\ y.out = (IF ev.e = "[DONE]" THEN <<>> ELSE <<ev>>)
                         \o (IF Ends(ev) THEN <<Done>> ELSE <<>>)
            /\ y.out \in Seq(Frame)
<1> DEFINE y == PassedThrough(ev)
           note == [outward EXCEPT !.usage = Tapped(ev)]
           a == IF ev.e = "[DONE]" THEN <<>> ELSE <<ev>>
           b == IF Ends(ev) THEN <<Done>> ELSE <<>>
           usage == IF Ends(ev) THEN note.usage ELSE NoUsage
<1>1. Tapped(ev) \in Usage
  BY TappedIsUsage
<1>2. IsOutward(note) /\ note.usage \in Usage
  BY <1>1, TaskParts DEF IsOutward
<1>3. y = [Yield(note, a \o b) EXCEPT !.error = IsError(ev), !.usage = usage]
  BY DEF PassedThrough
<1>4. usage \in Usage /\ IsError(ev) \in BOOLEAN
  BY <1>2, NoUsageIsUsage DEF IsError
<1>5. a \in Seq(Frame) /\ b \in Seq(Frame)
  BY MsgIsEvent, TuplesAreSeqs
<1> HIDE DEF note, usage, a, b
<1>6. a \o b \in Seq(Frame)
  BY <1>5, ConcatIsSeq
<1>7. /\ y.st = note /\ y.out = a \o b /\ y.error = IsError(ev) /\ y.usage = usage
      /\ y.capture = NoCapture
  BY <1>3 DEF Yield
<1> HIDE DEF y
<1>8. TypedYield(y)
  BY <1>4, <1>7, CapturesNothing DEF TypedYield
<1> QED BY <1>2, <1>6, <1>7, <1>8 DEF y, a, b

LEMMA PassTyped == TypeInv /\ Pass => TypeInv'
<1> SUFFICES ASSUME TypeInv, Pass PROVE TypeInv'
  OBVIOUS
<1> DEFINE ev == Head(pump.chunk)
           y == PassedThrough(ev)
<1>1. ev \in Msg /\ Tail(pump.chunk) \in Seq(Msg)
  BY HeadsAndTails, TaskParts DEF Pass
<1>2. IsOutward(y.st) /\ TypedYield(y) /\ y.out \in Seq(Frame)
  BY <1>1, PassedYields
<1>3. pump' = [Collect(y) EXCEPT !.chunk = Tail(@)] /\ frames' = frames \o y.out /\ outward' = y.st
  BY DEF Pass
<1> HIDE DEF y
<1>4. Collect(y) \in PumpRecord /\ Collect(y).chunk = pump.chunk
  BY <1>2, CollectTyped
<1>5. pump' \in PumpRecord
  BY <1>1, <1>3, <1>4 DEF PumpRecord
<1>6. frames' \in Seq(Frame)
  BY <1>2, <1>3, TaskParts, ConcatIsSeq
<1> QED BY <1>2, <1>3, <1>5, <1>6, TaskTyped, TaskParts DEF Pass, Frozen, upstream

\* What the first stage yields of an event.
FirstStage(ev) ==
  CASE In("chat") -> ChatToMessages(inward, ev)
    [] In("responses") -> ResponsesToMessages(inward, ev)
    [] In("messages") -> Yield(inward, <<ev>>)
SecondStage(ev) ==
  LET end == IF ev.e = "message_stop" THEN <<Done>> ELSE <<>>
  IN CASE route.client = "messages" -> Yield(outward, <<ev>> \o end)
       [] route.client = "chat" -> MessagesToChat(outward, ev, route.include)
       [] route.client = "responses" -> MessagesToResponses(outward, ev)

LEMMA FirstStageYields ==
  ASSUME TypeInv, NEW ev \in Msg
  PROVE  LET y == FirstStage(ev)
         IN /\ y.st \in Inward /\ TypedYield(y) /\ y.out \in Seq(Msg)
            /\ ~In("messages") => Inwarded(y, ev)
            /\ In("messages") => y.out = <<ev>> /\ ~y.error
<1>1. CASE In("chat")
  <2>1. FirstStage(ev) = ChatToMessages(inward, ev)
    BY <1>1 DEF FirstStage, In
  <2>2. Inwarded(ChatToMessages(inward, ev), ev)
    BY ChatToMessagesYields, TaskParts, RouteIsRoute
  <2> QED BY <1>1, <2>1, <2>2 DEF Inwarded, In
<1>2. CASE In("responses")
  <2>1. FirstStage(ev) = ResponsesToMessages(inward, ev)
    BY <1>2 DEF FirstStage, In
  <2>2. Inwarded(ResponsesToMessages(inward, ev), ev)
    BY ResponsesToMessagesYields, TaskParts, RouteIsRoute
  <2> QED BY <1>2, <2>1, <2>2 DEF Inwarded, In
<1>3. CASE In("messages")
  <2>1. FirstStage(ev) = Yield(inward, <<ev>>)
    BY <1>3 DEF FirstStage, In
  <2> DEFINE out == <<ev>>
             y == Yield(inward, out)
  <2>2. out \in Seq(Msg)
    BY TuplesAreSeqs
  <2>3. y.st = inward /\ y.out = out /\ ~y.error /\ TypedYield(y)
    BY YieldIs
  <2>4. inward \in Inward
    BY TaskParts
  <2> QED BY <1>3, <2>1, <2>2, <2>3, <2>4
<1> QED BY <1>1, <1>2, <1>3, RouteIsRoute DEF In, Dialect

LEMMA InwardsTyped == TypeInv /\ Inwards => TypeInv'
<1> SUFFICES ASSUME TypeInv, Inwards PROVE TypeInv'
  OBVIOUS
<1> DEFINE ev == Head(pump.chunk)
           y == FirstStage(ev)
<1>1. ev \in Msg /\ Tail(pump.chunk) \in Seq(Msg)
  BY HeadsAndTails, TaskParts DEF Inwards
<1>2. y.st \in Inward /\ TypedYield(y) /\ y.out \in Seq(Msg)
  BY <1>1, FirstStageYields
<1>3. pump' = [Collect(y) EXCEPT !.chunk = Tail(@), !.mid = y.out] /\ inward' = y.st
  BY DEF Inwards, FirstStage
<1> HIDE DEF y
<1>4. Collect(y) \in PumpRecord /\ Collect(y).chunk = pump.chunk
  BY <1>2, CollectTyped
<1>5. pump' \in PumpRecord
  BY <1>1, <1>2, <1>3, <1>4 DEF PumpRecord
<1> QED BY <1>2, <1>3, <1>5, TaskTyped, TaskParts DEF Inwards, Frozen, upstream

\* The frames by what the event was; a client of messages gets the event itself.
LEMMA SecondStageYields ==
  ASSUME TypeInv, NEW ev \in Msg
  PROVE  LET y == SecondStage(ev)
         IN /\ IsOutward(y.st) /\ TypedYield(y)
            /\ route.client = "messages" =>
                 ~y.error /\ y.out = <<ev>> \o IF ev.e = "message_stop" THEN <<Done>> ELSE <<>>
            /\ route.client # "messages" => Outwarded(y, ev)
            /\ route.client = "chat" /\ ev \in Ending =>
                 y.out = <<>> \/ \E x \in Seq(Calm) : y.out = x \o <<Done>>
            /\ route.client = "responses" /\ ev \in Ending =>
                 y.out = <<>> \/ \E c \in Ending : y.out = <<c, Done>>
<1> DEFINE end == IF ev.e = "message_stop" THEN <<Done>> ELSE <<>>
           out == <<ev>> \o end
<1>1. CASE route.client = "messages"
  <2>1. SecondStage(ev) = Yield(outward, out)
    BY <1>1 DEF SecondStage
  <2> HIDE DEF out
  <2>2. LET y == Yield(outward, out)
        IN IsOutward(y.st) /\ TypedYield(y) /\ ~y.error /\ y.out = out
    BY YieldIs, TaskParts
  <2> QED BY <1>1, <2>1, <2>2 DEF out
<1>2. CASE route.client = "chat"
  <2>1. SecondStage(ev) = MessagesToChat(outward, ev, route.include)
    BY <1>2 DEF SecondStage
  <2>2. LET y == MessagesToChat(outward, ev, route.include)
        IN /\ Outwarded(y, ev)
           /\ ev \in Ending => y.out = <<>> \/ \E x \in Seq(Calm) : y.out = x \o <<Done>>
    BY MessagesToChatYields, TaskParts, RouteIsRoute
  <2> QED BY <1>2, <2>1, <2>2 DEF Outwarded
<1>3. CASE route.client = "responses"
  <2>1. SecondStage(ev) = MessagesToResponses(outward, ev)
    BY <1>3 DEF SecondStage
  <2>2. LET y == MessagesToResponses(outward, ev)
        IN /\ Outwarded(y, ev)
           /\ ev \in Ending => y.out = <<>> \/ \E c \in Ending : y.out = <<c, Done>>
    BY MessagesToResponsesYields, TaskParts, RouteIsRoute
  <2> QED BY <1>3, <2>1, <2>2 DEF Outwarded
<1> QED BY <1>1, <1>2, <1>3, RouteIsRoute DEF Dialect

LEMMA SecondStageFrames ==
  ASSUME TypeInv, NEW ev \in Msg
  PROVE  SecondStage(ev).out \in Seq(Frame)
<1> DEFINE y == SecondStage(ev)
           end == IF ev.e = "message_stop" THEN <<Done>> ELSE <<>>
<1>1. /\ route.client = "messages" => y.out = <<ev>> \o end
      /\ route.client # "messages" => Outwarded(y, ev)
      /\ route.client = "chat" /\ ev \in Ending =>
           y.out = <<>> \/ \E x \in Seq(Calm) : y.out = x \o <<Done>>
      /\ route.client = "responses" /\ ev \in Ending =>
           y.out = <<>> \/ \E c \in Ending : y.out = <<c, Done>>
  BY SecondStageYields
<1> HIDE DEF y
<1> SUFFICES y.out \in Seq(Frame)
  BY DEF y
<1>2. <<ev>> \in Seq(Frame) /\ end \in Seq(Frame) /\ <<Done>> \in Seq(Frame) /\ <<>> \in Seq(Frame)
  BY MsgIsEvent, TuplesAreSeqs
<1>3. \A x \in Seq(Calm) : x \in Seq(Frame)
  BY CalmIsMsg, MsgIsEvent, SeqMonotonic
<1>4. \A c \in Ending : <<c, Done>> \in Seq(Frame)
  BY MsgIsEvent, TuplesAreSeqs DEF Ending
<1>5. ev \in Calm \cup Ending \cup Failing
  BY DEF Calm, Ending, Failing
<1>6. CASE route.client = "messages"
  BY <1>1, <1>2, <1>6, ConcatIsSeq
<1>7. CASE route.client # "messages" /\ ev \in Calm \cup Failing
  BY <1>1, <1>2, <1>3, <1>7 DEF Outwarded
<1>8. CASE route.client = "chat" /\ ev \in Ending
  <2>1. CASE y.out = <<>>
    BY <1>2, <2>1
  <2>2. CASE y.out # <<>>
    <3>1. PICK x \in Seq(Calm) : y.out = x \o <<Done>>
      BY <1>1, <1>8, <2>2
    <3> QED BY <1>2, <1>3, <3>1, ConcatIsSeq
  <2> QED BY <2>1, <2>2
<1>9. CASE route.client = "responses" /\ ev \in Ending
  BY <1>1, <1>2, <1>4, <1>9
<1>10. route.client \in {"chat", "messages", "responses"}
  BY RouteIsRoute DEF Dialect
<1> QED BY <1>5, <1>6, <1>7, <1>8, <1>9, <1>10

LEMMA OutwardsTyped == TypeInv /\ Outwards => TypeInv'
<1> SUFFICES ASSUME TypeInv, Outwards PROVE TypeInv'
  OBVIOUS
<1> DEFINE ev == Head(pump.mid)
           y == SecondStage(ev)
<1>1. ev \in Msg /\ Tail(pump.mid) \in Seq(Msg)
  BY HeadsAndTails, TaskParts DEF Outwards
<1>2. IsOutward(y.st) /\ TypedYield(y) /\ y.out \in Seq(Frame)
  BY <1>1, SecondStageYields, SecondStageFrames
<1>3. pump' = [Collect(y) EXCEPT !.mid = Tail(@)] /\ frames' = frames \o y.out /\ outward' = y.st
  BY DEF Outwards, SecondStage
<1> HIDE DEF y
<1>4. Collect(y) \in PumpRecord /\ Collect(y).mid = pump.mid
  BY <1>2, CollectTyped
<1>5. pump' \in PumpRecord
  BY <1>1, <1>3, <1>4 DEF PumpRecord
<1>6. frames' \in Seq(Frame)
  BY <1>2, <1>3, TaskParts, ConcatIsSeq
<1> QED BY <1>2, <1>3, <1>5, <1>6, TaskTyped, TaskParts DEF Outwards, Frozen, upstream

LEMMA ApologyIsFrames == Apology \in Seq(Frame) /\ <<Done>> \in Seq(Frame) /\ <<>> \in Seq(Frame)
<1>1. Bare("error") \in Frame /\ Done \in Frame
  BY BareIsFailing, MsgIsEvent DEF Failing
<1> QED BY <1>1, TuplesAreSeqs DEF Apology

LEMMA VerdictsTyped ==
  TypeInv /\ (Failed \/ Fruitless \/ Fruitful \/ Broken \/ SendFails \/ Sent \/ Elapse) => TypeInv'
<1> SUFFICES ASSUME TypeInv, Failed \/ Fruitless \/ Fruitful \/ Broken \/ SendFails \/ Sent \/ Elapse
             PROVE  TypeInv'
  OBVIOUS
<1>1. \A pc \in {"read", "send", "closing", "failover"}, b \in BOOLEAN :
        /\ [pump EXCEPT !.pc = pc] \in PumpRecord
        /\ [pump EXCEPT !.pc = pc, !.failed = b] \in PumpRecord
        /\ [pump EXCEPT !.pc = pc, !.committed = b] \in PumpRecord
        /\ [pump EXCEPT !.pc = pc, !.waited = b] \in PumpRecord
        /\ [pump EXCEPT !.waited = b] \in PumpRecord
  BY TaskParts, ZenonT(60) DEF PumpRecord
<1>2. pump' \in PumpRecord
  BY <1>1 DEF Failed, Fruitless, Fruitful, Broken, SendFails, Sent, Elapse, GiveUp, Become
<1>3. frames' \in Seq(Frame)
  <2>1. frames \o (IF HasErrorEvent THEN <<Done>> ELSE Apology) \in Seq(Frame)
    BY TaskParts, ApologyIsFrames, ConcatIsSeq
  <2> QED BY <2>1, TaskParts, ApologyIsFrames
          DEF Failed, Fruitless, Fruitful, Broken, SendFails, Sent, Elapse, GiveUp
<1>4. /\ route' = route /\ up' = up /\ said' = said /\ wire' = wire /\ inward' = inward
      /\ outward' = outward /\ heard' = heard /\ log' = log
  BY DEF Failed, Fruitless, Fruitful, Broken, SendFails, Sent, Elapse, Frozen, upstream
<1> QED BY <1>2, <1>3, <1>4, TaskTyped, TaskParts

LEMMA SettleTyped == TypeInv /\ Settle => TypeInv'
<1> SUFFICES ASSUME TypeInv, Settle PROVE TypeInv'
  OBVIOUS
<1>1. pump' \in PumpRecord /\ log' \in Log
  BY TaskParts, SMTT(30) DEF Settle, Become, PumpRecord, Log
<1> QED BY <1>1, TaskTyped, TaskParts DEF Settle, upstream

-----------------------------------------------------------------------------
(* The client *)

LEMMA ReadChunkTyped ==
  ASSUME TypeInv, NEW f \in Msg
  PROVE  LET h == ReadChunk(f)
         IN /\ h \in Client /\ h.end = heard.end /\ h.closed = heard.closed
            /\ h.confused = heard.confused /\ h.gone = heard.gone
<1> DEFINE h == ReadChunk(f)
<1>0. /\ heard \in Client /\ heard.said \in Content /\ f.frag \in Nat /\ f.id \in Nat /\ f.i \in Nat
      /\ f.why \in Reason /\ f.usage \in Usage /\ 0 \in Nat /\ f.i + 1 \in Nat
  BY TaskParts, SMTT(30) DEF Client, Msg, Event
<1>1. CASE f.kind \in {"text", "thinking"}
  <2>1. More(heard.said, f.kind, 0, f.frag) \in Content
    BY <1>0, <1>1, MoreIsContent DEF BlockKind
  <2>2. h = [heard EXCEPT !.said = More(@, f.kind, 0, f.frag)]
    BY <1>1 DEF ReadChunk
  <2> QED BY <1>0, <2>1, <2>2 DEF Client
<1>2. CASE f.kind = "tool" /\ f.id # 0
  <2> DEFINE tools == Append(heard.said.tools, [id |-> f.id, text |-> <<>>])
  <2>1. [id |-> f.id, text |-> <<>>] \in ToolCalled
    BY <1>0, TuplesAreSeqs DEF ToolCalled
  <2>2. tools \in Seq(ToolCalled)
    BY <1>0, <2>1, AppendProperties DEF Content
  <2>3. h = [heard EXCEPT !.said = [@ EXCEPT !.tools = tools]]
    BY <1>2 DEF ReadChunk
  <2> HIDE DEF tools
  <2>4. [heard.said EXCEPT !.tools = tools] \in Content
    BY <1>0, <2>2 DEF Content
  <2> QED BY <1>0, <2>3, <2>4 DEF Client
<1>3. CASE f.kind = "tool" /\ f.id = 0
  <2>1. More(heard.said, "tool", f.i + 1, f.frag) \in Content
    BY <1>0, MoreIsContent DEF BlockKind
  <2>2. h = [heard EXCEPT !.said = More(@, "tool", f.i + 1, f.frag)]
    BY <1>3 DEF ReadChunk
  <2> QED BY <1>0, <2>1, <2>2 DEF Client
<1>4. CASE f.kind = "finish"
  BY <1>0, <1>4 DEF ReadChunk, Client
<1>5. CASE f.kind = "usage"
  BY <1>0, <1>5 DEF ReadChunk, Client
<1>6. CASE f.kind \notin {"text", "thinking", "tool", "finish", "usage"}
  BY <1>0, <1>6 DEF ReadChunk
<1> QED BY <1>0, <1>1, <1>2, <1>3, <1>4, <1>5, <1>6

\* A frame of no consequence leaves open how the answer ends.
Understood(h, f) ==
  /\ h \in Client /\ h.confused = heard.confused /\ h.gone = heard.gone
  /\ f # Done => h.closed = heard.closed
  /\ f \in Calm => h.end = heard.end
  /\ f \in Ending => f.e = "[DONE]" \/ h.end = "over"
  /\ f \in Failing => h.end = "error"
  /\ f = Done => h.closed /\ h.end = IF heard.end = "no" /\ ForChat THEN "over" ELSE heard.end

LEMMA ReadFrameTyped ==
  ASSUME TypeInv, NEW f \in Frame
  PROVE  Understood(ReadFrame(f), f)
<1> DEFINE h == ReadFrame(f)
<1> HIDE DEF h
<1> SUFFICES Understood(h, f)
  BY DEF h
<1>0. heard \in Client /\ heard.said \in Content /\ heard.usage \in Usage
  BY TaskParts DEF Client
<1>a. CASE f = Done
  <2>1. h = [heard EXCEPT !.closed = TRUE,
                          !.end = IF @ = "no" /\ route.client = "chat" THEN "over" ELSE @]
    BY <1>a, MsgIsEvent DEF h, ReadFrame, IsError
  <2>2. f \notin Calm /\ f \notin Ending /\ f \notin Failing
    BY <1>a, MsgIsEvent DEF Calm, Ending, Failing
  <2>3. h \in Client /\ h.confused = heard.confused /\ h.gone = heard.gone /\ h.closed = TRUE
        /\ h.end = IF heard.end = "no" /\ ForChat THEN "over" ELSE heard.end
    BY <1>0, <2>1 DEF Understood, Client, ForChat
  <2> QED BY <1>a, <2>2, <2>3 DEF Understood
<1>b. CASE f \in Msg
  <2>0. /\ f # Done /\ f.frag \in Nat /\ f.id \in Nat /\ f.i \in Nat /\ f.why \in Reason
        /\ f.usage \in Usage /\ f.items \in Seq(Item) /\ f.e # "Done" /\ Proper(f)
        /\ f \in Ending => f.e \in EndName
        /\ f \in Calm => f.e \notin EndName /\ f.e \notin ErrorName
        /\ f \in Failing => f.e \in ErrorName
    BY <1>b, MsgIsEvent DEF Msg, Event, Proper, Calm, Ending, Failing
  <2>1. CASE f.e = "chunk"
    <3>1. h = ReadChunk(f)
      BY <2>1 DEF h, ReadFrame, IsError
    <3>2. LET c == ReadChunk(f)
          IN /\ c \in Client /\ c.end = heard.end /\ c.closed = heard.closed
             /\ c.confused = heard.confused /\ c.gone = heard.gone
      BY <1>b, ReadChunkTyped
    <3> QED BY <2>0, <2>1, <3>1, <3>2 DEF Understood, EndName, ErrorName
  <2>2. CASE f.e \in {"message_start", "response.created"}
    <3>1. h = [heard EXCEPT !.on = TRUE, !.usage = f.usage]
      BY <2>2 DEF h, ReadFrame, IsError
    <3> QED BY <1>0, <2>0, <2>2, <3>1 DEF Understood, Client, EndName, ErrorName
  <2>3. CASE f.e \in {"content_block_start", "response.output_item.added"}
    <3> DEFINE open == [kind |-> f.kind, i |-> f.i]
               said1 == Begun(heard.said, f.kind, f.id)
    <3>1. h = [heard EXCEPT !.open = open, !.blocks = @ + 1, !.said = said1]
      BY <2>3 DEF h, ReadFrame, IsError
    <3>2. f.kind \in BlockKind
      BY <2>0, <2>3 DEF Proper
    <3>3. open \in OpenBlock
      BY <2>0, <3>2 DEF OpenBlock
    <3>4. said1 \in Content
      BY <1>0, <2>0, <3>2, BegunIsContent
    <3>5. heard.blocks + 1 \in Nat
      BY <1>0 DEF Understood, Client
    <3> HIDE DEF open, said1
    <3> QED BY <1>0, <2>0, <2>3, <3>1, <3>3, <3>4, <3>5 DEF Understood, Client, EndName, ErrorName
  <2>4. CASE f.e \in {"content_block_delta", "response.delta"} /\ f.kind # "signature"
    <3> DEFINE said1 == MoreOfLast(heard.said, f.kind, f.frag)
    <3>1. h = [heard EXCEPT !.said = said1]
      BY <2>4 DEF h, ReadFrame, IsError
    <3>2. f.kind \in BlockKind
      BY <2>0, <2>4 DEF Proper
    <3>3. said1 \in Content
      BY <1>0, <2>0, <3>2, MoreOfLastIsContent
    <3> HIDE DEF said1
    <3> QED BY <1>0, <2>0, <2>4, <3>1, <3>3 DEF Understood, Client, EndName, ErrorName
  <2>5. CASE f.e \in {"content_block_stop", "response.output_item.done"}
    <3>1. h = [heard EXCEPT !.open = NoBlock]
      BY <2>5 DEF h, ReadFrame, IsError
    <3>2. NoBlock \in OpenBlock
      BY DEF NoBlock, OpenBlock
    <3> QED BY <1>0, <2>0, <2>5, <3>1, <3>2 DEF Understood, Client, EndName, ErrorName
  <2>6. CASE f.e = "message_delta"
    <3>1. h = [heard EXCEPT !.why = f.why, !.usage = MergeUsage(@, f.usage)]
      BY <2>6 DEF h, ReadFrame, IsError
    <3>2. MergeUsage(heard.usage, f.usage) \in Usage
      BY <1>0, <2>0, MergedUsage
    <3> QED BY <1>0, <2>0, <2>6, <3>1, <3>2 DEF Understood, Client, EndName, ErrorName
  <2>7. CASE f.e = "message_stop"
    <3>1. h = [heard EXCEPT !.end = "over"]
      BY <2>7 DEF h, ReadFrame, IsError
    <3> QED BY <1>0, <2>0, <2>7, <3>1 DEF Understood, Client, EndName, ErrorName
  <2>8. CASE f.e = "response.completed"
    <3>1. h = [heard EXCEPT !.end = "over", !.usage = f.usage, !.final = f.items]
      BY <2>8 DEF h, ReadFrame, IsError
    <3> QED BY <1>0, <2>0, <2>8, <3>1 DEF Understood, Client, EndName, ErrorName
  <2>9. CASE IsError(f)
    <3>1. h = [heard EXCEPT !.end = "error"]
      BY <2>9 DEF h, ReadFrame, IsError
    <3> QED BY <1>0, <2>0, <2>9, <3>1 DEF Understood, Client, EndName, ErrorName, IsError
  <2>10. CASE /\ f.e \notin {"chunk", "message_start", "response.created", "content_block_start",
                       "response.output_item.added", "content_block_stop",
                       "response.output_item.done", "message_delta", "message_stop",
                       "response.completed"}
              /\ ~(f.e \in {"content_block_delta", "response.delta"} /\ f.kind # "signature")
              /\ ~IsError(f)
    <3>1. h = heard
      BY <2>0, <2>10 DEF h, ReadFrame, IsError
    <3> QED BY <1>0, <2>0, <2>10, <3>1 DEF Understood, EndName, ErrorName, IsError
  <2> QED BY <2>1, <2>2, <2>3, <2>4, <2>5, <2>6, <2>7, <2>8, <2>9, <2>10
<1> QED BY <1>a, <1>b DEF Frame

Conveyed(h, f) ==
  /\ h \in Client /\ (heard.confused => h.confused)
  /\ f # Done => h.closed = heard.closed
  /\ f \in Calm => h.end = heard.end
  /\ f \in Ending =>
       IF heard.end = "error" THEN h.end = "error"
       ELSE h.end = "over" \/ (h.confused /\ h.end = heard.end)
  /\ f \in Failing => h.end = "error"
  /\ f = Done => h.closed /\ h.end = IF heard.end = "no" /\ ForChat THEN "over" ELSE heard.end

LEMMA HearsTyped ==
  ASSUME TypeInv, NEW f \in Frame
  PROVE  Conveyed(Hears(f), f)
<1> DEFINE h == Hears(f)
           r == ReadFrame(f)
<1>0. heard \in Client
  BY TaskParts
<1>1. Understood(r, f)
  BY ReadFrameTyped
<1>2. f = Done => Allows(f)
  BY MsgIsEvent DEF Allows
<1>3. f \in Failing => Allows(f)
  BY DEF Allows, Failing, ErrorName
<1>4. f \in Ending => f \notin Failing /\ f \notin Calm /\ f # Done
  BY MsgIsEvent DEF Ending, Failing, Calm, EndName, ErrorName
<1>5. f \in Ending /\ Allows(f) => f.e # "[DONE]"
  BY DEF Allows, Under
<1>6. f \in Calm => f # Done
  BY MsgIsEvent DEF Calm
<1> HIDE DEF r, h
<1> SUFFICES Conveyed(h, f)
  BY DEF h
<1>7. CASE heard.end = "error" /\ f # Done
  <2>1. h = heard
    BY <1>7 DEF h, Hears
  <2> QED BY <1>0, <1>4, <1>7, <2>1 DEF Conveyed
<1>8. CASE ~(heard.end = "error" /\ f # Done) /\ Allows(f)
  <2>1. h = r
    BY <1>8 DEF h, Hears, r
  <2> QED BY <1>1, <1>4, <1>5, <1>6, <1>8, <2>1 DEF Understood, Conveyed
<1>9. CASE ~(heard.end = "error" /\ f # Done) /\ ~Allows(f)
  <2>1. h = [heard EXCEPT !.confused = TRUE]
    BY <1>9 DEF h, Hears
  <2>2. h \in Client /\ h.confused = TRUE /\ h.end = heard.end /\ h.closed = heard.closed
    BY <1>0, <2>1 DEF Client
  <2> QED BY <1>2, <1>3, <1>4, <1>9, <2>2 DEF Conveyed
<1> QED BY <1>7, <1>8, <1>9

LEMMA SendTyped == TypeInv /\ Send => TypeInv'
<1> SUFFICES ASSUME TypeInv, Send PROVE TypeInv'
  OBVIOUS
<1>1. Head(frames) \in Frame /\ Tail(frames) \in Seq(Frame)
  BY HeadsAndTails, TaskParts DEF Send
<1>2. heard' \in Client
  BY <1>1, HearsTyped DEF Send, Conveyed
<1>3. pump' \in PumpRecord /\ frames' \in Seq(Frame)
  BY <1>1, TaskParts, ApologyIsFrames DEF Send, Become, PumpRecord
<1> QED BY <1>2, <1>3, TaskTyped, TaskParts DEF Send, upstream

LEMMA LeaveTyped == TypeInv /\ Leave => TypeInv'
<1> SUFFICES ASSUME TypeInv, Leave PROVE TypeInv'
  OBVIOUS
<1>1. heard' \in Client
  BY TaskParts DEF Leave, Client
<1>2. pump' \in PumpRecord /\ frames' \in Seq(Frame)
  BY TaskParts, ApologyIsFrames DEF Leave, Become, PumpRecord
<1> QED BY <1>1, <1>2, TaskTyped, TaskParts DEF Leave, upstream

LEMMA InitTyped == Init => TypeInv
<1> SUFFICES ASSUME Init PROVE TypeInv
  OBVIOUS
<1>1. /\ <<>> \in Seq(Nat) /\ <<>> \in Seq(ToolCalled) /\ <<>> \in Seq(Item) /\ <<>> \in Seq(Msg)
      /\ <<>> \in Seq(Frame) /\ <<>> \in Seq(Seq(Nat)) /\ NoUsage \in Usage /\ NoCapture \in Capture
      /\ "none" \in Reason /\ "stop" \in Reason
  BY TuplesAreSeqs, NoUsageIsUsage, CapturesNothing DEF Reason
<1>2. NoContent \in Content /\ NoContent.items = <<>>
  BY <1>1 DEF NoContent, Content
<1>3. up \in Upstream
  BY <1>1 DEF Init, Upstream
<1>4. inward \in Inward
  BY <1>1 DEF Init, InwardInit, Inward, NoBlock, OpenBlock
<1>5. IsOutward(outward)
  BY <1>1 DEF Init, OutwardInit, IsOutward
<1>6. pump \in PumpRecord
  BY <1>1 DEF Init, PumpRecord
<1>7. heard \in Client
  BY <1>1, <1>2 DEF Init, Client, NoBlock, OpenBlock
<1>8. log \in Log
  BY <1>1 DEF Init, Log
<1>9. SaidInv
  BY <1>2 DEF Init, SaidInv
<1> QED BY <1>1, <1>2, <1>3, <1>4, <1>5, <1>6, <1>7, <1>8, <1>9 DEF Init, TypeInv

LEMMA UnchangedTyped == TypeInv /\ UNCHANGED vars => TypeInv'
<1> SUFFICES ASSUME TypeInv, UNCHANGED vars PROVE TypeInv'
  OBVIOUS
<1> QED BY TaskTyped, TaskParts DEF vars, upstream

LEMMA StepTyped == TypeInv /\ [Next]_vars => TypeInv'
<1> SUFFICES ASSUME TypeInv, [Next]_vars PROVE TypeInv'
  OBVIOUS
<1>1. CASE Says
  BY <1>1, BeginTyped, PieceTyped, FailTyped, CloseTyped, OpenTyped, ShutTyped, EndTyped DEF Says
<1>2. CASE Pumps
  BY <1>2, ReadTyped, PassTyped, InwardsTyped, OutwardsTyped, VerdictsTyped, SendTyped, SettleTyped
  DEF Pumps
<1>3. CASE Elapse
  BY <1>3, VerdictsTyped
<1>4. CASE Leave
  BY <1>4, LeaveTyped
<1>5. CASE UNCHANGED vars
  BY <1>5, UnchangedTyped
<1> QED BY <1>1, <1>2, <1>3, <1>4, <1>5 DEF Next

\* Whatever routes are configured and however long an answer is, every converter, the task
\* and the client stay within their types: no event is built with a missing block kind, no
\* index or usage count below zero, no capture half filled (the four converters,
\* next_stream_batch, start_stream_response).
THEOREM StreamTypeCorrect == Spec => []TypeOK
<1>1. TypeInv /\ [Next]_vars => TypeInv'
  BY StepTyped
<1> QED BY InitTyped, <1>1, TypeInvImpliesTypeOK, PTL DEF Spec

(***************************************************************************)
(* How an answer ends                                                      *)
(***************************************************************************)

-----------------------------------------------------------------------------
(* Batches *)

LEMMA KindsOfFrames ==
  /\ \A f \in Calm : ~Finishes(f) /\ ~IsError(f) /\ f # Done /\ f \in Frame
  /\ \A f \in Ending : Finishes(f) /\ ~IsError(f) /\ f # Done /\ f \in Frame
  /\ \A f \in Failing : ~Finishes(f) /\ IsError(f) /\ f # Done /\ f \in Frame
  /\ ~Finishes(Done) /\ ~IsError(Done)
  /\ Msg = Calm \cup Ending \cup Failing
BY MsgIsEvent DEF Calm, Ending, Failing, Finishes, IsError, EndName, ErrorName

LEMMA CalmOrderly ==
  ASSUME NEW s \in Seq(Calm), NEW failing, NEW complete, NEW chat, NEW h
  PROVE  Orderly(s, failing, complete, chat, h)
<1>1. \A k \in DOMAIN s : s[k] \in Calm
  OBVIOUS
<1> QED BY <1>1, KindsOfFrames DEF Orderly

LEMMA PairOrderly ==
  ASSUME NEW failing, NEW complete, NEW chat, NEW h
  PROVE  /\ \A c \in Ending : complete => Orderly(<<c, Done>>, failing, complete, chat, h)
         /\ complete /\ chat => Orderly(<<Done>>, failing, complete, chat, h)
         /\ \A e \in Failing :
              failing => /\ Orderly(<<e>>, failing, complete, chat, h)
                         /\ Orderly(<<e, Done>>, failing, complete, chat, h)
<1>1. ASSUME NEW c \in Ending, complete PROVE Orderly(<<c, Done>>, failing, complete, chat, h)
  BY <1>1, KindsOfFrames DEF Orderly, EndBefore
<1>2. ASSUME complete, chat PROVE Orderly(<<Done>>, failing, complete, chat, h)
  BY <1>2, KindsOfFrames DEF Orderly
<1>3. ASSUME NEW e \in Failing, failing PROVE Orderly(<<e>>, failing, complete, chat, h)
  BY <1>3, KindsOfFrames DEF Orderly
<1>4. ASSUME NEW e \in Failing, failing PROVE Orderly(<<e, Done>>, failing, complete, chat, h)
  BY <1>4, KindsOfFrames DEF Orderly, ErrorBefore
<1> QED BY <1>1, <1>2, <1>3, <1>4

LEMMA Concatenated ==
  \A S : \A s, t \in Seq(S) :
    /\ \A k \in DOMAIN (s \o t) :
         \/ k \in DOMAIN s /\ (s \o t)[k] = s[k]
         \/ k - Len(s) \in DOMAIN t /\ (s \o t)[k] = t[k - Len(s)]
    /\ \A k \in DOMAIN s : k \in DOMAIN (s \o t) /\ (s \o t)[k] = s[k] /\ k <= Len(s)
    /\ \A k \in DOMAIN t :
         k + Len(s) \in DOMAIN (s \o t) /\ (s \o t)[k + Len(s)] = t[k] /\ k \in Nat
    /\ Len(s) \in Nat /\ DOMAIN (s \o t) \subseteq Nat
<1> SUFFICES ASSUME NEW S, NEW s \in Seq(S), NEW t \in Seq(S)
             PROVE
    /\ \A k \in DOMAIN (s \o t) :
         \/ k \in DOMAIN s /\ (s \o t)[k] = s[k]
         \/ k - Len(s) \in DOMAIN t /\ (s \o t)[k] = t[k - Len(s)]
    /\ \A k \in DOMAIN s : k \in DOMAIN (s \o t) /\ (s \o t)[k] = s[k] /\ k <= Len(s)
    /\ \A k \in DOMAIN t :
         k + Len(s) \in DOMAIN (s \o t) /\ (s \o t)[k + Len(s)] = t[k] /\ k \in Nat
    /\ Len(s) \in Nat /\ DOMAIN (s \o t) \subseteq Nat
  OBVIOUS
<1> DEFINE u == s \o t
<1>1. u \in Seq(S) /\ Len(u) = Len(s) + Len(t)
      /\ \A i \in 1 .. Len(s) + Len(t) : u[i] = IF i <= Len(s) THEN s[i] ELSE t[i - Len(s)]
  BY ConcatProperties
<1>2. DOMAIN s = 1 .. Len(s) /\ DOMAIN t = 1 .. Len(t) /\ Len(s) \in Nat /\ Len(t) \in Nat
  OBVIOUS
<1>3. DOMAIN u = 1 .. Len(s) + Len(t)
  BY <1>1
<1> HIDE DEF u
<1>4. \A k \in DOMAIN u :
         \/ k \in DOMAIN s /\ u[k] = s[k]
         \/ k - Len(s) \in DOMAIN t /\ u[k] = t[k - Len(s)]
  BY <1>1, <1>2, <1>3
<1>5. \A k \in DOMAIN s : k \in DOMAIN u /\ u[k] = s[k] /\ k <= Len(s)
  BY <1>1, <1>2, <1>3
<1>6. \A k \in DOMAIN t : k + Len(s) \in DOMAIN u /\ u[k + Len(s)] = t[k] /\ k \in Nat
  BY <1>1, <1>2, <1>3
<1>7. DOMAIN u \subseteq Nat
  BY <1>2, <1>3
<1> QED BY <1>2, <1>4, <1>5, <1>6, <1>7 DEF u

LEMMA PairJoined ==
  ASSUME NEW e, NEW d
  PROVE  <<e>> \o <<d>> = <<e, d>>
<1> DEFINE S == {e, d}
           a == <<e>>
           b == <<d>>
           c == <<e, d>>
           u == a \o b
<1>1. /\ a \in Seq(S) /\ Len(a) = 1 /\ a[1] = e /\ b \in Seq(S) /\ Len(b) = 1 /\ b[1] = d
  OBVIOUS
<1>a. c \in Seq(S) /\ Len(c) = 2 /\ c[1] = e /\ c[2] = d
  OBVIOUS
<1> HIDE DEF a, b, c, S
<1>2. /\ u \in Seq(S) /\ Len(u) = Len(a) + Len(b)
      /\ \A i \in 1 .. Len(a) + Len(b) : u[i] = IF i <= Len(a) THEN a[i] ELSE b[i - Len(a)]
  BY <1>1, ConcatProperties
<1> HIDE DEF u
<1>3. Len(u) = 2 /\ u[1] = e /\ u[2] = d
  BY <1>1, <1>2
<1>4. \A i \in 1 .. Len(u) : u[i] = c[i]
  BY <1>3, <1>a
<1>5. u = c
  BY <1>2, <1>3, <1>4, <1>a, SeqEqual
<1> QED BY <1>5 DEF u, a, b, c

LEMMA OrderlyTogether ==
  \A s, t \in Seq(Frame) : \A f, g, r, complete, chat, h :
    Orderly(s, f, complete, chat, h) /\ Orderly(t, g, complete, chat, h) /\ (f => r) /\ (g => r)
      => Orderly(s \o t, r, complete, chat, h)
<1> SUFFICES ASSUME NEW s \in Seq(Frame), NEW t \in Seq(Frame), NEW f, NEW g, NEW r,
                    NEW complete, NEW chat, NEW h,
                    Orderly(s, f, complete, chat, h), Orderly(t, g, complete, chat, h),
                    f => r, g => r
             PROVE  Orderly(s \o t, r, complete, chat, h)
  OBVIOUS
<1> DEFINE u == s \o t
<1>1. /\ \A k \in DOMAIN u :
           \/ k \in DOMAIN s /\ u[k] = s[k]
           \/ k - Len(s) \in DOMAIN t /\ u[k] = t[k - Len(s)]
      /\ \A k \in DOMAIN s : k \in DOMAIN u /\ u[k] = s[k] /\ k <= Len(s)
      /\ \A k \in DOMAIN t : k + Len(s) \in DOMAIN u /\ u[k + Len(s)] = t[k] /\ k \in Nat
      /\ Len(s) \in Nat /\ DOMAIN u \subseteq Nat
  BY Concatenated
<1> HIDE DEF u
<1> SUFFICES Orderly(u, r, complete, chat, h)
  BY DEF u
<1> SUFFICES ASSUME NEW k \in DOMAIN u
    PROVE  /\ Finishes(u[k]) => complete /\ \E j \in DOMAIN u : j > k /\ u[j] = Done
           /\ u[k] = Done => complete \/ h.end = "error" \/ ErrorBefore(u, k)
           /\ IsError(u[k]) => r
           /\ u[k] = Done /\ ~r /\ ~chat => EndBefore(u, k) \/ h.end = "over" \/ h.confused
  BY DEF Orderly
<1>2. CASE k \in DOMAIN s /\ u[k] = s[k]
  <2>1. /\ Finishes(s[k]) => complete /\ \E j \in DOMAIN s : j > k /\ s[j] = Done
        /\ s[k] = Done => complete \/ h.end = "error" \/ ErrorBefore(s, k)
        /\ IsError(s[k]) => f
        /\ s[k] = Done /\ ~f /\ ~chat => EndBefore(s, k) \/ h.end = "over" \/ h.confused
    BY <1>2 DEF Orderly
  <2>2. ErrorBefore(s, k) => ErrorBefore(u, k)
    BY <1>1 DEF ErrorBefore
  <2>3. EndBefore(s, k) => EndBefore(u, k)
    BY <1>1 DEF EndBefore
  <2>4. (\E j \in DOMAIN s : j > k /\ s[j] = Done) => \E j \in DOMAIN u : j > k /\ u[j] = Done
    BY <1>1
  <2> QED BY <1>2, <2>1, <2>2, <2>3, <2>4
<1>3. CASE k - Len(s) \in DOMAIN t /\ u[k] = t[k - Len(s)]
  <2> DEFINE i == k - Len(s)
  <2>0. i \in DOMAIN t /\ u[k] = t[i] /\ i \in Nat /\ k = i + Len(s)
    BY <1>1, <1>3
  <2> HIDE DEF i
  <2>1. /\ Finishes(t[i]) => complete /\ \E j \in DOMAIN t : j > i /\ t[j] = Done
        /\ t[i] = Done => complete \/ h.end = "error" \/ ErrorBefore(t, i)
        /\ IsError(t[i]) => g
        /\ t[i] = Done /\ ~g /\ ~chat => EndBefore(t, i) \/ h.end = "over" \/ h.confused
    BY <2>0 DEF Orderly
  <2>a. \A j \in DOMAIN t : /\ j + Len(s) \in DOMAIN u /\ u[j + Len(s)] = t[j]
                            /\ (j < i => j + Len(s) < k) /\ (j > i => j + Len(s) > k)
    BY <1>1, <2>0
  <2>2. ErrorBefore(t, i) => ErrorBefore(u, k)
    BY <2>a DEF ErrorBefore
  <2>3. EndBefore(t, i) => EndBefore(u, k)
    BY <2>a DEF EndBefore
  <2>4. (\E j \in DOMAIN t : j > i /\ t[j] = Done) => \E j \in DOMAIN u : j > k /\ u[j] = Done
    BY <2>a
  <2> QED BY <2>0, <2>1, <2>2, <2>3, <2>4
<1> QED BY <1>1, <1>2, <1>3

\* What is left of a batch, once the client has its first frame.
LEMMA RestOrderly ==
  \A s \in Seq(Frame) : \A failing, complete, chat, h, h2 :
    /\ s # <<>> /\ Head(s) # Done /\ Orderly(s, failing, complete, chat, h)
    /\ (h.end = "error" \/ IsError(Head(s)) => h2.end = "error")
    /\ ~failing /\ (Finishes(Head(s)) \/ h.end = "over") => h2.end = "over" \/ h2.confused
    /\ (h.confused => h2.confused)
    => Orderly(Tail(s), failing, complete, chat, h2)
<1> SUFFICES ASSUME NEW s \in Seq(Frame), NEW failing, NEW complete, NEW chat, NEW h, NEW h2,
                    s # <<>>, Head(s) # Done, Orderly(s, failing, complete, chat, h),
                    h.end = "error" \/ IsError(Head(s)) => h2.end = "error",
                    ~failing /\ (Finishes(Head(s)) \/ h.end = "over")
                      => h2.end = "over" \/ h2.confused,
                    h.confused => h2.confused
             PROVE  Orderly(Tail(s), failing, complete, chat, h2)
  OBVIOUS
<1> DEFINE t == Tail(s)
<1>1. Len(s) \in Nat /\ Len(s) # 0 /\ DOMAIN s = 1 .. Len(s)
  BY EmptySeq
<1>2. t \in Seq(Frame) /\ Len(t) = Len(s) - 1 /\ \A k \in 1 .. Len(s) - 1 : t[k] = s[k + 1]
  BY HeadsAndTails
<1>3. Head(s) = s[1]
  OBVIOUS
<1>4. DOMAIN t = 1 .. Len(s) - 1
  BY <1>2
<1>5. /\ \A k \in DOMAIN t : k + 1 \in DOMAIN s /\ t[k] = s[k + 1] /\ k \in Nat
      /\ \A k \in DOMAIN s : k = 1 \/ (k - 1 \in DOMAIN t /\ t[k - 1] = s[k])
      /\ DOMAIN s \subseteq Nat
  BY <1>1, <1>2, <1>4
<1> HIDE DEF t
<1> SUFFICES Orderly(t, failing, complete, chat, h2)
  BY DEF t
<1> SUFFICES ASSUME NEW k \in DOMAIN t
    PROVE  /\ Finishes(t[k]) => complete /\ \E j \in DOMAIN t : j > k /\ t[j] = Done
           /\ t[k] = Done => complete \/ h2.end = "error" \/ ErrorBefore(t, k)
           /\ IsError(t[k]) => failing
           /\ t[k] = Done /\ ~failing /\ ~chat =>
                EndBefore(t, k) \/ h2.end = "over" \/ h2.confused
  BY DEF Orderly
<1> DEFINE i == k + 1
<1>6. i \in DOMAIN s /\ t[k] = s[i] /\ k \in Nat /\ i = k + 1
  BY <1>5
<1> HIDE DEF i
<1>7. /\ Finishes(s[i]) => complete /\ \E j \in DOMAIN s : j > i /\ s[j] = Done
      /\ s[i] = Done => complete \/ h.end = "error" \/ ErrorBefore(s, i)
      /\ IsError(s[i]) => failing
      /\ s[i] = Done /\ ~failing /\ ~chat => EndBefore(s, i) \/ h.end = "over" \/ h.confused
  BY <1>6 DEF Orderly
<1>8. \A j \in DOMAIN s : \/ j = 1
                          \/ /\ j - 1 \in DOMAIN t /\ t[j - 1] = s[j]
                             /\ (j < i => j - 1 < k) /\ (j > i => j - 1 > k)
  <2> SUFFICES ASSUME NEW j \in DOMAIN s, j # 1
      PROVE  /\ j - 1 \in DOMAIN t /\ t[j - 1] = s[j]
             /\ (j < i => j - 1 < k) /\ (j > i => j - 1 > k)
    OBVIOUS
  <2>1. j \in Nat /\ j - 1 \in DOMAIN t /\ t[j - 1] = s[j]
    BY <1>5
  <2>2. k \in Nat /\ i = k + 1
    BY <1>6
  <2>3. (j < i => j - 1 < k) /\ (j > i => j - 1 > k)
    BY <2>1, <2>2
  <2> QED BY <2>1, <2>3
<1>9. ErrorBefore(s, i) => ErrorBefore(t, k) \/ IsError(Head(s))
  BY <1>3, <1>8 DEF ErrorBefore
<1>10. EndBefore(s, i) => EndBefore(t, k) \/ Finishes(Head(s))
  BY <1>3, <1>8 DEF EndBefore
<1>11. (\E j \in DOMAIN s : j > i /\ s[j] = Done) => \E j \in DOMAIN t : j > k /\ t[j] = Done
  BY <1>3, <1>8
<1> QED BY <1>6, <1>7, <1>9, <1>10, <1>11

LEMMA RestTells ==
  \A s \in Seq(Frame) : \A h, h2 :
    /\ s # <<>> /\ Head(s) # Done
    /\ (h.end = "error" \/ IsError(Head(s)) => h2.end = "error")
    => (Marked(s) => Marked(Tail(s))) /\ (TellsOfError(s, h) => TellsOfError(Tail(s), h2))
<1> SUFFICES ASSUME NEW s \in Seq(Frame), NEW h, NEW h2, s # <<>>, Head(s) # Done,
                    h.end = "error" \/ IsError(Head(s)) => h2.end = "error"
             PROVE  /\ Marked(s) => Marked(Tail(s))
                    /\ TellsOfError(s, h) => TellsOfError(Tail(s), h2)
  OBVIOUS
<1> DEFINE t == Tail(s)
<1>1. Len(s) \in Nat /\ Len(s) # 0 /\ DOMAIN s = 1 .. Len(s)
  BY EmptySeq
<1>2. t \in Seq(Frame) /\ Len(t) = Len(s) - 1 /\ \A k \in 1 .. Len(s) - 1 : t[k] = s[k + 1]
  BY HeadsAndTails
<1>3. Head(s) = s[1]
  OBVIOUS
<1>4. DOMAIN t = 1 .. Len(s) - 1
  BY <1>2
<1>5. /\ \A k \in DOMAIN t : k + 1 \in DOMAIN s /\ t[k] = s[k + 1] /\ k \in Nat
      /\ \A k \in DOMAIN s : k = 1 \/ (k - 1 \in DOMAIN t /\ t[k - 1] = s[k])
      /\ DOMAIN s \subseteq Nat
  BY <1>1, <1>2, <1>4
<1> HIDE DEF t
<1>6. Marked(s) => Marked(t)
  BY <1>3, <1>5 DEF Marked
<1>7. ASSUME TellsOfError(s, h), NEW k \in DOMAIN t
      PROVE  ~Finishes(t[k]) /\ (t[k] = Done => h2.end = "error" \/ ErrorBefore(t, k))
  <2>1. k + 1 \in DOMAIN s /\ t[k] = s[k + 1] /\ k \in Nat
    BY <1>5
  <2>2. ~Finishes(s[k + 1]) /\ (s[k + 1] = Done => h.end = "error" \/ ErrorBefore(s, k + 1))
    BY <1>7, <2>1 DEF TellsOfError
  <2>3. ErrorBefore(s, k + 1) => ErrorBefore(t, k) \/ IsError(Head(s))
    <3>1. \A j \in DOMAIN s : j = 1 \/ (j - 1 \in DOMAIN t /\ t[j - 1] = s[j] /\ (j < k + 1 => j - 1 < k))
      BY <1>5, <2>1
    <3> QED BY <1>3, <3>1 DEF ErrorBefore
  <2> QED BY <2>1, <2>2, <2>3
<1>8. TellsOfError(s, h) => TellsOfError(t, h2)
  BY <1>6, <1>7 DEF TellsOfError
<1> QED BY <1>6, <1>8 DEF t

LEMMA OrderlyStill ==
  \A s, f, r, complete, chat, h, h2 :
    /\ Orderly(s, f, complete, chat, h)
    /\ (f => r) /\ h2.end = h.end /\ h2.confused = h.confused
    => Orderly(s, r, complete, chat, h2)
BY DEF Orderly

LEMMA OrderlyTells ==
  \A s, f, complete, chat, h :
    Orderly(s, f, complete, chat, h) /\ ~complete /\ Marked(s) => TellsOfError(s, h)
BY DEF Orderly, TellsOfError

\* The mark after a batch that tells of an error itself.
LEMMA MarkAppended ==
  \A s \in Seq(Frame) : \A f, complete, chat, h :
    Orderly(s, f, complete, chat, h) /\ (\E k \in DOMAIN s : IsError(s[k]))
      => Orderly(s \o <<Done>>, TRUE, complete, chat, h)
<1> SUFFICES ASSUME NEW s \in Seq(Frame), NEW f, NEW complete, NEW chat, NEW h,
                    Orderly(s, f, complete, chat, h), \E k \in DOMAIN s : IsError(s[k])
             PROVE  Orderly(s \o <<Done>>, TRUE, complete, chat, h)
  OBVIOUS
<1> DEFINE t == <<Done>>
           u == s \o t
<1>0. t \in Seq(Frame) /\ DOMAIN t = {1} /\ t[1] = Done
  BY TuplesAreSeqs, MsgIsEvent
<1>1. /\ \A k \in DOMAIN u :
           \/ k \in DOMAIN s /\ u[k] = s[k]
           \/ k - Len(s) \in DOMAIN t /\ u[k] = t[k - Len(s)]
      /\ \A k \in DOMAIN s : k \in DOMAIN u /\ u[k] = s[k] /\ k <= Len(s)
      /\ Len(s) \in Nat /\ DOMAIN u \subseteq Nat
  <2> HIDE DEF t
  <2> QED BY <1>0, Concatenated
<1> HIDE DEF u, t
<1> SUFFICES Orderly(u, TRUE, complete, chat, h)
  BY DEF u, t
<1> SUFFICES ASSUME NEW k \in DOMAIN u
    PROVE  /\ Finishes(u[k]) => complete /\ \E j \in DOMAIN u : j > k /\ u[j] = Done
           /\ u[k] = Done => complete \/ h.end = "error" \/ ErrorBefore(u, k)
  BY DEF Orderly
<1>2. CASE k \in DOMAIN s /\ u[k] = s[k]
  <2>1. /\ Finishes(s[k]) => complete /\ \E j \in DOMAIN s : j > k /\ s[j] = Done
        /\ s[k] = Done => complete \/ h.end = "error" \/ ErrorBefore(s, k)
    BY <1>2 DEF Orderly
  <2>2. ErrorBefore(s, k) => ErrorBefore(u, k)
    BY <1>1 DEF ErrorBefore
  <2>3. (\E j \in DOMAIN s : j > k /\ s[j] = Done) => \E j \in DOMAIN u : j > k /\ u[j] = Done
    BY <1>1
  <2> QED BY <1>2, <2>1, <2>2, <2>3
<1>3. CASE k - Len(s) \in DOMAIN t /\ u[k] = t[k - Len(s)]
  <2>1. u[k] = Done /\ k \in Nat /\ Len(s) < k
    BY <1>0, <1>1, <1>3
  <2>2. PICK j \in DOMAIN s : IsError(s[j])
    OBVIOUS
  <2>3. j \in DOMAIN u /\ u[j] = s[j] /\ j <= Len(s) /\ j \in Nat
    BY <1>1, <2>2
  <2>4. j < k
    BY <1>1, <2>1, <2>3
  <2>5. ErrorBefore(u, k)
    BY <2>2, <2>3, <2>4 DEF ErrorBefore
  <2> QED BY <2>1, <2>5, KindsOfFrames
<1> QED BY <1>1, <1>2, <1>3

LEMMA LastIsMark ==
  \A s, t \in Seq(Frame) : Marked(t) => Marked(s \o t)
BY Concatenated DEF Marked

-----------------------------------------------------------------------------
(* The upstream keeps the invariant *)

LEMMA CalmTellable == Calm \subseteq Tellable
BY DEF Calm, Tellable, Finishes, IsError, EndName, ErrorName

LEMMA TellableGrows ==
  ASSUME up.complete => up'.complete, Lost => Lost', route' = route
  PROVE  Tellable \subseteq Tellable'
BY DEF Tellable, In

LEMMA UpstreamKeeps ==
  ASSUME TypeInv, IInv, pump.pc = "read", route' = route, pump' = pump, frames' = frames,
         heard' = heard, log' = log, up.complete => up'.complete, Lost => Lost',
         up'.complete => up'.pc \in {"over", "gone"}, wire' \in Seq(Tellable')
  PROVE  IInv'
<1>1. pump.chunk \in Seq(Tellable') /\ pump.mid \in Seq(Tellable')
  BY TellableGrows, SeqMonotonic DEF IInv, FlowInv
<1>2. ForMessages \subseteq ForMessages'
  BY DEF ForMessages
<1>3. route.client = "messages" /\ ~Passthrough => pump.mid \in Seq(ForMessages')
  BY <1>2, SeqMonotonic DEF IInv, FlowInv
<1>4. FlowInv'
  BY <1>1, <1>3 DEF IInv, FlowInv, Passthrough
<1>5. BatchInv'
  BY DEF IInv, BatchInv
<1>6. TellInv'
  BY DEF IInv, TellInv
<1> QED BY <1>4, <1>5, <1>6 DEF IInv

LEMMA CalmlyKeeps == TypeInv /\ IInv /\ SaysCalmly => IInv'
<1> SUFFICES ASSUME TypeInv, IInv, SaysCalmly PROVE IInv'
  OBVIOUS
<1>1. PICK evs \in Seq(Calm) : Speaks(evs)
  BY DEF SaysCalmly
<1>2. ~up.complete /\ ~up'.complete /\ ~Lost
  BY TypeInvParts DEF SaysCalmly, Speaking, Lost, IInv, FlowInv
<1>3. Tellable \subseteq Tellable'
  BY <1>1, <1>2, TellableGrows DEF Speaks
<1>4. wire \in Seq(Tellable') /\ evs \in Seq(Tellable')
  BY <1>3, CalmTellable, SeqMonotonic DEF IInv, FlowInv
<1>5. wire' \in Seq(Tellable')
  BY <1>1, <1>4, ConcatIsSeq DEF Speaks
<1> QED BY <1>1, <1>2, <1>5, UpstreamKeeps DEF Speaks

LEMMA EndKeeps ==
  ASSUME NEW why \in Reason, NEW whole \in BOOLEAN
  PROVE  TypeInv /\ IInv /\ End(why, whole) => IInv'
<1> SUFFICES ASSUME TypeInv, IInv, End(why, whole) PROVE IInv'
  OBVIOUS
<1> DEFINE finish == IF why = "none" THEN <<>> ELSE <<FinishChunk(why)>>
           usage == IF bill = NoUsage THEN <<>> ELSE <<UsageChunk(bill)>>
           chat == finish \o usage \o <<ChatDone>>
           messages == <<MessageDelta(why, OutputOf(whole)), MessageStop>>
           responses == <<Completed(said.items, bill)>>
           evs == ForDialect(chat, messages, responses)
<1>0. /\ 0 \in Nat /\ "text" \in BlockKind /\ "text" \in EventKind /\ FALSE \in BOOLEAN
      /\ bill \in Usage /\ said.items \in Seq(Item)
  BY TypeInvParts DEF BlockKind, EventKind
<1>1. OutputOf(whole) \in Usage
  BY <1>0 DEF OutputOf, Usage
<1>2. /\ up' = [up EXCEPT !.pc = "over", !.why = why, !.complete = TRUE, !.billed = TRUE]
      /\ Speaks(evs) /\ up.pc = "open"
  BY DEF End
<1>3. up'.complete /\ up'.pc = "over" /\ ~Lost /\ route' = route
  BY <1>2, TypeInvParts DEF Upstream, Lost, Speaks
<1>4. Tellable \subseteq Tellable'
  BY <1>3, TellableGrows
<1>5. Calm \subseteq Tellable'
  BY <1>4, CalmTellable
<1>6. \A ev \in Msg : ~IsError(ev) /\ (ev.e = "[DONE]" => In("chat")) => ev \in Tellable'
  BY <1>3 DEF Tellable, In
<1>7. FinishChunk(why) \in Tellable' /\ UsageChunk(bill) \in Tellable'
  BY <1>0, <1>5, ChunksAreCalm
<1>8. In("chat") => ChatDone \in Tellable'
  <2>1. ChatDone \in Msg /\ ChatDone.e = "[DONE]"
    BY <1>0, Chunks
  <2> QED BY <1>6, <2>1 DEF IsError
<1>9. MessageDelta(why, OutputOf(whole)) \in Tellable'
  BY <1>0, <1>1, <1>5, BlocksAreCalm
<1>10. MessageStop \in Tellable'
  <2>1. MessageStop \in Msg /\ MessageStop.e = "message_stop"
    BY <1>0, Messages
  <2> QED BY <1>6, <2>1 DEF IsError
<1>11. Completed(said.items, bill) \in Tellable'
  <2>1. Completed(said.items, bill) \in Msg /\ Completed(said.items, bill).e = "response.completed"
    BY <1>0, Items
  <2> QED BY <1>6, <2>1 DEF IsError
<1>12. finish \in Seq(Tellable') /\ usage \in Seq(Tellable') /\ messages \in Seq(Tellable')
       /\ responses \in Seq(Tellable')
  BY <1>7, <1>9, <1>10, <1>11, TuplesAreSeqs
<1>13. In("chat") => <<ChatDone>> \in Seq(Tellable')
  BY <1>8, TuplesAreSeqs
<1> HIDE DEF finish, usage, messages, responses
<1>14. In("chat") => chat \in Seq(Tellable')
  BY <1>12, <1>13, ConcatIsSeq
<1> HIDE DEF chat
<1>15. evs \in Seq(Tellable')
  BY <1>12, <1>14, RouteIsRoute DEF ForDialect, In, Dialect
<1> HIDE DEF evs
<1>16. wire \in Seq(Tellable')
  BY <1>4, SeqMonotonic DEF IInv, FlowInv
<1>17. wire' \in Seq(Tellable')
  BY <1>2, <1>15, <1>16, ConcatIsSeq DEF Speaks
<1> QED BY <1>2, <1>3, <1>17, UpstreamKeeps DEF Speaks

LEMMA FailKeeps == ~ErrorThenDone /\ TypeInv /\ IInv /\ Fail => IInv'
<1> SUFFICES ASSUME ~ErrorThenDone, TypeInv, IInv, Fail PROVE IInv'
  OBVIOUS
<1>1. PICK done \in BOOLEAN, failed \in BOOLEAN :
        /\ done => ErrorThenDone
        /\ Speaks(ForDialect(<<Bare("error")>> \o IF done THEN <<ChatDone>> ELSE <<>>,
                             <<Bare("error")>>,
                             <<Bare(IF failed THEN "response.failed" ELSE "error")>>))
  BY DEF Fail
<1> DEFINE more == IF done THEN <<ChatDone>> ELSE <<>>
           messages == <<Bare("error")>>
           chat == messages \o more
           responses == <<Bare(IF failed THEN "response.failed" ELSE "error")>>
           evs == ForDialect(chat, messages, responses)
<1>2. messages \in Seq(Failing) /\ responses \in Seq(Failing)
  BY BareIsFailing, TuplesAreSeqs
<1>3. Speaks(evs)
  BY <1>1
<1>4. more = <<>>
  BY <1>1
<1> HIDE DEF more, messages, responses
<1>5. chat \in Seq(Failing)
  BY <1>2, <1>4, ConcatIsSeq, TuplesAreSeqs
<1> HIDE DEF chat
<1>6. evs \in Seq(Failing)
  BY <1>2, <1>5, ForDialectIsOneOf
<1> HIDE DEF evs
<1>7. up' = [up EXCEPT !.pc = "failed"] /\ up.pc \in {"start", "open", "block"}
  BY DEF Fail
<1>8. ~up.complete /\ ~up'.complete /\ up'.pc = "failed" /\ Lost' /\ ~Lost
  BY <1>7, TypeInvParts DEF IInv, FlowInv, Lost, Upstream
<1>9. Tellable \subseteq Tellable'
  BY <1>3, <1>8, TellableGrows DEF Speaks
<1>10. Failing \subseteq Tellable'
  BY <1>8 DEF Failing, Tellable, Finishes, IsError, EndName, ErrorName
<1>11. wire \in Seq(Tellable') /\ evs \in Seq(Tellable')
  BY <1>6, <1>9, <1>10, SeqMonotonic DEF IInv, FlowInv
<1>12. wire' \in Seq(Tellable')
  BY <1>3, <1>11, ConcatIsSeq DEF Speaks
<1> QED BY <1>3, <1>8, <1>12, UpstreamKeeps DEF Speaks

LEMMA CloseKeeps == TypeInv /\ IInv /\ Close => IInv'
<1> SUFFICES ASSUME TypeInv, IInv, Close PROVE IInv'
  OBVIOUS
<1>1. up'.complete = up.complete /\ up'.pc = "gone"
  BY TypeInvParts DEF Close, Upstream
<1>2. Lost => Lost'
  BY <1>1 DEF Lost
<1>3. Tellable \subseteq Tellable'
  BY <1>1, <1>2, TellableGrows DEF Close
<1>4. wire' \in Seq(Tellable')
  BY <1>3, SeqMonotonic, TuplesAreSeqs DEF IInv, FlowInv, Close
<1> QED BY <1>1, <1>2, <1>4, UpstreamKeeps DEF Close

-----------------------------------------------------------------------------
(* The converters keep it *)

LEMMA FlowParts ==
  ASSUME IInv
  PROVE  /\ wire \in Seq(Tellable) /\ pump.chunk \in Seq(Tellable) /\ pump.mid \in Seq(Tellable)
         /\ pump.error => Lost
         /\ Passthrough => pump.mid = <<>>
         /\ route.client = "messages" /\ ~Passthrough => pump.mid \in Seq(ForMessages)
BY DEF IInv, FlowInv

LEMMA TaskFlows ==
  ASSUME IInv, up' = up, route' = route, wire' \in Seq(Tellable),
         pump'.chunk \in Seq(Tellable), pump'.mid \in Seq(Tellable), pump'.error => Lost,
         Passthrough => pump'.mid = <<>>,
         route.client = "messages" /\ ~Passthrough => pump'.mid \in Seq(ForMessages')
  PROVE  FlowInv'
<1>1. Tellable \subseteq Tellable'
  BY TellableGrows DEF Lost
<1>2. wire' \in Seq(Tellable') /\ pump'.chunk \in Seq(Tellable') /\ pump'.mid \in Seq(Tellable')
  BY <1>1, SeqMonotonic
<1> QED BY <1>2 DEF IInv, FlowInv, Lost, Passthrough

LEMMA ForMessagesGrows ==
  ASSUME pump.error => pump'.error
  PROVE  ForMessages \subseteq ForMessages'
BY DEF ForMessages

\* A step that leaves what is under way as it is.
LEMMA FlowStays ==
  ASSUME IInv, up' = up, route' = route, wire' = wire, pump'.chunk = pump.chunk,
         pump'.mid = pump.mid, pump'.error = pump.error
  PROVE  FlowInv'
<1>1. route.client = "messages" /\ ~Passthrough => pump'.mid \in Seq(ForMessages')
  BY ForMessagesGrows, SeqMonotonic, FlowParts
<1> QED BY <1>1, TaskFlows, FlowParts

\* Until the first end or error the client has not been told anything.
LEMMA Undecided ==
  ASSUME TypeInv, IInv, pump.pc \in {"read", "convert"}
  PROVE  heard.end = "no" /\ ~pump.failed /\ ~heard.closed /\ log.status = 0
<1>1. heard.end \in {"no", "over", "error"}
  BY TaskParts DEF Client
<1> QED BY <1>1 DEF IInv, TellInv

LEMMA ConvertKeeps ==
  ASSUME TypeInv, IInv, pump.pc \in {"read", "convert"}, FlowInv', up' = up, route' = route,
         heard' = heard, log' = log, pump'.pc = "convert", pump'.failed = pump.failed,
         Orderly(frames', pump'.error, up.complete, ForChat, heard)
  PROVE  IInv'
<1>1. heard.end = "no" /\ ~pump.failed /\ ~heard.closed /\ log.status = 0
  BY Undecided
<1>2. BatchInv'
  BY DEF BatchInv, ForChat
<1>3. TellInv'
  BY <1>1 DEF TellInv
<1> QED BY <1>2, <1>3 DEF IInv

LEMMA ReadKeeps == TypeInv /\ IInv /\ Read => IInv'
<1> SUFFICES ASSUME TypeInv, IInv, Read PROVE IInv'
  OBVIOUS
<1>1. PICK n \in 0 .. Len(wire) :
        /\ pump' = [pump EXCEPT !.pc = "convert", !.chunk = SubSeq(wire, 1, n)]
        /\ wire' = SubSeq(wire, n + 1, Len(wire))
  BY DEF Read
<1>2. SubSeq(wire, 1, n) \in Seq(Tellable) /\ SubSeq(wire, n + 1, Len(wire)) \in Seq(Tellable)
  BY CutIsSeq, FlowParts
<1>3. /\ pump'.pc = "convert" /\ pump'.chunk \in Seq(Tellable) /\ pump'.mid = pump.mid
      /\ pump'.error = pump.error /\ pump'.failed = pump.failed
  BY <1>1, <1>2, TaskParts DEF PumpRecord
<1>4. /\ up' = up /\ route' = route /\ heard' = heard /\ log' = log /\ frames' = frames
      /\ pump.pc = "read"
  BY DEF Read, Frozen, upstream
<1>5. route.client = "messages" /\ ~Passthrough => pump'.mid \in Seq(ForMessages')
  BY <1>3, ForMessagesGrows, SeqMonotonic, FlowParts
<1>6. FlowInv'
  BY <1>1, <1>2, <1>3, <1>4, <1>5, TaskFlows, FlowParts
<1>7. frames' = <<>>
  BY <1>4 DEF IInv, BatchInv
<1>8. <<>> \in Seq(Calm)
  BY TuplesAreSeqs
<1>9. Orderly(frames', pump'.error, up.complete, ForChat, heard)
  BY <1>7, <1>8, CalmOrderly
<1> QED BY <1>3, <1>4, <1>6, <1>9, ConvertKeeps

\* A push adds to the batch what is in order by itself.
LEMMA PushKeeps ==
  ASSUME TypeInv, IInv, NEW y, pump.pc = "convert", FlowInv', up' = up, route' = route,
         heard' = heard, log' = log, pump'.pc = "convert", pump'.failed = pump.failed,
         pump'.error = (pump.error \/ y.error), frames' = frames \o y.out, y.out \in Seq(Frame),
         NEW failing, failing => pump'.error,
         Orderly(y.out, failing, up.complete, ForChat, heard)
  PROVE  IInv'
<1>1. Orderly(frames, pump.error, up.complete, ForChat, heard)
  BY DEF IInv, BatchInv
<1>2. pump.error => pump'.error
  OBVIOUS
<1>3. frames \in Seq(Frame)
  BY TaskParts
<1>4. Orderly(frames \o y.out, pump'.error, up.complete, ForChat, heard)
  BY <1>1, <1>2, <1>3, OrderlyTogether
<1> QED BY <1>4, ConvertKeeps

LEMMA TellableKinds ==
  ASSUME NEW ev \in Tellable
  PROVE  /\ ev \in Msg /\ ev \in Calm \cup Ending \cup Failing
         /\ ev \in Ending => up.complete /\ (ev.e = "[DONE]" => In("chat"))
         /\ ev \in Failing => Lost
BY KindsOfFrames DEF Tellable

LEMMA PassKeeps == TypeInv /\ IInv /\ Pass => IInv'
<1> SUFFICES ASSUME TypeInv, IInv, Pass PROVE IInv'
  OBVIOUS
<1> DEFINE ev == Head(pump.chunk)
           y == PassedThrough(ev)
           a == IF ev.e = "[DONE]" THEN <<>> ELSE <<ev>>
           b == IF Ends(ev) THEN <<Done>> ELSE <<>>
<1>1. ev \in Tellable /\ Tail(pump.chunk) \in Seq(Tellable)
  BY HeadsAndTails, FlowParts DEF Pass
<1>2. /\ ev \in Msg /\ ev \in Calm \cup Ending \cup Failing
      /\ ev \in Ending => up.complete /\ (ev.e = "[DONE]" => In("chat"))
      /\ ev \in Failing => Lost
  BY <1>1, TellableKinds
<1>3. TypedYield(y) /\ y.error = IsError(ev) /\ y.out = a \o b /\ y.out \in Seq(Frame)
  BY <1>2, PassedYields
<1>4. pump' = [Collect(y) EXCEPT !.chunk = Tail(@)] /\ frames' = frames \o y.out
      /\ pump.pc = "convert" /\ Passthrough /\ up' = up /\ route' = route /\ heard' = heard
      /\ log' = log /\ wire' = wire
  BY DEF Pass, Frozen, upstream
<1> HIDE DEF y
<1>5. LET c == Collect(y)
      IN /\ c \in PumpRecord /\ c.pc = pump.pc /\ c.failed = pump.failed
         /\ c.chunk = pump.chunk /\ c.mid = pump.mid
         /\ c.error = (pump.error \/ y.error)
  BY <1>3, CollectTyped
<1>6. /\ pump'.pc = "convert" /\ pump'.failed = pump.failed /\ pump'.mid = pump.mid
      /\ pump'.chunk = Tail(pump.chunk) /\ pump'.error = (pump.error \/ y.error)
  BY <1>4, <1>5 DEF PumpRecord
<1> HIDE DEF ev
<1>7. pump'.error => Lost
  BY <1>2, <1>3, <1>6, FlowParts, KindsOfFrames
<1>8. FlowInv'
  BY <1>1, <1>4, <1>6, <1>7, TaskFlows, FlowParts
<1>9. Orderly(y.out, y.error, up.complete, ForChat, heard)
  <2>1. CASE ev \in Calm
    <3>1. a = <<ev>> /\ b = <<>>
      BY <2>1 DEF Calm, Ends, EndName, ErrorName
    <3>2. <<ev>> \in Seq(Calm) /\ <<>> \in Seq(Calm)
      BY <2>1, TuplesAreSeqs
    <3> HIDE DEF a, b
    <3>3. y.out \in Seq(Calm)
      BY <1>3, <3>1, <3>2, ConcatIsSeq
    <3> QED BY <3>3, CalmOrderly
  <2>2. CASE ev \in Ending /\ ev.e = "[DONE]"
    <3>1. y.out = <<Done>>
      BY <1>3, <2>2 DEF Ends
    <3>2. ForChat
      BY <1>2, <1>4, <2>2 DEF ForChat, In, Passthrough
    <3> QED BY <1>2, <2>2, <3>1, <3>2, PairOrderly
  <2>3. CASE ev \in Ending /\ ev.e # "[DONE]"
    <3>a. a = <<ev>> /\ b = <<Done>>
      BY <2>3 DEF Ends, Ending, EndName
    <3>b. <<ev>> \o <<Done>> = <<ev, Done>>
      BY PairJoined
    <3> HIDE DEF a, b
    <3>1. y.out = <<ev, Done>>
      BY <1>3, <3>a, <3>b
    <3> QED BY <1>2, <2>3, <3>1, PairOrderly
  <2>4. CASE ev \in Failing
    <3>a. a = <<ev>> /\ (b = <<Done>> \/ b = <<>>)
      BY <2>4 DEF Failing, ErrorName
    <3>b. <<ev>> \o <<>> = <<ev>>
      OBVIOUS
    <3> HIDE DEF a, b
    <3>1. y.out = <<ev, Done>> \/ y.out = <<ev>>
      BY <1>3, <3>a, <3>b, PairJoined
    <3>2. y.error
      BY <1>3, <2>4, KindsOfFrames
    <3> QED BY <2>4, <3>1, <3>2, PairOrderly
  <2> QED BY <1>2, <2>1, <2>2, <2>3, <2>4
<1>10. y.error => pump'.error
  BY <1>6
<1> QED BY <1>3, <1>4, <1>6, <1>8, <1>9, <1>10, PushKeeps

LEMMA InwardsKeeps == TypeInv /\ IInv /\ Inwards => IInv'
<1> SUFFICES ASSUME TypeInv, IInv, Inwards PROVE IInv'
  OBVIOUS
<1> DEFINE ev == Head(pump.chunk)
           y == FirstStage(ev)
<1>1. ev \in Tellable /\ Tail(pump.chunk) \in Seq(Tellable)
  BY HeadsAndTails, FlowParts DEF Inwards
<1>2. /\ ev \in Msg /\ ev \in Calm \cup Ending \cup Failing
      /\ ev \in Ending => up.complete /\ (ev.e = "[DONE]" => In("chat"))
      /\ ev \in Failing => Lost
  BY <1>1, TellableKinds
<1>3. /\ y.st \in Inward /\ TypedYield(y) /\ y.out \in Seq(Msg)
      /\ ~In("messages") => Inwarded(y, ev)
      /\ In("messages") => y.out = <<ev>> /\ ~y.error
  BY <1>2, FirstStageYields
<1>4. /\ pump' = [Collect(y) EXCEPT !.chunk = Tail(@), !.mid = y.out] /\ frames' = frames
      /\ pump.pc = "convert" /\ ~Passthrough /\ up' = up /\ route' = route /\ heard' = heard
      /\ log' = log /\ wire' = wire
  BY DEF Inwards, FirstStage, Frozen, upstream
<1> HIDE DEF y
<1>5. LET c == Collect(y)
      IN /\ c \in PumpRecord /\ c.pc = pump.pc /\ c.failed = pump.failed
         /\ c.chunk = pump.chunk /\ c.error = (pump.error \/ y.error)
  BY <1>3, CollectTyped
<1>6. /\ pump'.pc = "convert" /\ pump'.failed = pump.failed /\ pump'.mid = y.out
      /\ pump'.chunk = Tail(pump.chunk) /\ pump'.error = (pump.error \/ y.error)
  BY <1>4, <1>5 DEF PumpRecord
<1> HIDE DEF ev
<1>7. y.error => ev \in Failing
  BY <1>2, <1>3 DEF Inwarded
<1>8. Stopping \subseteq Ending /\ Calm \subseteq Tellable
  BY CalmTellable DEF Stopping
<1>9. y.out \in Seq(Tellable)
  <2>1. CASE In("messages")
    BY <1>1, <1>3, <2>1, TuplesAreSeqs
  <2>2. CASE ~In("messages") /\ ev \in Calm
    BY <1>3, <1>8, <2>2, SeqMonotonic DEF Inwarded
  <2>3. CASE ~In("messages") /\ ev \in Ending
    <3>1. Calm \cup Stopping \subseteq Tellable
      BY <1>2, <1>8, <2>3, KindsOfFrames DEF Tellable, Stopping
    <3> QED BY <1>3, <2>3, <3>1, SeqMonotonic DEF Inwarded
  <2>4. CASE ~In("messages") /\ ev \in Failing
    <3>1. Calm \cup Failing \subseteq Tellable
      <4>1. \A f \in Failing : f.e # "[DONE]"
        BY DEF Failing, ErrorName
      <4> QED BY <1>2, <1>8, <2>4, <4>1, KindsOfFrames DEF Tellable
    <3> QED BY <1>3, <2>4, <3>1, SeqMonotonic DEF Inwarded
  <2> QED BY <1>2, <2>1, <2>2, <2>3, <2>4
<1>10. route.client = "messages" => y.out \in Seq(ForMessages')
  <2> SUFFICES ASSUME route.client = "messages" PROVE y.out \in Seq(ForMessages')
    OBVIOUS
  <2>1. Inwarded(y, ev)
    BY <1>3, <1>4 DEF In, Passthrough
  <2>2. Calm \subseteq ForMessages' /\ Stopping \subseteq ForMessages'
    BY KindsOfFrames DEF ForMessages, Stopping, Ending, Calm
  <2>3. CASE y.out \in Seq(Calm)
    BY <2>2, <2>3, SeqMonotonic
  <2>4. CASE ev \in Ending
    <3>1. Calm \cup Stopping \subseteq ForMessages'
      BY <2>2
    <3> QED BY <2>1, <2>4, <3>1, SeqMonotonic DEF Inwarded
  <2>5. CASE ev \in Failing /\ y.error
    <3>1. Calm \cup Failing \subseteq ForMessages'
      BY <1>6, <2>2, <2>5, KindsOfFrames DEF ForMessages, Failing
    <3> QED BY <2>1, <2>5, <3>1, SeqMonotonic DEF Inwarded
  <2> QED BY <1>2, <2>1, <2>3, <2>4, <2>5 DEF Inwarded
<1>11. pump'.error => Lost
  BY <1>2, <1>6, <1>7, FlowParts
<1>12. FlowInv'
  BY <1>1, <1>4, <1>6, <1>9, <1>10, <1>11, TaskFlows, FlowParts
<1>13. Orderly(frames', pump'.error, up.complete, ForChat, heard)
  <2>1. Orderly(frames, pump.error, up.complete, ForChat, heard)
    BY <1>4 DEF IInv, BatchInv
  <2>2. pump.error => pump'.error
    BY <1>6
  <2> QED BY <1>4, <2>1, <2>2, OrderlyStill
<1> QED BY <1>4, <1>6, <1>12, <1>13, ConvertKeeps

LEMMA OutwardsKeeps == TypeInv /\ IInv /\ Outwards => IInv'
<1> SUFFICES ASSUME TypeInv, IInv, Outwards PROVE IInv'
  OBVIOUS
<1> DEFINE ev == Head(pump.mid)
           y == SecondStage(ev)
           end == IF ev.e = "message_stop" THEN <<Done>> ELSE <<>>
<1>0. pump.mid # <<>> /\ ~Passthrough
  BY FlowParts DEF Outwards
<1>1. ev \in Tellable /\ Tail(pump.mid) \in Seq(Tellable)
  BY <1>0, HeadsAndTails, FlowParts
<1>2. /\ ev \in Msg /\ ev \in Calm \cup Ending \cup Failing
      /\ ev \in Ending => up.complete
      /\ ev \in Failing => Lost
  BY <1>1, TellableKinds
<1>a. route.client = "messages" => ev \in ForMessages /\ Tail(pump.mid) \in Seq(ForMessages)
  BY <1>0, HeadsAndTails, FlowParts
<1>3. /\ IsOutward(y.st) /\ TypedYield(y)
      /\ route.client = "messages" => ~y.error /\ y.out = <<ev>> \o end
      /\ route.client # "messages" => Outwarded(y, ev)
      /\ route.client = "chat" /\ ev \in Ending =>
           y.out = <<>> \/ \E x \in Seq(Calm) : y.out = x \o <<Done>>
      /\ route.client = "responses" /\ ev \in Ending =>
           y.out = <<>> \/ \E c \in Ending : y.out = <<c, Done>>
      /\ y.out \in Seq(Frame)
  BY <1>2, SecondStageYields, SecondStageFrames
<1>4. /\ pump' = [Collect(y) EXCEPT !.mid = Tail(@)] /\ frames' = frames \o y.out
      /\ pump.pc = "convert" /\ up' = up /\ route' = route /\ heard' = heard
      /\ log' = log /\ wire' = wire
  BY DEF Outwards, SecondStage, Frozen, upstream
<1> HIDE DEF y
<1>5. LET c == Collect(y)
      IN /\ c \in PumpRecord /\ c.pc = pump.pc /\ c.failed = pump.failed
         /\ c.chunk = pump.chunk /\ c.mid = pump.mid
         /\ c.error = (pump.error \/ y.error)
  BY <1>3, CollectTyped
<1>6. /\ pump'.pc = "convert" /\ pump'.failed = pump.failed /\ pump'.mid = Tail(pump.mid)
      /\ pump'.chunk = pump.chunk /\ pump'.error = (pump.error \/ y.error)
  BY <1>4, <1>5 DEF PumpRecord
<1> HIDE DEF ev
<1>7. pump'.error => Lost
  <2>1. y.error => ev \in Failing
    BY <1>2, <1>3 DEF Outwarded
  <2> QED BY <1>2, <1>6, <2>1, FlowParts
<1>8. FlowInv'
  <2>1. route.client = "messages" => pump'.mid \in Seq(ForMessages')
    BY <1>6, <1>a, ForMessagesGrows, SeqMonotonic
  <2> QED BY <1>0, <1>1, <1>4, <1>6, <1>7, <2>1, TaskFlows, FlowParts
<1>b. <<>> \in Seq(Calm) /\ <<Done>> \in Seq(Frame) /\ \A x \in Seq(Calm) : x \in Seq(Frame)
  BY TuplesAreSeqs, MsgIsEvent, CalmIsMsg, SeqMonotonic
<1>9. Orderly(y.out, pump'.error, up.complete, ForChat, heard)
  <2>1. CASE route.client = "messages" /\ ev \in Calm
    <3>1. y.out = <<ev>>
      BY <1>3, <2>1 DEF Calm, EndName
    <3>2. <<ev>> \in Seq(Calm)
      BY <2>1, TuplesAreSeqs
    <3> QED BY <3>1, <3>2, CalmOrderly
  <2>2. CASE route.client = "messages" /\ ev \in Ending
    <3>1. ev.e = "message_stop"
      BY <1>a, <2>2, KindsOfFrames DEF ForMessages
    <3>2. y.out = <<ev, Done>>
      BY <1>3, <2>2, <3>1
    <3> QED BY <1>2, <2>2, <3>2, PairOrderly
  <2>3. CASE route.client = "messages" /\ ev \in Failing
    <3>1. y.out = <<ev>>
      BY <1>3, <2>3 DEF Failing, ErrorName
    <3>2. pump'.error
      BY <1>6, <1>a, <2>3, KindsOfFrames DEF ForMessages
    <3> QED BY <2>3, <3>1, <3>2, PairOrderly
  <2>4. CASE route.client # "messages" /\ ev \in Calm
    BY <1>3, <2>4, CalmOrderly DEF Outwarded
  <2>5. CASE route.client # "messages" /\ ev \in Failing
    BY <1>3, <1>b, <2>5, CalmOrderly DEF Outwarded
  <2>6. CASE y.out = <<>>
    BY <1>b, <2>6, CalmOrderly
  <2>7. CASE route.client = "chat" /\ ev \in Ending /\ y.out # <<>>
    <3>1. PICK x \in Seq(Calm) : y.out = x \o <<Done>>
      BY <1>3, <2>7
    <3>2. Orderly(x, pump'.error, up.complete, ForChat, heard)
      BY CalmOrderly
    <3>3. Orderly(<<Done>>, pump'.error, up.complete, ForChat, heard)
      BY <1>2, <2>7, PairOrderly DEF ForChat
    <3> DEFINE t == <<Done>>
    <3>4. t \in Seq(Frame) /\ x \in Seq(Frame) /\ y.out = x \o t
          /\ Orderly(t, pump'.error, up.complete, ForChat, heard)
      BY <1>b, <3>1, <3>3
    <3> HIDE DEF t
    <3>5. pump'.error => pump'.error
      OBVIOUS
    <3>6. Orderly(x \o t, pump'.error, up.complete, ForChat, heard)
      BY <3>2, <3>4, <3>5, OrderlyTogether
    <3> QED BY <3>4, <3>6
  <2>8. CASE route.client = "responses" /\ ev \in Ending /\ y.out # <<>>
    <3>1. PICK c \in Ending : y.out = <<c, Done>>
      BY <1>3, <2>8
    <3> QED BY <1>2, <2>8, <3>1, PairOrderly
  <2>9. route.client \in {"chat", "messages", "responses"}
    BY RouteIsRoute DEF Dialect
  <2> QED BY <1>2, <2>1, <2>2, <2>3, <2>4, <2>5, <2>6, <2>7, <2>8, <2>9
<1> QED BY <1>3, <1>4, <1>6, <1>8, <1>9, PushKeeps

-----------------------------------------------------------------------------
(* The verdicts keep it *)

\* Nothing is under way that was not, and the client is told at most that it failed.
LEMMA VerdictKeeps ==
  ASSUME TypeInv, IInv, pump.pc \in {"read", "convert"}, up' = up, route' = route,
         wire' = wire, heard' = heard, log' = log, pump'.chunk = pump.chunk,
         pump'.mid = pump.mid, pump'.error = pump.error,
         \/ /\ pump'.pc \in {"read", "convert", "failover"} /\ pump'.failed = pump.failed
            /\ frames' = <<>>
         \/ /\ pump'.pc = "send" /\ Orderly(frames', pump'.failed, up.complete, ForChat, heard)
            /\ pump'.failed => TellsOfError(frames', heard)
  PROVE  IInv'
<1>1. heard.end = "no" /\ ~pump.failed /\ ~heard.closed /\ log.status = 0
  BY Undecided
<1>2. FlowInv'
  BY FlowStays
<1>3. <<>> \in Seq(Calm)
  BY TuplesAreSeqs
<1>4. frames' = <<>> => Orderly(frames', pump'.error, up.complete, ForChat, heard)
  BY <1>3, CalmOrderly
<1>5. BatchInv'
  BY <1>4 DEF BatchInv, ForChat
<1>6. TellInv'
  BY <1>1 DEF TellInv
<1> QED BY <1>2, <1>5, <1>6 DEF IInv

LEMMA ApologyTells ==
  ASSUME NEW complete, NEW chat, NEW h
  PROVE  Orderly(Apology, TRUE, complete, chat, h) /\ TellsOfError(Apology, h) /\ Marked(Apology)
<1> DEFINE e == Bare("error")
<1>1. e \in Failing /\ Apology = <<e, Done>>
  BY BareIsFailing DEF Apology
<1>2. ~Finishes(e) /\ IsError(e) /\ ~Finishes(Done) /\ e # Done
  BY <1>1, KindsOfFrames
<1> HIDE DEF e
<1>3. Orderly(<<e, Done>>, TRUE, complete, chat, h)
  BY <1>1, PairOrderly
<1>4. TellsOfError(<<e, Done>>, h) /\ Marked(<<e, Done>>)
  BY <1>2 DEF TellsOfError, Marked, ErrorBefore
<1> QED BY <1>1, <1>3, <1>4

LEMMA FailedKeeps == TypeInv /\ IInv /\ Failed => IInv'
<1> SUFFICES ASSUME TypeInv, IInv, Failed PROVE IInv'
  OBVIOUS
<1>1. /\ pump.pc = "convert" /\ up' = up /\ route' = route /\ wire' = wire /\ heard' = heard
      /\ log' = log /\ pump.error
  BY DEF Failed, Converted, Frozen, upstream
<1>2. CASE GiveUp
  <2>1. /\ pump'.pc = "failover" /\ pump'.failed = pump.failed /\ pump'.chunk = pump.chunk
        /\ pump'.mid = pump.mid /\ pump'.error = pump.error /\ frames' = <<>>
    BY <1>2, TaskParts DEF GiveUp, Become, PumpRecord
  <2> QED BY <1>1, <2>1, VerdictKeeps
<1>3. CASE /\ Become([pump EXCEPT !.pc = "send", !.failed = TRUE])
           /\ frames' = frames \o IF HasErrorEvent THEN <<Done>> ELSE Apology
  <2>1. /\ pump'.pc = "send" /\ pump'.failed = TRUE /\ pump'.chunk = pump.chunk
        /\ pump'.mid = pump.mid /\ pump'.error = pump.error
    BY <1>3, TaskParts DEF Become, PumpRecord
  <2>2. ~up.complete
    BY <1>1, FlowParts DEF Lost
  <2>3. Orderly(frames, pump.error, up.complete, ForChat, heard) /\ frames \in Seq(Frame)
    BY <1>1, TaskParts DEF IInv, BatchInv
  <2> DEFINE word == IF HasErrorEvent THEN <<Done>> ELSE Apology
  <2>4. word \in Seq(Frame) /\ frames' = frames \o word
    BY <1>3, ApologyIsFrames
  <2>5. Marked(word)
    <3>1. Marked(<<Done>>)
      BY DEF Marked
    <3>2. Marked(Apology)
      BY ApologyTells
    <3> QED BY <3>1, <3>2
  <2>6. Orderly(frames \o word, TRUE, up.complete, ForChat, heard)
    <3>1. CASE HasErrorEvent
      BY <2>3, <3>1, MarkAppended DEF HasErrorEvent
    <3>2. CASE ~HasErrorEvent
      BY <2>3, <3>2, ApologyTells, ApologyIsFrames, OrderlyTogether
    <3> QED BY <3>1, <3>2
  <2> HIDE DEF word
  <2>a. Marked(frames \o word)
    BY <2>3, <2>4, <2>5, LastIsMark
  <2>b. Orderly(frames \o word, pump'.failed, up.complete, ForChat, heard)
    BY <2>1, <2>6
  <2>7. TellsOfError(frames \o word, heard)
    BY <2>2, <2>a, <2>b, OrderlyTells
  <2> QED BY <1>1, <2>1, <2>4, <2>6, <2>7, VerdictKeeps
<1> QED BY <1>2, <1>3 DEF Failed

LEMMA FruitlessKeeps == TypeInv /\ IInv /\ Fruitless => IInv'
<1> SUFFICES ASSUME TypeInv, IInv, Fruitless PROVE IInv'
  OBVIOUS
<1>1. /\ pump.pc = "convert" /\ up' = up /\ route' = route /\ wire' = wire /\ heard' = heard
      /\ log' = log /\ frames' = <<>>
  BY DEF Fruitless, Converted, Frozen, upstream
<1>2. /\ pump'.pc = "read" /\ pump'.failed = pump.failed /\ pump'.chunk = pump.chunk
      /\ pump'.mid = pump.mid /\ pump'.error = pump.error
  BY TaskParts DEF Fruitless, Become, PumpRecord
<1> QED BY <1>1, <1>2, VerdictKeeps

LEMMA ElapseKeeps == TypeInv /\ IInv /\ Elapse => IInv'
<1> SUFFICES ASSUME TypeInv, IInv, Elapse PROVE IInv'
  OBVIOUS
<1>1. /\ pump.pc \in {"read", "convert"} /\ up' = up /\ route' = route /\ wire' = wire
      /\ heard' = heard /\ log' = log /\ frames' = <<>>
  BY DEF Elapse, Frozen, upstream
<1>2. /\ pump'.pc = pump.pc /\ pump'.failed = pump.failed /\ pump'.chunk = pump.chunk
      /\ pump'.mid = pump.mid /\ pump'.error = pump.error
  BY TaskParts DEF Elapse, PumpRecord
<1> QED BY <1>1, <1>2, VerdictKeeps

LEMMA FruitfulKeeps == TypeInv /\ IInv /\ Fruitful => IInv'
<1> SUFFICES ASSUME TypeInv, IInv, Fruitful PROVE IInv'
  OBVIOUS
<1>1. /\ pump.pc = "convert" /\ up' = up /\ route' = route /\ wire' = wire /\ heard' = heard
      /\ log' = log /\ ~pump.error
  BY DEF Fruitful, Converted, Frozen, upstream
<1>2. CASE GiveUp
  <2>1. /\ pump'.pc = "failover" /\ pump'.failed = pump.failed /\ pump'.chunk = pump.chunk
        /\ pump'.mid = pump.mid /\ pump'.error = pump.error /\ frames' = <<>>
    BY <1>2, TaskParts DEF GiveUp, Become, PumpRecord
  <2> QED BY <1>1, <2>1, VerdictKeeps
<1>3. CASE Become([pump EXCEPT !.pc = "send", !.committed = TRUE]) /\ UNCHANGED frames
  <2>1. /\ pump'.pc = "send" /\ pump'.failed = pump.failed /\ pump'.chunk = pump.chunk
        /\ pump'.mid = pump.mid /\ pump'.error = pump.error
    BY <1>3, TaskParts DEF Become, PumpRecord
  <2>2. ~pump'.failed
    BY <1>1, <2>1, Undecided
  <2>3. Orderly(frames, pump.error, up.complete, ForChat, heard)
    BY <1>1 DEF IInv, BatchInv
  <2>4. pump.error => pump'.failed
    BY <1>1
  <2>5. Orderly(frames', pump'.failed, up.complete, ForChat, heard)
    BY <1>3, <2>3, <2>4, OrderlyStill
  <2> QED BY <1>1, <2>1, <2>2, <2>5, VerdictKeeps
<1> QED BY <1>2, <1>3 DEF Fruitful

LEMMA BrokenKeeps == TypeInv /\ IInv /\ Broken => IInv'
<1> SUFFICES ASSUME TypeInv, IInv, Broken PROVE IInv'
  OBVIOUS
<1>1. /\ pump.pc = "read" /\ up' = up /\ route' = route /\ wire' = wire /\ heard' = heard
      /\ log' = log
  BY DEF Broken, Frozen, upstream
<1>2. CASE GiveUp
  <2>1. /\ pump'.pc = "failover" /\ pump'.failed = pump.failed /\ pump'.chunk = pump.chunk
        /\ pump'.mid = pump.mid /\ pump'.error = pump.error /\ frames' = <<>>
    BY <1>2, TaskParts DEF GiveUp, Become, PumpRecord
  <2> QED BY <1>1, <2>1, VerdictKeeps
<1>3. CASE Become([pump EXCEPT !.pc = "send", !.failed = TRUE]) /\ frames' = Apology
  <2>1. /\ pump'.pc = "send" /\ pump'.failed = TRUE /\ pump'.chunk = pump.chunk
        /\ pump'.mid = pump.mid /\ pump'.error = pump.error
    BY <1>3, TaskParts DEF Become, PumpRecord
  <2> QED BY <1>1, <1>3, <2>1, ApologyTells, VerdictKeeps
<1> QED BY <1>2, <1>3 DEF Broken

-----------------------------------------------------------------------------
(* Sending keeps it *)

LEMMA SendFailsKeeps == TypeInv /\ IInv /\ SendFails => IInv'
<1> SUFFICES ASSUME TypeInv, IInv, SendFails PROVE IInv'
  OBVIOUS
<1>1. /\ pump.pc = "send" /\ up' = up /\ route' = route /\ wire' = wire /\ heard' = heard
      /\ log' = log /\ frames' = <<>>
  BY DEF SendFails, Frozen, upstream
<1>2. /\ pump'.pc = "closing" /\ pump'.failed = pump.failed /\ pump'.chunk = pump.chunk
      /\ pump'.mid = pump.mid /\ pump'.error = pump.error
  BY TaskParts DEF SendFails, Become, PumpRecord
<1>3. FlowInv'
  BY <1>1, <1>2, FlowStays
<1>4. BatchInv'
  BY <1>1, <1>2 DEF BatchInv
<1>5. TellInv'
  BY <1>1, <1>2 DEF IInv, TellInv
<1> QED BY <1>3, <1>4, <1>5 DEF IInv

LEMMA SentKeeps == TypeInv /\ IInv /\ Sent => IInv'
<1> SUFFICES ASSUME TypeInv, IInv, Sent PROVE IInv'
  OBVIOUS
<1>1. /\ pump.pc = "send" /\ up' = up /\ route' = route /\ wire' = wire /\ heard' = heard
      /\ log' = log /\ frames = <<>> /\ frames' = <<>>
  BY DEF Sent, Frozen, upstream
<1>2. /\ pump'.pc = "read" /\ pump'.failed = pump.failed /\ pump'.chunk = pump.chunk
      /\ pump'.mid = pump.mid /\ pump'.error = pump.error
  BY TaskParts DEF Sent, Become, PumpRecord
<1>3. FlowInv'
  BY <1>1, <1>2, FlowStays
<1>4. BatchInv'
  BY <1>1, <1>2 DEF BatchInv
<1>5. ~Marked(frames)
  BY <1>1 DEF Marked
<1>6. ~pump.failed /\ heard.end # "over"
  BY <1>1, <1>5 DEF IInv, TellInv, TellsOfError
<1>7. TellInv'
  BY <1>1, <1>2, <1>6 DEF IInv, TellInv
<1> QED BY <1>3, <1>4, <1>7 DEF IInv

LEMMA SettleKeeps == TypeInv /\ IInv /\ Settle => IInv'
<1> SUFFICES ASSUME TypeInv, IInv, Settle PROVE IInv'
  OBVIOUS
<1>1. /\ pump.pc = "closing" /\ up' = up /\ route' = route /\ wire' = wire /\ heard' = heard
      /\ frames' = frames
      /\ log'.status = IF pump.usage = NoUsage THEN 0 ELSE IF pump.failed THEN 502 ELSE 200
  BY DEF Settle, upstream
<1>2. /\ pump'.pc = "ended" /\ pump'.failed = pump.failed /\ pump'.chunk = pump.chunk
      /\ pump'.mid = pump.mid /\ pump'.error = pump.error
  BY TaskParts DEF Settle, Become, PumpRecord
<1>3. FlowInv'
  BY <1>1, <1>2, FlowStays
<1>4. BatchInv'
  BY <1>1, <1>2 DEF IInv, BatchInv
<1>5. TellInv'
  BY <1>1, <1>2 DEF IInv, TellInv
<1> QED BY <1>3, <1>4, <1>5 DEF IInv

LEMMA LeaveKeeps == TypeInv /\ IInv /\ Leave => IInv'
<1> SUFFICES ASSUME TypeInv, IInv, Leave PROVE IInv'
  OBVIOUS
<1>1. /\ pump.pc \in {"read", "send"} /\ up' = up /\ route' = route /\ wire' = wire
      /\ log' = log
  BY DEF Leave, upstream
<1>2. heard'.end = heard.end /\ heard'.closed = heard.closed /\ heard'.confused = heard.confused
  BY TaskParts DEF Leave, Client
<1>3. CASE UNCHANGED <<pump, frames>>
  <2>1. pump' = pump /\ frames' = frames
    BY <1>3
  <2>2. FlowInv'
    BY <1>1, <2>1, FlowStays
  <2>3. BatchInv'
    <3>1. pump.pc = "send" => Orderly(frames, pump.failed, up.complete, ForChat, heard')
      BY <1>2, OrderlyStill DEF IInv, BatchInv
    <3> QED BY <1>1, <2>1, <3>1 DEF IInv, BatchInv, ForChat
  <2>4. TellsOfError(frames, heard) => TellsOfError(frames, heard')
    BY <1>2 DEF TellsOfError
  <2>5. TellInv'
    BY <1>1, <1>2, <2>1, <2>4 DEF IInv, TellInv
  <2> QED BY <2>2, <2>3, <2>5 DEF IInv
<1>4. CASE Become([pump EXCEPT !.pc = "ended"]) /\ frames' = <<>>
  <2>1. /\ pump'.pc = "ended" /\ pump'.failed = pump.failed /\ pump'.chunk = pump.chunk
        /\ pump'.mid = pump.mid /\ pump'.error = pump.error
    BY <1>4, TaskParts DEF Become, PumpRecord
  <2>2. FlowInv'
    BY <1>1, <2>1, FlowStays
  <2>3. BatchInv'
    BY <1>4, <2>1 DEF BatchInv
  <2>4. TellInv'
    BY <1>1, <1>2, <2>1 DEF IInv, TellInv
  <2> QED BY <2>2, <2>3, <2>4 DEF IInv
<1> QED BY <1>3, <1>4 DEF Leave

LEMMA SendKeeps == TypeInv /\ IInv /\ Send => IInv'
<1> SUFFICES ASSUME TypeInv, IInv, Send PROVE IInv'
  OBVIOUS
<1> DEFINE f == Head(frames)
<1>1. /\ pump.pc = "send" /\ frames # <<>> /\ heard' = Hears(f)
      /\ IF f = Done
         THEN Become([pump EXCEPT !.pc = "closing"]) /\ frames' = <<>>
         ELSE UNCHANGED pump /\ frames' = Tail(frames)
      /\ up' = up /\ route' = route /\ wire' = wire /\ log' = log
  BY DEF Send, upstream
<1>2. f \in Frame /\ f = frames[1] /\ frames \in Seq(Frame) /\ 1 \in DOMAIN frames
  <2>1. f \in Frame /\ frames \in Seq(Frame)
    BY <1>1, HeadsAndTails, TaskParts
  <2>2. Len(frames) \in Nat /\ Len(frames) # 0 /\ DOMAIN frames = 1 .. Len(frames)
    BY <1>1, <2>1, EmptySeq
  <2> QED BY <2>1, <2>2
<1>3. Conveyed(heard', f)
  BY <1>1, <1>2, HearsTyped
<1> HIDE DEF f
<1>4. Orderly(frames, pump.failed, up.complete, ForChat, heard)
  BY <1>1 DEF IInv, BatchInv
<1>5. /\ Finishes(f) => up.complete /\ Marked(frames)
      /\ f = Done => up.complete \/ heard.end = "error"
      /\ IsError(f) => pump.failed
      /\ f = Done /\ ~pump.failed /\ ~ForChat => heard.end = "over" \/ heard.confused
  <2>1. ~ErrorBefore(frames, 1) /\ ~EndBefore(frames, 1)
    BY <1>2 DEF ErrorBefore, EndBefore
  <2> QED BY <1>2, <1>4, <2>1 DEF Orderly, Marked
<1>6. pump.failed => ~Finishes(f) /\ (f = Done => heard.end = "error") /\ TellsOfError(frames, heard)
  <2>1. ~ErrorBefore(frames, 1)
    BY <1>2 DEF ErrorBefore
  <2> QED BY <1>1, <1>2, <2>1 DEF IInv, TellInv, TellsOfError
<1>7. heard.end \in {"no", "over", "error"} /\ heard'.end \in {"no", "over", "error"}
  BY <1>3, TaskParts DEF Conveyed, Client
<1>8. f \in Calm \cup Ending \cup Failing \cup {Done}
  BY <1>2, KindsOfFrames DEF Frame
<1>9. /\ heard.end = "error" => pump.failed
      /\ heard.end = "over" => up.complete /\ ~pump.failed /\ Marked(frames)
      /\ ~heard.closed /\ log.status = 0
  BY <1>1 DEF IInv, TellInv
<1>10. CASE f = Done
  <2>1. /\ pump'.pc = "closing" /\ pump'.failed = pump.failed /\ pump'.chunk = pump.chunk
        /\ pump'.mid = pump.mid /\ pump'.error = pump.error /\ frames' = <<>>
    BY <1>1, <1>10, TaskParts DEF Become, PumpRecord
  <2>2. FlowInv'
    BY <1>1, <2>1, FlowStays
  <2>3. BatchInv'
    BY <2>1 DEF BatchInv
  <2>4. /\ heard.confused => heard'.confused
        /\ heard'.end = IF heard.end = "no" /\ ForChat THEN "over" ELSE heard.end
    BY <1>3, <1>10 DEF Conveyed
  <2>5. heard'.end = "over" => up.complete /\ ~pump.failed
    BY <1>5, <1>6, <1>9, <1>10, <2>4
  <2>6. heard'.end = "error" => pump.failed
    BY <1>9, <2>4
  <2>7. IF pump.failed THEN heard'.end = "error" ELSE heard'.end = "over" \/ heard'.confused
    BY <1>5, <1>6, <1>7, <1>9, <1>10, <2>4
  <2>8. TellInv'
    BY <1>1, <1>9, <2>1, <2>5, <2>6, <2>7 DEF TellInv
  <2> QED BY <2>2, <2>3, <2>8 DEF IInv
<1>11. CASE f # Done
  <2>1. pump' = pump /\ frames' = Tail(frames)
    BY <1>1, <1>11
  <2>2. FlowInv'
    BY <1>1, <2>1, FlowStays
  <2>3. heard'.closed = heard.closed /\ (heard.confused => heard'.confused)
    BY <1>3, <1>11 DEF Conveyed
  <2>4. heard.end = "error" \/ IsError(f) => heard'.end = "error"
    BY <1>3, <1>8, <1>11, KindsOfFrames DEF Conveyed
  <2>5. ~pump.failed /\ (Finishes(f) \/ heard.end = "over") => heard'.end = "over" \/ heard'.confused
    BY <1>3, <1>5, <1>8, <1>9, <1>11, KindsOfFrames DEF Conveyed
  <2>6. heard'.end = "error" => pump.failed
    BY <1>3, <1>5, <1>7, <1>8, <1>9, <1>11, KindsOfFrames DEF Conveyed
  <2>7. heard'.end = "over" => up.complete /\ ~pump.failed /\ Marked(frames)
    BY <1>3, <1>5, <1>6, <1>7, <1>8, <1>9, <1>11, KindsOfFrames DEF Conveyed
  <2>8. Orderly(Tail(frames), pump.failed, up.complete, ForChat, heard')
    BY <1>1, <1>2, <1>4, <1>11, <2>3, <2>4, <2>5, RestOrderly DEF f
  <2>9. /\ Marked(frames) => Marked(Tail(frames))
        /\ TellsOfError(frames, heard) => TellsOfError(Tail(frames), heard')
    BY <1>1, <1>2, <1>11, <2>4, RestTells DEF f
  <2>10. BatchInv'
    BY <1>1, <2>1, <2>8 DEF BatchInv, ForChat
  <2>11. TellInv'
    BY <1>1, <1>6, <1>9, <2>1, <2>3, <2>6, <2>7, <2>9 DEF TellInv
  <2> QED BY <2>2, <2>10, <2>11 DEF IInv
<1> QED BY <1>10, <1>11

-----------------------------------------------------------------------------
(* Every step keeps it *)

LEMMA InitKeeps == Init => IInv
<1> SUFFICES ASSUME Init PROVE IInv
  OBVIOUS
<1>1. <<>> \in Seq(Tellable) /\ <<>> \in Seq(ForMessages)
  BY TuplesAreSeqs
<1>2. FlowInv
  BY <1>1 DEF Init, FlowInv
<1>3. BatchInv
  BY DEF Init, BatchInv
<1>4. TellInv
  BY DEF Init, TellInv
<1> QED BY <1>2, <1>3, <1>4 DEF IInv

LEMMA UnchangedKeeps == TypeInv /\ IInv /\ UNCHANGED vars => IInv'
<1> SUFFICES ASSUME TypeInv, IInv, UNCHANGED vars PROVE IInv'
  OBVIOUS
<1>1. /\ route' = route /\ up' = up /\ wire' = wire /\ pump' = pump /\ frames' = frames
      /\ heard' = heard /\ log' = log
  BY DEF vars, upstream
<1>2. FlowInv'
  BY <1>1, FlowStays
<1>3. BatchInv'
  BY <1>1 DEF IInv, BatchInv, ForChat
<1>4. TellInv'
  BY <1>1 DEF IInv, TellInv
<1> QED BY <1>2, <1>3, <1>4 DEF IInv

LEMMA StepKeeps == ~ErrorThenDone /\ TypeInv /\ IInv /\ [Next]_vars => IInv'
<1> SUFFICES ASSUME ~ErrorThenDone, TypeInv, IInv, [Next]_vars PROVE IInv'
  OBVIOUS
<1>1. CASE Begin \/ Piece \/ (\E kind \in BlockKind : Open(kind))
           \/ \E signed \in BOOLEAN : Shut(signed)
  BY <1>1, BeginTyped, PieceTyped, OpenTyped, ShutTyped, CalmlyKeeps
<1>2. CASE Says
  BY <1>1, <1>2, EndKeeps, FailKeeps, CloseKeeps DEF Says
<1>3. CASE Pumps
  BY <1>3, ReadKeeps, PassKeeps, InwardsKeeps, OutwardsKeeps, FailedKeeps, FruitlessKeeps,
     FruitfulKeeps, BrokenKeeps, SendKeeps, SendFailsKeeps, SentKeeps, SettleKeeps
  DEF Pumps
<1>4. CASE Elapse
  BY <1>4, ElapseKeeps
<1>5. CASE Leave
  BY <1>5, LeaveKeeps
<1>6. CASE UNCHANGED vars
  BY <1>6, UnchangedKeeps
<1> QED BY <1>2, <1>3, <1>4, <1>5, <1>6 DEF Next

(***************************************************************************)
(* What a stream keeps                                                     *)
(***************************************************************************)

-----------------------------------------------------------------------------
(* Tales *)

\* What has come of an answer at some point of its way, for somebody who reads there what
\* passes by: the upstream's side, between the converters, the client.
Ended == {"over", "closed"}
TaleRecord ==
  [pc : {"start", "open", "block", "parted", "told", "over", "closed", "error"},
   kind : BlockKind \cup {"none"}, n : Nat, c : Content, why : Reason, usage : Usage,
   marked : BOOLEAN, signed : Seq(Seq(Nat))]
Sound(t) ==
  /\ t.n = Len(t.c.items) /\ ((t.n = 0) <=> (t.kind = "none"))
  /\ t.n # 0 => t.c.items[t.n].kind = t.kind
  /\ t.pc \in {"block", "parted"} => t.n # 0
  /\ t.marked => t.pc \in {"block", "error"} /\ t.kind = "thinking"
  /\ t.pc \in {"start", "open", "block", "parted"} => t.why = "none"
  /\ \A k \in DOMAIN t.c.items : t.c.items[k].kind = "tool" => t.c.tools # <<>>
Tale == {t \in TaleRecord : Sound(t)}
Untold == [pc |-> "start", kind |-> "none", n |-> 0, c |-> NoContent, why |-> "none",
           usage |-> NoUsage, marked |-> FALSE, signed |-> <<>>]

NextBlock(t, kind, id) == [t EXCEPT !.kind = kind, !.n = @ + 1, !.c = Begun(@, kind, id)]
NextPiece(t, kind, frag) == [t EXCEPT !.c = MoreOfLast(@, kind, frag)]
Signed(t, yes) == IF yes THEN Append(t.signed, t.c.items[t.n].text) ELSE t.signed

\* A chat answer shows another block by a piece of another kind.
TellChunk(t, f) ==
  CASE f.kind = "role" -> [t EXCEPT !.pc = "open"]
    [] f.kind \in {"text", "thinking"} ->
         NextPiece(IF t.kind = f.kind THEN t ELSE NextBlock(t, f.kind, 0), f.kind, f.frag)
    [] f.kind = "tool" /\ f.id # 0 -> NextBlock(t, "tool", f.id)
    [] f.kind = "tool" /\ f.id = 0 -> NextPiece(t, "tool", f.frag)
    [] f.kind = "finish" -> [t EXCEPT !.pc = "told", !.why = f.why]
    [] f.kind = "usage" -> [t EXCEPT !.usage = f.usage]
    [] OTHER -> t

\* The tale goes on with f.
Tell(t, f) ==
  CASE f.e = "chunk" -> TellChunk(t, f)
    [] f.e \in {"message_start", "response.created"} -> [t EXCEPT !.pc = "open", !.usage = f.usage]
    [] f.e \in {"content_block_start", "response.output_item.added"} ->
         [NextBlock(t, f.kind, f.id) EXCEPT !.pc = "block"]
    [] f.e \in {"content_block_delta", "response.delta"} ->
         IF f.kind = "signature" THEN [t EXCEPT !.marked = TRUE] ELSE NextPiece(t, f.kind, f.frag)
    [] f.e = "content_block_stop" ->
         [t EXCEPT !.pc = "open", !.marked = FALSE, !.signed = Signed(t, t.marked)]
    [] f.e = "response.done" -> [t EXCEPT !.pc = "parted"]
    [] f.e = "response.output_item.done" ->
         [t EXCEPT !.pc = "open", !.marked = FALSE, !.signed = Signed(t, f.signed)]
    [] f.e = "message_delta" ->
         [t EXCEPT !.pc = "told", !.why = f.why, !.usage = MergeUsage(@, f.usage)]
    [] f.e = "response.completed" -> [t EXCEPT !.pc = "over", !.usage = f.usage]
    [] f.e \in {"message_stop", "[DONE]"} -> [t EXCEPT !.pc = "over"]
    [] IsError(f) -> [t EXCEPT !.pc = "error"]
    [] f.e = "Done" -> IF t.pc = "error" THEN t ELSE [t EXCEPT !.pc = "closed"]
    [] OTHER -> t

\* What dialect d allows next of an answer from u: an upstream of that dialect, or the gateway,
\* whose end is the mark.  It is more than what a client insists on: the converters rely on it.
IdFits(f) == f.kind \in BlockKind /\ (f.kind = "tool" => f.id # 0)
MessagesMay(u, t, f) ==
  \/ f.e = "message_start" /\ t.pc = "start"
  \/ f.e = "ping" /\ t.pc \notin Ended \cup {"error"}
  \/ f.e = "content_block_start" /\ t.pc = "open" /\ f.i = t.n /\ IdFits(f)
  \/ /\ f.e = "content_block_delta" /\ t.pc = "block" /\ f.i + 1 = t.n
     /\ \/ f.kind = t.kind /\ f.frag # 0
        \/ f.kind = "signature" /\ t.kind = "thinking"
  \/ f.e = "content_block_stop" /\ t.pc = "block" /\ f.i + 1 = t.n
  \/ /\ f.e = "message_delta" /\ t.pc = "open"
     /\ f.why \in {"end_turn", "tool_use", "max_tokens", "refusal"}
     /\ u \in {"chat", "responses"} => f.usage # NoUsage
  \/ f.e = "message_stop" /\ t.pc = "told"
  \/ f.e = "Done" /\ t.pc = "over"
ChatMay(u, t, f) ==
  \/ /\ f.e = "chunk" /\ (f.kind # "usage" => f.usage = NoUsage)
     /\ \/ f.kind = "role" /\ t.pc = "start"
        \/ f.kind \in {"text", "thinking"} /\ t.pc = "open" /\ f.frag # 0 /\ f.i = 0 /\ f.id = 0
        \/ f.kind = "tool" /\ t.pc = "open" /\ f.id # 0 /\ f.frag = 0 /\ f.i = Len(t.c.tools)
        \/ /\ f.kind = "tool" /\ t.pc = "open" /\ f.id = 0 /\ f.frag # 0
           /\ t.kind = "tool" /\ f.i + 1 = Len(t.c.tools)
        \/ /\ f.kind = "finish" /\ t.pc = "open"
           /\ f.why \in {"stop", "tool_calls", "length", "content_filter"}
        \/ f.kind = "usage" /\ t.pc \in {"open", "told"} /\ f.usage # NoUsage
  \/ f.e = (IF u = "gateway" THEN "Done" ELSE "[DONE]") /\ t.pc \in {"open", "told"}
ResponsesMay(t, f) ==
  \/ f.e = "response.created" /\ t.pc = "start" /\ f.usage = NoUsage
  \/ f.e = "response.in_progress" /\ t.pc = "open"
  \/ f.e = "response.output_item.added" /\ t.pc = "open" /\ f.i = t.n /\ IdFits(f)
  \/ f.e = "response.delta" /\ t.pc = "block" /\ f.i + 1 = t.n /\ f.kind = t.kind /\ f.frag # 0
  \/ f.e = "response.done" /\ t.pc = "block" /\ f.i + 1 = t.n /\ t.kind # "thinking"
  \/ /\ f.e = "response.output_item.done" /\ f.i + 1 = t.n /\ f.kind = t.kind
     /\ t.pc = IF t.kind = "thinking" THEN "block" ELSE "parted"
     /\ f.signed => t.kind = "thinking"
  \/ f.e = "response.completed" /\ t.pc = "open" /\ f.items = t.c.items
  \/ f.e = "Done" /\ t.pc = "over"
May(u, d, t, f) ==
  \/ IsError(f) /\ (f.e = "response.failed" => d = "responses") /\ t.pc \notin Ended
  \/ f.e = "Done" /\ t.pc = "error"
  \/ d = "messages" /\ MessagesMay(u, t, f)
  \/ d = "chat" /\ ChatMay(u, t, f)
  \/ d = "responses" /\ ResponsesMay(t, f)

\* a is a beginning of b; nothing follows of an answer that has ended or failed.
Within(s, t) == Len(s) <= Len(t) /\ \A k \in DOMAIN s : s[k] = t[k]
Beginning(a, b) ==
  /\ Within(a.text, b.text) /\ Within(a.thinking, b.thinking)
  /\ Len(a.tools) <= Len(b.tools)
  /\ \A k \in DOMAIN a.tools :
       a.tools[k].id = b.tools[k].id /\ Within(a.tools[k].text, b.tools[k].text)
Onward(a, b) ==
  /\ Beginning(a.c, b.c)
  /\ a.pc \in Ended => b.pc \in Ended /\ b = [a EXCEPT !.pc = b.pc]
  /\ a.pc \in {"closed", "error"} => b = a

\* The events q, in dialect d, lead from a to b.
Along(u, d, a, q, b) ==
  \E h \in [0 .. Len(q) -> Tale] :
    /\ h[0] = a /\ h[Len(q)] = b
    /\ \A k \in 1 .. Len(q) : May(u, d, h[k - 1], q[k]) /\ h[k] = Tell(h[k - 1], q[k])
    /\ \A k \in 0 .. Len(q) : Onward(h[k], b)

-----------------------------------------------------------------------------
(* Beginnings *)

LEMMA WithinIsPrefix ==
  ASSUME NEW S, NEW s \in Seq(S), NEW t \in Seq(S), Within(s, t)
  PROVE  IsPrefix(s, t)
<1>1. Len(s) \in Nat /\ Len(t) \in Nat /\ Len(s) <= Len(t)
  BY DEF Within
<1>2. SubSeq(s, 1, Len(s)) = [k \in 1 .. Len(s) |-> s[k]]
  BY <1>1
<1>3. SubSeq(t, 1, Len(s)) = [k \in 1 .. Len(s) |-> t[k]]
  BY <1>1
<1>4. \A k \in 1 .. Len(s) : s[k] = t[k]
  BY DEF Within
<1> QED BY <1>1, <1>2, <1>3, <1>4 DEF IsPrefix

LEMMA WithinItself ==
  ASSUME NEW S, NEW s \in Seq(S)
  PROVE  Within(s, s)
BY DEF Within

LEMMA WithinFurther ==
  ASSUME NEW S, NEW r \in Seq(S), NEW s \in Seq(S), NEW t \in Seq(S), Within(r, s), Within(s, t)
  PROVE  Within(r, t)
<1>1. Len(r) \in Nat /\ Len(s) \in Nat /\ Len(t) \in Nat
  OBVIOUS
<1>2. \A k \in 1 .. Len(r) : k \in 1 .. Len(s)
  BY <1>1 DEF Within
<1> QED BY <1>1, <1>2 DEF Within

LEMMA WithinAppended ==
  ASSUME NEW S, NEW s \in Seq(S), NEW e \in S
  PROVE  Within(s, Append(s, e))
BY AppendProperties DEF Within

LEMMA ContentParts ==
  ASSUME NEW c \in Content
  PROVE  /\ c.text \in Seq(Nat) /\ c.thinking \in Seq(Nat)
         /\ c.tools \in Seq(ToolCalled) /\ c.items \in Seq(Item)
         /\ Len(c.tools) \in Nat /\ Len(c.items) \in Nat
         /\ DOMAIN c.tools = 1 .. Len(c.tools) /\ DOMAIN c.items = 1 .. Len(c.items)
         /\ \A k \in DOMAIN c.tools :
              c.tools[k] \in ToolCalled /\ c.tools[k].id \in Nat /\ c.tools[k].text \in Seq(Nat)
         /\ \A k \in DOMAIN c.items : c.items[k] \in Item /\ c.items[k].text \in Seq(Nat)
<1>1. c.tools \in Seq(ToolCalled) /\ c.items \in Seq(Item)
  BY DEF Content
<1>2. \A k \in DOMAIN c.tools : c.tools[k] \in ToolCalled
  BY <1>1
<1>3. \A k \in DOMAIN c.items : c.items[k] \in Item
  BY <1>1
<1> QED BY <1>1, <1>2, <1>3 DEF Content, ToolCalled, Item

LEMMA BeginningItself ==
  ASSUME NEW c \in Content
  PROVE  Beginning(c, c)
BY ContentParts, WithinItself DEF Beginning

LEMMA BeginningFurther ==
  ASSUME NEW a \in Content, NEW b \in Content, NEW c \in Content, Beginning(a, b), Beginning(b, c)
  PROVE  Beginning(a, c)
<1>1. Within(a.text, c.text) /\ Within(a.thinking, c.thinking)
  BY ContentParts, WithinFurther DEF Beginning
<1>2. Len(a.tools) <= Len(c.tools)
  BY ContentParts DEF Beginning
<1>3. ASSUME NEW k \in DOMAIN a.tools
      PROVE  a.tools[k].id = c.tools[k].id /\ Within(a.tools[k].text, c.tools[k].text)
  <2>1. Len(a.tools) <= Len(b.tools) /\ Len(b.tools) <= Len(c.tools)
    BY DEF Beginning
  <2>2. k \in DOMAIN b.tools /\ k \in DOMAIN c.tools
    BY <2>1, ContentParts
  <2>3. /\ a.tools[k].text \in Seq(Nat) /\ b.tools[k].text \in Seq(Nat) /\ c.tools[k].text \in Seq(Nat)
    BY <2>2, ContentParts
  <2>4. /\ a.tools[k].id = b.tools[k].id /\ Within(a.tools[k].text, b.tools[k].text)
        /\ b.tools[k].id = c.tools[k].id /\ Within(b.tools[k].text, c.tools[k].text)
    BY <2>2 DEF Beginning
  <2>5. Within(a.tools[k].text, c.tools[k].text)
    BY <2>3, <2>4, WithinFurther
  <2> QED BY <2>4, <2>5
<1> QED BY <1>1, <1>2, <1>3 DEF Beginning

\* Text, thinking and tool calls, which every dialect tells; the order not all do.
SameWords(a, b) == a.text = b.text /\ a.thinking = b.thinking /\ a.tools = b.tools

LEMMA SameWordsBegin ==
  ASSUME NEW a, NEW b, NEW c
  PROVE  /\ SameWords(a, b) /\ Beginning(b, c) => Beginning(a, c)
         /\ SameWords(b, c) /\ Beginning(a, b) => Beginning(a, c)
BY DEF SameWords, Beginning

LEMMA BegunIs ==
  ASSUME NEW c \in Content, NEW kind \in BlockKind, NEW id \in Nat
  PROVE  LET m == Begun(c, kind, id)
         IN /\ m \in Content /\ m.text = c.text /\ m.thinking = c.thinking
            /\ m.tools = IF kind = "tool" THEN Append(c.tools, [id |-> id, text |-> <<>>])
                         ELSE c.tools
            /\ m.items = Append(c.items, [kind |-> kind, id |-> id, text |-> <<>>])
            /\ Len(m.items) = Len(c.items) + 1 /\ (kind = "tool" => m.tools # <<>>)
            /\ Beginning(c, m)
<1> DEFINE m == Begun(c, kind, id)
<1>1. m \in Content /\ Len(m.items) = Len(c.items) + 1 /\ (kind = "tool" => m.tools # <<>>)
  BY BegunIsContent
<1>2. /\ m.text = c.text /\ m.thinking = c.thinking
      /\ m.tools = IF kind = "tool" THEN Append(c.tools, [id |-> id, text |-> <<>>]) ELSE c.tools
      /\ m.items = Append(c.items, [kind |-> kind, id |-> id, text |-> <<>>])
  BY DEF Begun, Content
<1>3. [id |-> id, text |-> <<>>] \in ToolCalled
  BY TuplesAreSeqs DEF ToolCalled
<1> HIDE DEF m
<1>4. Within(c.tools, m.tools)
  BY <1>2, <1>3, ContentParts, WithinAppended, WithinItself
<1>5. Beginning(c, m)
  <2>1. Within(c.text, m.text) /\ Within(c.thinking, m.thinking)
    BY <1>2, ContentParts, WithinItself
  <2>2. \A k \in DOMAIN c.tools : c.tools[k] = m.tools[k] /\ Within(c.tools[k].text, c.tools[k].text)
    BY <1>4, ContentParts, WithinItself DEF Within
  <2> QED BY <1>4, <2>1, <2>2 DEF Beginning, Within
<1> QED BY <1>1, <1>2, <1>5 DEF m

Longer(x, frag) == [x EXCEPT !.text = Append(@, frag)]
MoreAt(tools, n, frag) == [tools EXCEPT ![n] = Longer(tools[n], frag)]
LEMMA MoreIs ==
  ASSUME NEW c \in Content, NEW kind \in BlockKind, NEW n \in Nat, NEW frag \in Nat
  PROVE  LET m == More(c, kind, n, frag)
         IN /\ m \in Content
            /\ m.text = IF kind = "text" THEN Append(c.text, frag) ELSE c.text
            /\ m.thinking = IF kind = "thinking" THEN Append(c.thinking, frag) ELSE c.thinking
            /\ m.tools = IF kind = "tool" THEN MoreAt(c.tools, n, frag) ELSE c.tools
            /\ m.items = c.items /\ Len(m.tools) = Len(c.tools)
<1> DEFINE m == More(c, kind, n, frag)
<1>1. m \in Content /\ m.items = c.items /\ Len(m.tools) = Len(c.tools)
  BY MoreIsContent
<1>2. CASE kind = "text"
  <2>1. m = [c EXCEPT !.text = Append(c.text, frag)]
    BY <1>2 DEF More, Content
  <2> QED BY <1>1, <1>2, <2>1 DEF Content
<1>3. CASE kind = "thinking"
  <2>1. m = [c EXCEPT !.thinking = Append(c.thinking, frag)]
    BY <1>3 DEF More, Content
  <2> QED BY <1>1, <1>3, <2>1 DEF Content
<1>4. CASE kind = "tool"
  <2> DEFINE e == [c.tools[n] EXCEPT !.text = Append(@, frag)]
  <2>1. m = [c EXCEPT !.tools = [@ EXCEPT ![n] = e]]
    BY <1>4 DEF More
  <2>2. e = Longer(c.tools[n], frag)
    BY DEF Longer
  <2> HIDE DEF e
  <2>3. m = [c EXCEPT !.tools = MoreAt(c.tools, n, frag)]
    BY <2>1, <2>2 DEF MoreAt
  <2> HIDE DEF m
  <2>4. m.tools = MoreAt(c.tools, n, frag) /\ m.text = c.text /\ m.thinking = c.thinking
    BY <2>3 DEF Content
  <2>5. m \in Content /\ m.items = c.items /\ Len(m.tools) = Len(c.tools)
    BY <1>1 DEF m
  <2> QED BY <1>4, <2>4, <2>5 DEF m
<1> QED BY <1>2, <1>3, <1>4 DEF BlockKind

LEMMA MoreToolsIs ==
  ASSUME NEW tools \in Seq(ToolCalled), NEW n \in DOMAIN tools, NEW frag \in Nat
  PROVE  LET m == MoreAt(tools, n, frag)
         IN /\ m \in Seq(ToolCalled) /\ DOMAIN m = DOMAIN tools /\ Len(m) = Len(tools)
            /\ \A k \in DOMAIN tools :
                 /\ k # n => m[k] = tools[k]
                 /\ m[k].id = tools[k].id
                 /\ m[k].text = IF k = n THEN Append(tools[k].text, frag) ELSE tools[k].text
<1> DEFINE e == Longer(tools[n], frag)
<1>1. tools[n] \in ToolCalled
  BY ElementOfSeq
<1>2. Append(tools[n].text, frag) \in Seq(Nat)
  BY <1>1, AppendProperties DEF ToolCalled
<1>3. e \in ToolCalled /\ e.id = tools[n].id /\ e.text = Append(tools[n].text, frag)
  BY <1>1, <1>2 DEF ToolCalled, Longer
<1>4. MoreAt(tools, n, frag) = [tools EXCEPT ![n] = e]
  BY DEF MoreAt
<1> HIDE DEF e
<1>5. n \in 1 .. Len(tools)
  OBVIOUS
<1>6. [tools EXCEPT ![n] = e] \in Seq(ToolCalled) /\ Len([tools EXCEPT ![n] = e]) = Len(tools)
  BY <1>3, <1>5, ExceptSeq
<1> QED BY <1>3, <1>4, <1>6

LEMMA MoreOfLastIs ==
  ASSUME NEW c \in Content, NEW kind \in BlockKind, NEW frag \in Nat, c.items # <<>>,
         kind = "tool" => c.tools # <<>>
  PROVE  LET m == MoreOfLast(c, kind, frag)
             n == Len(c.items)
         IN /\ m \in Content
            /\ m.text = IF kind = "text" THEN Append(c.text, frag) ELSE c.text
            /\ m.thinking = IF kind = "thinking" THEN Append(c.thinking, frag) ELSE c.thinking
            /\ m.tools = IF kind = "tool" THEN MoreAt(c.tools, Len(c.tools), frag) ELSE c.tools
            /\ Len(m.items) = n /\ DOMAIN m.items = DOMAIN c.items /\ n \in DOMAIN c.items
            /\ m.items = MoreAt(c.items, n, frag)
            /\ \A k \in DOMAIN c.items :
                 /\ k # n => m.items[k] = c.items[k]
                 /\ m.items[k].kind = c.items[k].kind /\ m.items[k].id = c.items[k].id
            /\ m.items[n].text = Append(c.items[n].text, frag)
            /\ Beginning(c, m) /\ Len(m.tools) = Len(c.tools)
            /\ ((m.tools = <<>>) <=> (c.tools = <<>>))
<1> DEFINE b == More(c, kind, Len(c.tools), frag)
           m == MoreOfLast(c, kind, frag)
           n == Len(c.items)
           x == [b.items[n] EXCEPT !.text = Append(@, frag)]
           e == Longer(c.items[n], frag)
<1>1. /\ m \in Content /\ Len(m.items) = n /\ Len(m.tools) = Len(c.tools)
  BY MoreOfLastIsContent
<1>2. /\ b \in Content /\ b.items = c.items
      /\ b.text = IF kind = "text" THEN Append(c.text, frag) ELSE c.text
      /\ b.thinking = IF kind = "thinking" THEN Append(c.thinking, frag) ELSE c.thinking
      /\ b.tools = IF kind = "tool" THEN MoreAt(c.tools, Len(c.tools), frag) ELSE c.tools
  BY ContentParts, MoreIs
<1>3. n \in DOMAIN c.items /\ n \in Nat
  BY ContentParts, EmptySeq
<1>4. m = [b EXCEPT !.items = [@ EXCEPT ![n] = x]]
  BY DEF MoreOfLast
<1>5. c.items[n] \in Item /\ e.text = Append(c.items[n].text, frag) /\ e.kind = c.items[n].kind
      /\ e.id = c.items[n].id
  BY <1>3, ContentParts DEF Item, Longer
<1> HIDE DEF b, m
<1>5a. x = e
  BY <1>2 DEF Longer
<1> HIDE DEF x
<1>6. m.items = [c.items EXCEPT ![n] = e] /\ m.items = MoreAt(c.items, n, frag) /\ SameWords(m, b)
  BY <1>2, <1>4, <1>5a DEF Content, SameWords, MoreAt, e
<1> HIDE DEF e
<1>7. \A k \in DOMAIN c.items : m.items[k] = IF k = n THEN e ELSE c.items[k]
  BY <1>6
<1>8. DOMAIN m.items = DOMAIN c.items
  BY <1>6
<1>9. Beginning(c, m)
  <2>1. Within(c.text, m.text) /\ Within(c.thinking, m.thinking)
    BY <1>2, <1>6, ContentParts, WithinItself, WithinAppended DEF SameWords
  <2>2. ASSUME kind = "tool"
        PROVE  \A k \in DOMAIN c.tools :
                 c.tools[k].id = m.tools[k].id /\ Within(c.tools[k].text, m.tools[k].text)
    <3>1. Len(c.tools) \in DOMAIN c.tools
      BY <2>2, ContentParts, EmptySeq
    <3>2. m.tools = MoreAt(c.tools, Len(c.tools), frag)
      BY <1>2, <1>6, <2>2 DEF SameWords
    <3>3. \A k \in DOMAIN c.tools :
             /\ m.tools[k].id = c.tools[k].id
             /\ m.tools[k].text = IF k = Len(c.tools) THEN Append(c.tools[k].text, frag)
                                  ELSE c.tools[k].text
      BY <3>1, <3>2, ContentParts, MoreToolsIs
    <3> QED BY <3>3, ContentParts, WithinItself, WithinAppended
  <2>3. ASSUME kind # "tool"
        PROVE  \A k \in DOMAIN c.tools :
                 c.tools[k].id = m.tools[k].id /\ Within(c.tools[k].text, m.tools[k].text)
    BY <1>2, <1>6, <2>3, ContentParts, WithinItself DEF SameWords
  <2> QED BY <1>1, <2>1, <2>2, <2>3, ContentParts DEF Beginning
<1>10. (m.tools = <<>>) <=> (c.tools = <<>>)
  BY <1>1, ContentParts, EmptySeq
<1> QED BY <1>1, <1>2, <1>3, <1>5, <1>6, <1>7, <1>8, <1>9, <1>10 DEF SameWords, m, e

-----------------------------------------------------------------------------
(* One event after the other *)

LEMMA TaleParts ==
  ASSUME NEW t \in Tale
  PROVE  /\ t \in TaleRecord /\ Sound(t) /\ t.c \in Content /\ t.n \in Nat /\ t.n = Len(t.c.items)
         /\ t.kind \in BlockKind \cup {"none"} /\ t.usage \in Usage /\ t.why \in Reason
         /\ t.marked \in BOOLEAN /\ t.signed \in Seq(Seq(Nat))
         /\ ((t.n = 0) <=> (t.kind = "none")) /\ (t.pc \in {"block", "parted"} => t.n # 0)
         /\ (t.n # 0 => t.c.items # <<>> /\ t.n \in DOMAIN t.c.items
                        /\ t.kind \in BlockKind /\ t.c.items[t.n].kind = t.kind
                        /\ t.c.items[t.n].text \in Seq(Nat) /\ t.n - 1 \in Nat)
         /\ (t.kind = "tool" => t.c.tools # <<>> /\ Len(t.c.tools) # 0)
         /\ Len(t.c.tools) \in Nat /\ (t.c.tools # <<>> => Len(t.c.tools) - 1 \in Nat)
         /\ (t.marked => t.pc \in {"block", "error"} /\ t.kind = "thinking")
         /\ (t.pc \in {"start", "open", "block", "parted"} => t.why = "none")
<1>1. t \in TaleRecord /\ Sound(t) /\ t.c \in Content /\ t.n \in Nat /\ t.n = Len(t.c.items)
  BY DEF Tale, TaleRecord, Sound
<1>2. /\ t.kind \in BlockKind \cup {"none"} /\ t.usage \in Usage /\ t.why \in Reason
      /\ t.marked \in BOOLEAN /\ t.signed \in Seq(Seq(Nat))
      /\ ((t.n = 0) <=> (t.kind = "none")) /\ (t.pc \in {"block", "parted"} => t.n # 0)
      /\ (t.marked => t.pc \in {"block", "error"} /\ t.kind = "thinking")
      /\ (t.pc \in {"start", "open", "block", "parted"} => t.why = "none")
  BY <1>1 DEF TaleRecord, Sound
<1>3. Len(t.c.tools) \in Nat /\ (t.c.tools # <<>> <=> Len(t.c.tools) # 0)
      /\ DOMAIN t.c.items = 1 .. Len(t.c.items)
  BY <1>1, ContentParts, EmptySeq
<1>4. ASSUME t.n # 0
      PROVE  /\ t.c.items # <<>> /\ t.n \in DOMAIN t.c.items
             /\ t.kind \in BlockKind /\ t.c.items[t.n].kind = t.kind
             /\ t.c.items[t.n].text \in Seq(Nat) /\ t.n - 1 \in Nat
  <2>1. t.n \in DOMAIN t.c.items /\ t.n - 1 \in Nat
    BY <1>1, <1>3, <1>4
  <2>2. t.c.items # <<>>
    BY <2>1
  <2> QED BY <1>1, <1>2, <1>4, <2>1, <2>2, ContentParts DEF Sound
<1>5. t.kind = "tool" => t.c.tools # <<>>
  <2> SUFFICES ASSUME t.kind = "tool" PROVE t.c.tools # <<>>
    OBVIOUS
  <2>1. t.n # 0
    BY <1>2
  <2> QED BY <1>1, <1>4, <2>1 DEF Sound
<1> QED BY <1>1, <1>2, <1>3, <1>4, <1>5

LEMMA OnwardItself == ASSUME NEW t \in Tale PROVE Onward(t, t)
<1>1. t = [t EXCEPT !.pc = t.pc]
  BY TaleParts DEF TaleRecord
<1> QED BY <1>1, TaleParts, BeginningItself DEF Onward

LEMMA OnwardFurther ==
  ASSUME NEW a \in Tale, NEW b \in Tale, NEW c \in Tale, Onward(a, b), Onward(b, c)
  PROVE  Onward(a, c)
<1>1. Beginning(a.c, c.c)
  BY TaleParts, BeginningFurther DEF Onward
<1>2. ASSUME a.pc \in Ended PROVE c.pc \in Ended /\ c = [a EXCEPT !.pc = c.pc]
  <2>1. b.pc \in Ended /\ b = [a EXCEPT !.pc = b.pc] /\ c.pc \in Ended /\ c = [b EXCEPT !.pc = c.pc]
    BY <1>2 DEF Onward
  <2> QED BY <2>1, TaleParts DEF TaleRecord
<1> QED BY <1>1, <1>2 DEF Onward

\* The tale goes on by one event.
Goes(u, d, a, f, b) == May(u, d, a, f) /\ b = Tell(a, f) /\ Onward(a, b)

LEMMA AlongNone ==
  ASSUME NEW u, NEW d, NEW a \in Tale
  PROVE  Along(u, d, a, <<>>, a)
<1> DEFINE h == [k \in 0 .. 0 |-> a]
<1>1. Len(<<>>) = 0 /\ h \in [0 .. 0 -> Tale] /\ h[0] = a
  OBVIOUS
<1> HIDE DEF h
<1>2. \A k \in 1 .. 0 : FALSE
  OBVIOUS
<1>3. \A k \in 0 .. 0 : k = 0
  OBVIOUS
<1> QED BY <1>1, <1>2, <1>3, OnwardItself DEF Along

LEMMA AlongNowhere ==
  ASSUME NEW u, NEW d, NEW a, NEW b, Along(u, d, a, <<>>, b)
  PROVE  b = a
<1>1. Len(<<>>) = 0
  OBVIOUS
<1> QED BY <1>1 DEF Along

LEMMA AlongTales ==
  ASSUME NEW u, NEW d, NEW S, NEW q \in Seq(S), NEW a, NEW b, Along(u, d, a, q, b)
  PROVE  a \in Tale /\ b \in Tale /\ Onward(a, b)
<1>1. PICK h \in [0 .. Len(q) -> Tale] :
        h[0] = a /\ h[Len(q)] = b /\ \A k \in 0 .. Len(q) : Onward(h[k], b)
  BY DEF Along
<1>2. 0 \in 0 .. Len(q) /\ Len(q) \in 0 .. Len(q)
  OBVIOUS
<1> QED BY <1>1, <1>2

LEMMA AlongThen ==
  ASSUME NEW u, NEW d, NEW S, NEW q \in Seq(S), NEW f \in S, NEW a, NEW b, NEW c \in Tale,
         Along(u, d, a, q, b), Goes(u, d, b, f, c)
  PROVE  Along(u, d, a, Append(q, f), c)
<1> DEFINE n == Len(q)
           r == Append(q, f)
<1>0. n \in Nat /\ Len(r) = n + 1 /\ r[n + 1] = f /\ \A k \in 1 .. n : r[k] = q[k]
  BY AppendProperties
<1>1. PICK h \in [0 .. n -> Tale] :
        /\ h[0] = a /\ h[n] = b
        /\ \A k \in 1 .. n : May(u, d, h[k - 1], q[k]) /\ h[k] = Tell(h[k - 1], q[k])
        /\ \A k \in 0 .. n : Onward(h[k], b)
  BY DEF Along
<1>2. b \in Tale
  BY AlongTales
<1> DEFINE g == [k \in 0 .. n + 1 |-> IF k = n + 1 THEN c ELSE h[k]]
<1> HIDE DEF r
<1> SUFFICES /\ g \in [0 .. n + 1 -> Tale] /\ g[0] = a /\ g[n + 1] = c
             /\ \A k \in 1 .. n + 1 : May(u, d, g[k - 1], r[k]) /\ g[k] = Tell(g[k - 1], r[k])
             /\ \A k \in 0 .. n + 1 : Onward(g[k], c)
  <2> HIDE DEF g
  <2> QED BY <1>0 DEF Along, r
<1>3. /\ g[n + 1] = c /\ \A k \in 0 .. n : g[k] = h[k]
  BY <1>0
<1>4. g \in [0 .. n + 1 -> Tale]
  <2>1. \A k \in 0 .. n + 1 : k = n + 1 \/ k \in 0 .. n
    BY <1>0
  <2> QED BY <1>1, <2>1
<1> HIDE DEF g, n
<1>5. g[0] = a
  <2>1. 0 \in 0 .. n
    BY <1>0
  <2> QED BY <1>1, <1>3, <2>1
<1>6. ASSUME NEW k \in 1 .. n + 1
      PROVE  May(u, d, g[k - 1], r[k]) /\ g[k] = Tell(g[k - 1], r[k])
  <2>1. CASE k = n + 1
    <3>1. k - 1 = n /\ n \in 0 .. n
      BY <1>0, <2>1
    <3>2. g[k - 1] = b /\ g[k] = c /\ r[k] = f
      BY <1>0, <1>1, <1>3, <2>1, <3>1
    <3> QED BY <3>2 DEF Goes
  <2>2. CASE k # n + 1
    <3>1. k \in 1 .. n /\ k \in 0 .. n /\ k - 1 \in 0 .. n
      BY <1>0, <2>2
    <3>2. g[k - 1] = h[k - 1] /\ g[k] = h[k] /\ r[k] = q[k]
      BY <1>0, <1>3, <3>1
    <3> QED BY <1>1, <3>1, <3>2
  <2> QED BY <2>1, <2>2
<1>7. ASSUME NEW k \in 0 .. n + 1 PROVE Onward(g[k], c)
  <2>1. CASE k = n + 1
    BY <1>3, <2>1, OnwardItself
  <2>2. CASE k # n + 1
    <3>1. k \in 0 .. n
      BY <1>0, <2>2
    <3>2. g[k] = h[k] /\ h[k] \in Tale /\ Onward(h[k], b) /\ Onward(b, c)
      BY <1>1, <1>3, <3>1 DEF Goes
    <3> QED BY <1>2, <3>2, OnwardFurther
  <2> QED BY <2>1, <2>2
<1> QED BY <1>3, <1>4, <1>5, <1>6, <1>7

LEMMA AlongOne ==
  ASSUME NEW u, NEW d, NEW f, NEW a \in Tale, NEW c \in Tale, Goes(u, d, a, f, c)
  PROVE  Along(u, d, a, <<f>>, c)
<1>1. Along(u, d, a, <<>>, a)
  BY AlongNone
<1>2. <<>> \in Seq({f}) /\ f \in {f} /\ Append(<<>>, f) = <<f>>
  OBVIOUS
<1> QED BY <1>1, <1>2, AlongThen

LEMMA AlongJoin ==
  ASSUME NEW u, NEW d, NEW S, NEW q \in Seq(S), NEW r \in Seq(S), NEW a, NEW b, NEW c,
         Along(u, d, a, q, b), Along(u, d, b, r, c)
  PROVE  Along(u, d, a, q \o r, c)
<1> DEFINE n == Len(q)
           m == Len(r)
           s == q \o r
<1>0. /\ n \in Nat /\ m \in Nat /\ Len(s) = n + m
      /\ \A k \in 1 .. n : s[k] = q[k]
      /\ \A k \in 1 .. n + m : k > n => s[k] = r[k - n]
  OBVIOUS
<1>1. PICK h \in [0 .. n -> Tale] :
        /\ h[0] = a /\ h[n] = b
        /\ \A k \in 1 .. n : May(u, d, h[k - 1], q[k]) /\ h[k] = Tell(h[k - 1], q[k])
        /\ \A k \in 0 .. n : Onward(h[k], b)
  BY DEF Along
<1>2. PICK g \in [0 .. m -> Tale] :
        /\ g[0] = b /\ g[m] = c
        /\ \A k \in 1 .. m : May(u, d, g[k - 1], r[k]) /\ g[k] = Tell(g[k - 1], r[k])
        /\ \A k \in 0 .. m : Onward(g[k], c)
  BY DEF Along
<1>3. b \in Tale /\ c \in Tale /\ Onward(b, c)
  BY AlongTales
<1> DEFINE p == [k \in 0 .. n + m |-> IF k <= n THEN h[k] ELSE g[k - n]]
<1> HIDE DEF s, n, m
<1>4. /\ \A k \in 0 .. n : p[k] = h[k]
      /\ \A k \in 0 .. n + m : k >= n => p[k] = g[k - n]
  <2>1. \A k \in 0 .. n : k \in 0 .. n + m /\ k <= n
    BY <1>0
  <2>2. p[n] = h[n] /\ n \in 0 .. n + m /\ n - n = 0
    BY <1>0
  <2>3. \A k \in 0 .. n + m : k >= n => k = n \/ ~(k <= n)
    BY <1>0
  <2> QED BY <1>1, <1>2, <2>1, <2>2, <2>3
<1>5. p \in [0 .. n + m -> Tale]
  <2>1. \A k \in 0 .. n + m : k \in 0 .. n \/ (k - n \in 0 .. m /\ ~(k <= n))
    BY <1>0
  <2>2. \A k \in 0 .. n + m : p[k] \in Tale
    BY <1>1, <1>2, <2>1
  <2> QED BY <2>2
<1> HIDE DEF p
<1>6. p[0] = a /\ p[n + m] = c
  <2>1. 0 \in 0 .. n /\ n + m \in 0 .. n + m /\ n + m >= n /\ (n + m) - n = m
    BY <1>0
  <2> QED BY <1>1, <1>2, <1>4, <2>1
<1>7. ASSUME NEW k \in 1 .. n + m
      PROVE  May(u, d, p[k - 1], s[k]) /\ p[k] = Tell(p[k - 1], s[k])
  <2>1. CASE k <= n
    <3>1. k \in 1 .. n /\ k \in 0 .. n /\ k - 1 \in 0 .. n
      BY <1>0, <2>1
    <3> QED BY <1>0, <1>1, <1>4, <3>1
  <2>2. CASE ~(k <= n)
    <3>1. /\ k \in 0 .. n + m /\ k >= n /\ k > n /\ k - 1 \in 0 .. n + m /\ k - 1 >= n
          /\ k - n \in 1 .. m /\ (k - 1) - n = (k - n) - 1
      BY <1>0, <2>2
    <3>2. p[k] = g[k - n] /\ p[k - 1] = g[(k - n) - 1] /\ s[k] = r[k - n]
      BY <1>0, <1>4, <3>1
    <3> QED BY <1>2, <3>1, <3>2
  <2> QED BY <2>1, <2>2
<1>8. ASSUME NEW k \in 0 .. n + m PROVE Onward(p[k], c)
  <2>1. CASE k <= n
    <3>1. k \in 0 .. n
      BY <1>0, <2>1
    <3>2. p[k] = h[k] /\ h[k] \in Tale /\ Onward(h[k], b)
      BY <1>1, <1>4, <3>1
    <3> QED BY <1>3, <3>2, OnwardFurther
  <2>2. CASE ~(k <= n)
    <3>1. k >= n /\ k - n \in 0 .. m
      BY <1>0, <2>2
    <3> QED BY <1>2, <1>4, <3>1
  <2> QED BY <2>1, <2>2
<1> QED BY <1>0, <1>5, <1>6, <1>7, <1>8 DEF Along, s

LEMMA AlongHead ==
  ASSUME NEW u, NEW d, NEW S, NEW q \in Seq(S), q # <<>>, NEW a, NEW b, Along(u, d, a, q, b)
  PROVE  May(u, d, a, Head(q)) /\ Along(u, d, Tell(a, Head(q)), Tail(q), b)
<1> DEFINE n == Len(q)
<1>0. /\ n \in Nat /\ n # 0 /\ Head(q) = q[1] /\ Len(Tail(q)) = n - 1
      /\ \A k \in 1 .. n - 1 : Tail(q)[k] = q[k + 1]
  BY EmptySeq, HeadTailProperties
<1>1. PICK h \in [0 .. n -> Tale] :
        /\ h[0] = a /\ h[n] = b
        /\ \A k \in 1 .. n : May(u, d, h[k - 1], q[k]) /\ h[k] = Tell(h[k - 1], q[k])
        /\ \A k \in 0 .. n : Onward(h[k], b)
  BY DEF Along
<1> HIDE DEF n
<1>2. 1 \in 1 .. n /\ 1 - 1 = 0
  BY <1>0
<1>3. May(u, d, a, q[1]) /\ h[1] = Tell(a, q[1])
  BY <1>1, <1>2
<1> DEFINE g == [k \in 0 .. n - 1 |-> h[k + 1]]
<1>4. \A k \in 0 .. n - 1 : k + 1 \in 0 .. n
  BY <1>0
<1>5. g \in [0 .. n - 1 -> Tale] /\ \A k \in 0 .. n - 1 : g[k] = h[k + 1] /\ Onward(g[k], b)
  BY <1>1, <1>4
<1> HIDE DEF g
<1>6. 0 \in 0 .. n - 1 /\ n - 1 \in 0 .. n - 1 /\ 0 + 1 = 1 /\ (n - 1) + 1 = n
  BY <1>0
<1>7. g[0] = h[1] /\ g[n - 1] = b
  BY <1>1, <1>5, <1>6
<1>8. ASSUME NEW k \in 1 .. n - 1
      PROVE  May(u, d, g[k - 1], Tail(q)[k]) /\ g[k] = Tell(g[k - 1], Tail(q)[k])
  <2>1. k + 1 \in 1 .. n /\ k \in 0 .. n - 1 /\ k - 1 \in 0 .. n - 1 /\ (k + 1) - 1 = k
        /\ (k - 1) + 1 = k
    BY <1>0
  <2>2. g[k - 1] = h[(k + 1) - 1] /\ g[k] = h[k + 1] /\ Tail(q)[k] = q[k + 1]
    BY <1>0, <1>5, <2>1
  <2> QED BY <1>1, <2>1, <2>2
<1> QED BY <1>0, <1>3, <1>5, <1>7, <1>8 DEF Along

\* An error is the end of the tale.
LEMMA AlongError ==
  ASSUME NEW u, NEW d, NEW S, NEW q \in Seq(S), NEW a, NEW b, Along(u, d, a, q, b),
         NEW k \in DOMAIN q, IsError(q[k])
  PROVE  b.pc = "error"
<1>0. Len(q) \in Nat /\ k \in 1 .. Len(q) /\ k \in 0 .. Len(q) /\ k - 1 \in 0 .. Len(q)
  OBVIOUS
<1>1. PICK h \in [0 .. Len(q) -> Tale] :
        h[k] = Tell(h[k - 1], q[k]) /\ Onward(h[k], b)
  BY <1>0 DEF Along
<1>2. q[k].e \in {"error", "response.failed"}
  BY DEF IsError
<1>3. h[k] = [h[k - 1] EXCEPT !.pc = "error"]
  BY <1>1, <1>2 DEF Tell, IsError
<1>4. h[k].pc = "error"
  BY <1>0, <1>1, <1>3 DEF Tale, TaleRecord
<1> QED BY <1>1, <1>4 DEF Onward

LEMMA TaleIsRecord == ASSUME NEW t \in Tale PROVE t \in TaleRecord
BY DEF Tale

LEMMA NextBlockIs ==
  ASSUME NEW t \in Tale, ~t.marked, NEW kind \in BlockKind, NEW id \in Nat
  PROVE  LET b == NextBlock(t, kind, id)
         IN /\ b \in Tale /\ Beginning(t.c, b.c) /\ b.c = Begun(t.c, kind, id)
            /\ b.pc = t.pc /\ b.kind = kind /\ b.n = t.n + 1 /\ b.why = t.why
            /\ b.usage = t.usage /\ b.marked = t.marked /\ b.signed = t.signed
<1> DEFINE b == NextBlock(t, kind, id)
           c == Begun(t.c, kind, id)
<1>1. b = [t EXCEPT !.kind = kind, !.n = t.n + 1, !.c = c]
  BY DEF NextBlock
<1>2. /\ c \in Content /\ c.items = Append(t.c.items, [kind |-> kind, id |-> id, text |-> <<>>])
      /\ c.tools = IF kind = "tool" THEN Append(t.c.tools, [id |-> id, text |-> <<>>])
                   ELSE t.c.tools
      /\ Len(c.items) = t.n + 1 /\ (kind = "tool" => c.tools # <<>>) /\ Beginning(t.c, c)
  BY TaleParts, BegunIs, SMTT(30)
<1> HIDE DEF b, c
<1>3. /\ b.c = c /\ b.pc = t.pc /\ b.kind = kind /\ b.n = t.n + 1 /\ b.why = t.why
      /\ b.usage = t.usage /\ b.marked = t.marked /\ b.signed = t.signed /\ b \in TaleRecord
  <2>1. t \in TaleRecord /\ c \in Content
    BY <1>2, TaleIsRecord
  <2>2. t.n + 1 \in Nat /\ kind \in BlockKind \cup {"none"}
    BY <2>1 DEF TaleRecord
  <2>3. b \in TaleRecord
    BY <1>1, <2>1, <2>2 DEF TaleRecord
  <2> QED BY <1>1, <2>1, <2>3 DEF TaleRecord
<1>4. t.n \in Nat /\ t.n = Len(t.c.items) /\ t.c.items \in Seq(Item)
  BY TaleParts, ContentParts
<1>5. /\ c.items[t.n + 1].kind = kind /\ DOMAIN c.items = 1 .. t.n + 1
      /\ \A k \in 1 .. t.n : c.items[k] = t.c.items[k]
  BY <1>2, <1>4, ContentParts, AppendProperties
<1>6. ASSUME NEW k \in DOMAIN c.items, c.items[k].kind = "tool" PROVE c.tools # <<>>
  <2>1. CASE k = t.n + 1
    BY <1>2, <1>5, <1>6, <2>1
  <2>2. CASE k # t.n + 1 /\ kind # "tool"
    <3>1. k \in 1 .. t.n
      BY <1>4, <1>5, <2>2
    <3>2. k \in DOMAIN t.c.items /\ t.c.items[k].kind = "tool"
      BY <1>4, <1>5, <1>6, <3>1
    <3> QED BY <1>2, <2>2, <3>2, TaleParts DEF Sound
  <2>3. CASE kind = "tool"
    BY <1>2, <2>3
  <2> QED BY <2>1, <2>2, <2>3
<1>7. Sound(b)
  <2>1. b.n = Len(b.c.items) /\ b.n # 0 /\ b.kind # "none" /\ ~b.marked
        /\ (b.pc \in {"start", "open", "block", "parted"} => b.why = "none")
    BY <1>2, <1>3, <1>4, TaleParts DEF BlockKind
  <2>2. b.c.items[b.n].kind = b.kind
    BY <1>3, <1>5
  <2>3. \A k \in DOMAIN b.c.items : b.c.items[k].kind = "tool" => b.c.tools # <<>>
    BY <1>3, <1>6
  <2> QED BY <2>1, <2>2, <2>3 DEF Sound
<1> QED BY <1>2, <1>3, <1>7 DEF Tale, b, c

LEMMA NextPieceIs ==
  ASSUME NEW t \in Tale, NEW kind \in BlockKind, t.kind = kind, NEW frag \in Nat
  PROVE  LET b == NextPiece(t, kind, frag)
         IN /\ b \in Tale /\ Beginning(t.c, b.c) /\ b.c = MoreOfLast(t.c, kind, frag)
            /\ b.pc = t.pc /\ b.kind = kind /\ b.n = t.n /\ b.why = t.why
            /\ b.usage = t.usage /\ b.marked = t.marked /\ b.signed = t.signed
            /\ Len(b.c.tools) = Len(t.c.tools) /\ ((b.c.tools = <<>>) <=> (t.c.tools = <<>>))
<1> DEFINE b == NextPiece(t, kind, frag)
           c == MoreOfLast(t.c, kind, frag)
<1>1. b = [t EXCEPT !.c = c]
  BY DEF NextPiece
<1>2. t.n # 0 /\ t.c.items # <<>> /\ (kind = "tool" => t.c.tools # <<>>)
  BY TaleParts DEF BlockKind
<1>3. /\ c \in Content /\ Len(c.items) = t.n /\ t.n \in DOMAIN t.c.items /\ DOMAIN c.items = DOMAIN t.c.items
      /\ \A k \in DOMAIN t.c.items : c.items[k].kind = t.c.items[k].kind
      /\ Beginning(t.c, c) /\ Len(c.tools) = Len(t.c.tools)
      /\ ((c.tools = <<>>) <=> (t.c.tools = <<>>))
  <2>1. t.c \in Content /\ t.n = Len(t.c.items)
    BY TaleParts
  <2> DEFINE e == t.c
             m == MoreOfLast(e, kind, frag)
  <2>2. e \in Content /\ e.items # <<>> /\ (kind = "tool" => e.tools # <<>>)
    BY <1>2, <2>1
  <2> HIDE DEF e
  <2>3. /\ m \in Content /\ Len(m.items) = Len(e.items) /\ Len(e.items) \in DOMAIN e.items
        /\ DOMAIN m.items = DOMAIN e.items
        /\ \A k \in DOMAIN e.items : m.items[k].kind = e.items[k].kind
    BY <2>2, MoreOfLastIs
  <2>4. Beginning(e, m) /\ Len(m.tools) = Len(e.tools)
        /\ ((m.tools = <<>>) <=> (e.tools = <<>>))
    BY <2>2, MoreOfLastIs
  <2> HIDE DEF m
  <2> QED BY <2>1, <2>3, <2>4 DEF e, m
<1> HIDE DEF b, c
<1>4. /\ b.c = c /\ b.pc = t.pc /\ b.kind = kind /\ b.n = t.n /\ b.why = t.why
      /\ b.usage = t.usage /\ b.marked = t.marked /\ b.signed = t.signed /\ b \in TaleRecord
  BY <1>1, <1>3, TaleIsRecord DEF TaleRecord
<1>5. Sound(b)
  <2>1. /\ b.n = Len(b.c.items) /\ b.n # 0 /\ b.kind # "none"
        /\ (b.marked => b.pc \in {"block", "error"} /\ b.kind = "thinking")
        /\ (b.pc \in {"start", "open", "block", "parted"} => b.why = "none")
    BY <1>2, <1>3, <1>4, TaleParts DEF BlockKind
  <2>2. b.c.items[b.n].kind = b.kind
    BY <1>2, <1>3, <1>4, TaleParts
  <2>3. \A k \in DOMAIN b.c.items : b.c.items[k].kind = "tool" => b.c.tools # <<>>
    BY <1>3, <1>4, TaleParts DEF Sound
  <2> QED BY <2>1, <2>2, <2>3 DEF Sound
<1> QED BY <1>3, <1>4, <1>5 DEF Tale, b, c

LEMMA EndsTell ==
  ASSUME NEW t
  PROVE  /\ Tell(t, Bare("error")) = [t EXCEPT !.pc = "error"]
         /\ Tell(t, Bare("response.failed")) = [t EXCEPT !.pc = "error"]
         /\ Tell(t, Done) = IF t.pc = "error" THEN t ELSE [t EXCEPT !.pc = "closed"]
BY DEF Tell, Bare, IsError, Done

\* A tale of which only the place, the reason, the usage or the signatures change.
LEMMA TaleChanged ==
  ASSUME NEW t \in Tale, NEW b, b.c = t.c, b.n = t.n, b.kind = t.kind, b \in TaleRecord,
         b.pc \in {"block", "parted"} => t.n # 0,
         b.marked => b.pc \in {"block", "error"} /\ t.kind = "thinking",
         b.pc \in {"start", "open", "block", "parted"} => b.why = "none",
         t.pc \notin Ended \cup {"error"}
  PROVE  b \in Tale /\ Onward(t, b)
<1>1. Sound(b)
  BY TaleParts DEF Sound
<1> QED BY <1>1, TaleParts, BeginningItself DEF Tale, Onward, Ended

LEMMA SignedIsSeq ==
  ASSUME NEW t \in Tale, NEW yes \in BOOLEAN, yes => t.n # 0
  PROVE  Signed(t, yes) \in Seq(Seq(Nat))
<1>1. t.signed \in Seq(Seq(Nat))
  BY TaleParts
<1>2. CASE yes
  <2>1. t.c.items[t.n].text \in Seq(Nat)
    BY <1>2, TaleParts
  <2> QED BY <1>1, <1>2, <2>1, AppendProperties DEF Signed
<1>3. CASE ~yes
  BY <1>1, <1>3 DEF Signed
<1> QED BY <1>2, <1>3

LEMMA TellTyped ==
  ASSUME NEW u, NEW d \in Dialect, NEW t \in Tale, NEW f \in Frame, May(u, d, t, f)
  PROVE  Tell(t, f) \in Tale /\ Onward(t, Tell(t, f)) /\ Goes(u, d, t, f, Tell(t, f))
<1> DEFINE b == Tell(t, f)
<1> SUFFICES b \in Tale /\ Onward(t, b)
  BY DEF Goes
<1>0. /\ f \in Event /\ f.kind \in EventKind /\ f.id \in Nat /\ f.frag \in Nat
      /\ f.usage \in Usage /\ f.why \in Reason /\ f.signed \in BOOLEAN
  BY MsgIsEvent DEF Event
<1>1. CASE IsError(f) /\ t.pc \notin Ended
  <2>1. b = [t EXCEPT !.pc = "error"]
    BY <1>1 DEF Tell, IsError
  <2> HIDE DEF b
  <2>2. CASE t.pc = "error"
    <3>1. b = t
      BY <2>1, <2>2, TaleIsRecord DEF TaleRecord
    <3> QED BY <3>1, OnwardItself
  <2>3. CASE t.pc # "error"
    <3>1. /\ b \in TaleRecord /\ b.c = t.c /\ b.n = t.n /\ b.kind = t.kind /\ b.pc = "error"
          /\ b.marked = t.marked /\ b.why = t.why
      BY <2>1, TaleIsRecord DEF TaleRecord
    <3> QED BY <1>1, <2>3, <3>1, TaleParts, TaleChanged
  <2> QED BY <2>2, <2>3
<1>2. CASE f.e = "Done" /\ t.pc = "error"
  <2>1. b = t
    BY <1>2 DEF Tell, IsError
  <2> QED BY <2>1, OnwardItself
<1>3. CASE d = "messages" /\ MessagesMay(u, t, f)
  <2>1. CASE f.e = "message_start" /\ t.pc = "start"
    <3>1. b = [t EXCEPT !.pc = "open", !.usage = f.usage]
      BY <2>1 DEF Tell, IsError
    <3> HIDE DEF b
    <3>2. /\ b \in TaleRecord /\ b.c = t.c /\ b.n = t.n /\ b.kind = t.kind /\ b.pc = "open"
          /\ b.marked = t.marked /\ b.why = t.why
      BY <1>0, <3>1, TaleIsRecord DEF TaleRecord
    <3> QED BY <2>1, <3>2, TaleParts, TaleChanged DEF Ended
  <2>2. CASE f.e = "ping" /\ t.pc \notin Ended \cup {"error"}
    <3>1. b = t
      BY <2>2 DEF Tell, IsError
    <3> QED BY <3>1, OnwardItself
  <2>3. CASE f.e = "content_block_start" /\ t.pc = "open" /\ f.i = t.n /\ IdFits(f)
    <3>1. b = [NextBlock(t, f.kind, f.id) EXCEPT !.pc = "block"]
      BY <2>3 DEF Tell, IsError
    <3> DEFINE g == NextBlock(t, f.kind, f.id)
    <3>2. g \in Tale /\ Beginning(t.c, g.c) /\ g.pc = "open" /\ g.n = t.n + 1
      BY <1>0, <2>3, TaleParts, NextBlockIs DEF IdFits
    <3> HIDE DEF g, b
    <3>3. /\ b \in TaleRecord /\ b.c = g.c /\ b.n = g.n /\ b.kind = g.kind /\ b.pc = "block"
          /\ b.marked = g.marked /\ b.why = g.why
      BY <3>1, <3>2, TaleIsRecord DEF TaleRecord, g
    <3>4. b \in Tale
      <4>1. g.n # 0 /\ ~g.marked /\ g.why = "none"
        BY <3>2, TaleParts
      <4> QED BY <3>2, <3>3, <4>1, TaleChanged DEF Ended
    <3> QED BY <2>3, <3>2, <3>3, <3>4 DEF Onward, Ended
  <2>4. CASE f.e = "content_block_delta" /\ t.pc = "block" /\ f.kind = t.kind
    <3>1. f.kind \in BlockKind /\ f.kind # "signature"
      BY <2>4, TaleParts DEF BlockKind
    <3>2. b = NextPiece(t, f.kind, f.frag)
      BY <2>4, <3>1 DEF Tell, IsError
    <3>3. b \in Tale /\ Beginning(t.c, b.c)
      BY <1>0, <2>4, <3>1, <3>2, NextPieceIs
    <3> QED BY <2>4, <3>3 DEF Onward, Ended
  <2>5. CASE f.e = "content_block_delta" /\ t.pc = "block" /\ f.kind = "signature" /\ t.kind = "thinking"
    <3>1. b = [t EXCEPT !.marked = TRUE]
      BY <2>5 DEF Tell, IsError
    <3> HIDE DEF b
    <3>2. /\ b \in TaleRecord /\ b.c = t.c /\ b.n = t.n /\ b.kind = t.kind /\ b.pc = t.pc
          /\ b.why = t.why
      BY <3>1, TaleIsRecord DEF TaleRecord
    <3> QED BY <2>5, <3>2, TaleParts, TaleChanged DEF Ended
  <2>6. CASE f.e = "content_block_stop" /\ t.pc = "block"
    <3>1. b = [t EXCEPT !.pc = "open", !.marked = FALSE, !.signed = Signed(t, t.marked)]
      BY <2>6 DEF Tell, IsError
    <3>2. Signed(t, t.marked) \in Seq(Seq(Nat))
      BY <2>6, TaleParts, SignedIsSeq
    <3> HIDE DEF b
    <3>3. /\ b \in TaleRecord /\ b.c = t.c /\ b.n = t.n /\ b.kind = t.kind /\ b.pc = "open" /\ ~b.marked
          /\ b.why = t.why
      BY <3>1, <3>2, TaleIsRecord DEF TaleRecord
    <3> QED BY <2>6, <3>3, TaleParts, TaleChanged DEF Ended
  <2>7. CASE f.e = "message_delta" /\ t.pc = "open"
    <3>1. b = [t EXCEPT !.pc = "told", !.why = f.why, !.usage = MergeUsage(t.usage, f.usage)]
      BY <2>7 DEF Tell, IsError
    <3>2. MergeUsage(t.usage, f.usage) \in Usage
      BY <1>0, TaleParts, MergedUsage
    <3> HIDE DEF b
    <3>3. /\ b \in TaleRecord /\ b.c = t.c /\ b.n = t.n /\ b.kind = t.kind /\ b.pc = "told"
          /\ b.marked = t.marked
      BY <1>0, <3>1, <3>2, TaleIsRecord DEF TaleRecord
    <3> QED BY <2>7, <3>3, TaleParts, TaleChanged DEF Ended
  <2>8. CASE f.e = "message_stop" /\ t.pc = "told"
    <3>1. b = [t EXCEPT !.pc = "over"]
      BY <2>8 DEF Tell, IsError
    <3> HIDE DEF b
    <3>2. /\ b \in TaleRecord /\ b.c = t.c /\ b.n = t.n /\ b.kind = t.kind /\ b.pc = "over"
          /\ b.marked = t.marked /\ b.why = t.why
      BY <3>1, TaleIsRecord DEF TaleRecord
    <3> QED BY <2>8, <3>2, TaleParts, TaleChanged DEF Ended
  <2>9. CASE f.e = "Done" /\ t.pc = "over"
    <3>1. b = [t EXCEPT !.pc = "closed"]
      BY <2>9 DEF Tell, IsError
    <3> HIDE DEF b
    <3>2. b \in Tale /\ b.pc = "closed" /\ b.c = t.c
      BY <2>9, <3>1, TaleParts DEF Tale, TaleRecord, Sound
    <3> QED BY <2>9, <3>1, <3>2, TaleParts, BeginningItself DEF Onward, Ended
  <2> QED BY <1>3, <2>1, <2>2, <2>3, <2>4, <2>5, <2>6, <2>7, <2>8, <2>9 DEF MessagesMay
<1>4. CASE d = "chat" /\ ChatMay(u, t, f)
  <2>1. CASE f.e = "chunk" /\ f.kind = "role" /\ t.pc = "start"
    <3>1. b = [t EXCEPT !.pc = "open"]
      BY <2>1 DEF Tell, IsError, TellChunk
    <3> HIDE DEF b
    <3>2. /\ b \in TaleRecord /\ b.c = t.c /\ b.n = t.n /\ b.kind = t.kind /\ b.pc = "open"
          /\ b.marked = t.marked /\ b.why = t.why
      BY <3>1, TaleIsRecord DEF TaleRecord
    <3> QED BY <2>1, <3>2, TaleParts, TaleChanged DEF Ended
  <2>2. CASE f.e = "chunk" /\ f.kind \in {"text", "thinking"} /\ t.pc = "open"
    <3> DEFINE g == IF t.kind = f.kind THEN t ELSE NextBlock(t, f.kind, 0)
    <3>1. b = NextPiece(g, f.kind, f.frag)
      BY <2>2 DEF Tell, IsError, TellChunk
    <3>2. f.kind \in BlockKind /\ 0 \in Nat
      BY <2>2 DEF BlockKind
    <3>3. g \in Tale /\ Beginning(t.c, g.c) /\ g.kind = f.kind /\ g.pc = "open"
      BY <2>2, <3>2, TaleParts, NextBlockIs, BeginningItself
    <3> HIDE DEF b, g
    <3>4. b \in Tale /\ Beginning(g.c, b.c)
      BY <1>0, <3>1, <3>2, <3>3, NextPieceIs
    <3>5. Beginning(t.c, b.c)
      BY <3>3, <3>4, TaleParts, BeginningFurther
    <3> QED BY <2>2, <3>4, <3>5 DEF Onward, Ended
  <2>3. CASE f.e = "chunk" /\ f.kind = "tool" /\ t.pc = "open" /\ f.id # 0
    <3>1. b = NextBlock(t, "tool", f.id) /\ "tool" \in BlockKind
      BY <2>3 DEF Tell, IsError, TellChunk, BlockKind
    <3>2. b \in Tale /\ Beginning(t.c, b.c)
      BY <1>0, <2>3, <3>1, TaleParts, NextBlockIs
    <3> QED BY <2>3, <3>2 DEF Onward, Ended
  <2>4. CASE f.e = "chunk" /\ f.kind = "tool" /\ t.pc = "open" /\ f.id = 0 /\ t.kind = "tool"
    <3>1. b = NextPiece(t, "tool", f.frag) /\ "tool" \in BlockKind
      BY <2>4 DEF Tell, IsError, TellChunk, BlockKind
    <3>2. b \in Tale /\ Beginning(t.c, b.c)
      BY <1>0, <2>4, <3>1, NextPieceIs
    <3> QED BY <2>4, <3>2 DEF Onward, Ended
  <2>5. CASE f.e = "chunk" /\ f.kind = "finish" /\ t.pc = "open"
    <3>1. b = [t EXCEPT !.pc = "told", !.why = f.why]
      BY <2>5 DEF Tell, IsError, TellChunk
    <3> HIDE DEF b
    <3>2. /\ b \in TaleRecord /\ b.c = t.c /\ b.n = t.n /\ b.kind = t.kind /\ b.pc = "told"
          /\ b.marked = t.marked
      BY <1>0, <3>1, TaleIsRecord DEF TaleRecord
    <3> QED BY <2>5, <3>2, TaleParts, TaleChanged DEF Ended
  <2>6. CASE f.e = "chunk" /\ f.kind = "usage" /\ t.pc \in {"open", "told"}
    <3>1. b = [t EXCEPT !.usage = f.usage]
      BY <2>6 DEF Tell, IsError, TellChunk
    <3> HIDE DEF b
    <3>2. /\ b \in TaleRecord /\ b.c = t.c /\ b.n = t.n /\ b.kind = t.kind /\ b.pc = t.pc
          /\ b.why = t.why
          /\ b.marked = t.marked /\ b.why = t.why
      BY <1>0, <3>1, TaleIsRecord DEF TaleRecord
    <3> QED BY <2>6, <3>2, TaleParts, TaleChanged DEF Ended
  <2>7. CASE f.e \in {"[DONE]", "Done"} /\ t.pc \in {"open", "told"}
    <3>1. b = [t EXCEPT !.pc = "over"] \/ b = [t EXCEPT !.pc = "closed"]
      BY <2>7 DEF Tell, IsError
    <3> HIDE DEF b
    <3>2. /\ b \in TaleRecord /\ b.c = t.c /\ b.n = t.n /\ b.kind = t.kind
          /\ b.pc \in {"over", "closed"} /\ b.marked = t.marked
      BY <3>1, TaleIsRecord DEF TaleRecord
    <3> QED BY <2>7, <3>2, TaleParts, TaleChanged DEF Ended
  <2> QED BY <1>4, <2>1, <2>2, <2>3, <2>4, <2>5, <2>6, <2>7 DEF ChatMay
<1>5. CASE d = "responses" /\ ResponsesMay(t, f)
  <2>1. CASE f.e = "response.created" /\ t.pc = "start"
    <3>1. b = [t EXCEPT !.pc = "open", !.usage = f.usage]
      BY <2>1 DEF Tell, IsError
    <3> HIDE DEF b
    <3>2. /\ b \in TaleRecord /\ b.c = t.c /\ b.n = t.n /\ b.kind = t.kind /\ b.pc = "open"
          /\ b.marked = t.marked /\ b.why = t.why
      BY <1>0, <3>1, TaleIsRecord DEF TaleRecord
    <3> QED BY <2>1, <3>2, TaleParts, TaleChanged DEF Ended
  <2>2. CASE f.e = "response.in_progress"
    <3>1. b = t
      BY <2>2 DEF Tell, IsError
    <3> QED BY <3>1, OnwardItself
  <2>3. CASE f.e = "response.output_item.added" /\ t.pc = "open" /\ f.i = t.n /\ IdFits(f)
    <3>1. b = [NextBlock(t, f.kind, f.id) EXCEPT !.pc = "block"]
      BY <2>3 DEF Tell, IsError
    <3> DEFINE g == NextBlock(t, f.kind, f.id)
    <3>2. g \in Tale /\ Beginning(t.c, g.c) /\ g.pc = "open" /\ g.n = t.n + 1
      BY <1>0, <2>3, TaleParts, NextBlockIs DEF IdFits
    <3> HIDE DEF g, b
    <3>3. /\ b \in TaleRecord /\ b.c = g.c /\ b.n = g.n /\ b.kind = g.kind /\ b.pc = "block"
          /\ b.marked = g.marked /\ b.why = g.why
      BY <3>1, <3>2, TaleIsRecord DEF TaleRecord, g
    <3>4. b \in Tale
      <4>1. g.n # 0 /\ ~g.marked /\ g.why = "none"
        BY <3>2, TaleParts
      <4> QED BY <3>2, <3>3, <4>1, TaleChanged DEF Ended
    <3> QED BY <2>3, <3>2, <3>3, <3>4 DEF Onward, Ended
  <2>4. CASE f.e = "response.delta" /\ t.pc = "block" /\ f.kind = t.kind
    <3>1. f.kind \in BlockKind /\ f.kind # "signature"
      BY <2>4, TaleParts DEF BlockKind
    <3>2. b = NextPiece(t, f.kind, f.frag)
      BY <2>4, <3>1 DEF Tell, IsError
    <3>3. b \in Tale /\ Beginning(t.c, b.c)
      BY <1>0, <2>4, <3>1, <3>2, NextPieceIs
    <3> QED BY <2>4, <3>3 DEF Onward, Ended
  <2>5. CASE f.e = "response.done" /\ t.pc = "block" /\ t.kind # "thinking"
    <3>1. b = [t EXCEPT !.pc = "parted"]
      BY <2>5 DEF Tell, IsError
    <3> HIDE DEF b
    <3>2. /\ b \in TaleRecord /\ b.c = t.c /\ b.n = t.n /\ b.kind = t.kind /\ b.pc = "parted"
          /\ b.marked = t.marked /\ b.why = t.why
      BY <3>1, TaleIsRecord DEF TaleRecord
    <3> QED BY <2>5, <3>2, TaleParts, TaleChanged DEF Ended
  <2>6. CASE /\ f.e = "response.output_item.done" /\ t.pc \in {"block", "parted"}
    <3>1. b = [t EXCEPT !.pc = "open", !.marked = FALSE, !.signed = Signed(t, f.signed)]
      BY <2>6 DEF Tell, IsError
    <3>2. Signed(t, f.signed) \in Seq(Seq(Nat))
      BY <1>0, <2>6, TaleParts, SignedIsSeq
    <3> HIDE DEF b
    <3>3. /\ b \in TaleRecord /\ b.c = t.c /\ b.n = t.n /\ b.kind = t.kind /\ b.pc = "open"
          /\ ~b.marked /\ b.why = t.why
      BY <3>1, <3>2, TaleIsRecord DEF TaleRecord
    <3> QED BY <2>6, <3>3, TaleParts, TaleChanged DEF Ended
  <2>7. CASE f.e = "response.completed" /\ t.pc = "open"
    <3>1. b = [t EXCEPT !.pc = "over", !.usage = f.usage]
      BY <2>7 DEF Tell, IsError
    <3> HIDE DEF b
    <3>2. /\ b \in TaleRecord /\ b.c = t.c /\ b.n = t.n /\ b.kind = t.kind /\ b.pc = "over"
          /\ b.marked = t.marked /\ b.why = t.why
      BY <1>0, <3>1, TaleIsRecord DEF TaleRecord
    <3> QED BY <2>7, <3>2, TaleParts, TaleChanged DEF Ended
  <2>8. CASE f.e = "Done" /\ t.pc = "over"
    <3>1. b = [t EXCEPT !.pc = "closed"]
      BY <2>8 DEF Tell, IsError
    <3> HIDE DEF b
    <3>2. b \in Tale /\ b.pc = "closed" /\ b.c = t.c
      <4>1. b \in TaleRecord /\ b.pc = "closed" /\ b.c = t.c /\ b.n = t.n /\ b.kind = t.kind
            /\ b.marked = t.marked /\ b.why = t.why
        BY <3>1, TaleIsRecord DEF TaleRecord
      <4>2. Sound(b)
        BY <2>8, <4>1, TaleParts DEF Sound
      <4> QED BY <4>1, <4>2 DEF Tale
    <3> QED BY <2>8, <3>1, <3>2, TaleParts, BeginningItself DEF Onward, Ended
  <2> QED BY <1>5, <2>1, <2>2, <2>3, <2>4, <2>5, <2>6, <2>7, <2>8 DEF ResponsesMay
<1> QED BY <1>1, <1>2, <1>3, <1>4, <1>5 DEF May

-----------------------------------------------------------------------------
(* The client and what it is told *)

\* The client h, of dialect d, has read the tale t.
Reads(d, h, t) ==
  /\ ~h.confused /\ SameWords(h.said, t.c)
  /\ h.end = IF t.pc = "error" THEN "error" ELSE IF t.pc \in Ended THEN "over" ELSE "no"
  /\ h.closed => t.pc \in {"closed", "error"}
  /\ t.pc # "error" => h.usage = t.usage /\ h.why = t.why
  /\ t.pc # "error" /\ d # "chat" =>
       /\ (h.on <=> t.pc # "start") /\ h.blocks = t.n /\ h.said = t.c
       /\ h.open = IF t.pc \in {"block", "parted"} THEN [kind |-> t.kind, i |-> t.n - 1]
                   ELSE NoBlock
  /\ d = "responses" /\ t.pc \in Ended => h.final = t.c.items

LEMMA SameWordsBegun ==
  ASSUME NEW a \in Content, NEW b \in Content, SameWords(a, b), NEW kind \in BlockKind,
         NEW id \in Nat
  PROVE  /\ SameWords(Begun(a, kind, id), Begun(b, kind, id))
         /\ (kind # "tool" => SameWords(a, Begun(b, kind, id)))
         /\ SameWords([a EXCEPT !.tools = Append(@, [id |-> id, text |-> <<>>])],
                      Begun(b, "tool", id))
<1>1. "tool" \in BlockKind
  BY DEF BlockKind
<1>2. SameWords(Begun(a, kind, id), Begun(b, kind, id))
      /\ (kind # "tool" => SameWords(a, Begun(b, kind, id)))
  <2> DEFINE x == Begun(a, kind, id)
             y == Begun(b, kind, id)
  <2>1. /\ x.text = a.text /\ x.thinking = a.thinking
        /\ x.tools = IF kind = "tool" THEN Append(a.tools, [id |-> id, text |-> <<>>]) ELSE a.tools
    BY BegunIs
  <2>2. /\ y.text = b.text /\ y.thinking = b.thinking
        /\ y.tools = IF kind = "tool" THEN Append(b.tools, [id |-> id, text |-> <<>>]) ELSE b.tools
    BY BegunIs
  <2> HIDE DEF x, y
  <2>3. SameWords(x, y) /\ (kind # "tool" => SameWords(a, y))
    BY <2>1, <2>2 DEF SameWords
  <2> QED BY <2>3 DEF x, y
<1>3. LET c == [a EXCEPT !.tools = Append(@, [id |-> id, text |-> <<>>])]
      IN c.text = a.text /\ c.thinking = a.thinking
         /\ c.tools = Append(a.tools, [id |-> id, text |-> <<>>])
  BY DEF Content
<1>4. LET c == Begun(b, "tool", id)
      IN c.text = b.text /\ c.thinking = b.thinking
         /\ c.tools = Append(b.tools, [id |-> id, text |-> <<>>])
  BY <1>1, BegunIs
<1> QED BY <1>2, <1>3, <1>4 DEF SameWords

LEMMA SameWordsMore ==
  ASSUME NEW a \in Content, NEW b \in Content, SameWords(a, b), NEW kind \in BlockKind,
         NEW frag \in Nat, b.items # <<>>, kind = "tool" => b.tools # <<>>,
         NEW n \in Nat, kind = "tool" => n = Len(b.tools)
  PROVE  SameWords(More(a, kind, n, frag), MoreOfLast(b, kind, frag))
<1> DEFINE x == More(a, kind, n, frag)
           y == MoreOfLast(b, kind, frag)
<1>1. /\ x.text = IF kind = "text" THEN Append(a.text, frag) ELSE a.text
      /\ x.thinking = IF kind = "thinking" THEN Append(a.thinking, frag) ELSE a.thinking
      /\ x.tools = IF kind = "tool" THEN MoreAt(a.tools, n, frag) ELSE a.tools
  <2>1. x.text = IF kind = "text" THEN Append(a.text, frag) ELSE a.text
    BY MoreIs
  <2>2. x.thinking = IF kind = "thinking" THEN Append(a.thinking, frag) ELSE a.thinking
    BY MoreIs
  <2>3. x.tools = IF kind = "tool" THEN MoreAt(a.tools, n, frag) ELSE a.tools
    BY MoreIs
  <2> QED BY <2>1, <2>2, <2>3
<1>2. /\ y.text = IF kind = "text" THEN Append(b.text, frag) ELSE b.text
      /\ y.thinking = IF kind = "thinking" THEN Append(b.thinking, frag) ELSE b.thinking
      /\ y.tools = IF kind = "tool" THEN MoreAt(b.tools, Len(b.tools), frag) ELSE b.tools
  BY MoreOfLastIs
<1> HIDE DEF x, y
<1>3. SameWords(x, y)
  BY <1>1, <1>2 DEF SameWords
<1> QED BY <1>3 DEF x, y

\* A client that reads what its dialect allows goes on with the tale.
LEMMA HearsMore ==
  ASSUME TypeInv, NEW t \in Tale, NEW f \in Frame, Reads(route.client, heard, t),
         May("gateway", route.client, t, f)
  PROVE  Reads(route.client, Hears(f), Tell(t, f))
<1> DEFINE d == route.client
           b == Tell(t, f)
           h == Hears(f)
<1> SUFFICES Reads(d, h, b)
  OBVIOUS
<1>0. /\ f.kind \in EventKind /\ f.id \in Nat /\ f.frag \in Nat /\ f.i \in Nat
      /\ heard \in Client /\ heard.said \in Content /\ d \in Dialect
  BY MsgIsEvent, RouteIsRoute DEF Event, TypeInv, Client
<1>1. CASE t.pc = "error"
  <2>1. heard.end = "error" /\ (IsError(f) \/ f.e = "Done")
    BY <1>1 DEF Reads, May, MessagesMay, ChatMay, ResponsesMay, Ended
  <2>2. CASE IsError(f)
    <3>1. f # Done
      BY <2>2 DEF IsError, Done, Bare
    <3>2. h = heard
      BY <2>1, <3>1 DEF Hears
    <3>3. b = [t EXCEPT !.pc = "error"]
      BY <2>2 DEF Tell, IsError
    <3>4. b = t
      BY <1>1, <3>3, TaleIsRecord DEF TaleRecord
    <3> QED BY <3>2, <3>4
  <2>3. CASE f.e = "Done"
    <3>1. f = Done
      BY <2>3 DEF Frame, Msg, Proper
    <3>2. b = t
      BY <1>1, <3>1, EndsTell
    <3>3. h = [heard EXCEPT !.closed = TRUE]
      BY <1>0, <2>1, <3>1 DEF Hears, Allows, ReadFrame, Done, Bare, IsError, Client
    <3>4. /\ h.confused = heard.confused /\ h.said = heard.said /\ h.end = heard.end
      BY <1>0, <3>3 DEF Client
    <3> QED BY <1>1, <3>2, <3>4 DEF Reads, Ended
  <2> QED BY <2>1, <2>2, <2>3
<1>2. CASE t.pc # "error" /\ IsError(f)
  <2>1. t.pc \notin Ended
    BY <1>2 DEF May, IsError, MessagesMay, ChatMay, ResponsesMay
  <2>2. h = [heard EXCEPT !.end = "error"]
    BY <1>0, <1>2 DEF Hears, Allows, ReadFrame, IsError, Reads, Ended
  <2>3. b = [t EXCEPT !.pc = "error"]
    BY <1>2 DEF Tell, IsError
  <2>4. /\ h.confused = heard.confused /\ h.said = heard.said /\ h.end = "error"
    BY <1>0, <2>2 DEF Client
  <2>5. b.pc = "error" /\ b.c = t.c
    BY <2>3, TaleIsRecord DEF TaleRecord
  <2> QED BY <2>4, <2>5 DEF Reads, Ended
<1>6. /\ t.c \in Content /\ t.n \in Nat /\ t \in TaleRecord
      /\ (t.n # 0 => t.n - 1 \in Nat /\ t.kind \in BlockKind /\ t.c.items # <<>>)
      /\ (t.pc \in {"block", "parted"} => t.n # 0)
  BY TaleParts
<1>7. ASSUME t.pc # "error" PROVE heard.end # "error" /\ (Allows(f) => h = ReadFrame(f))
  BY <1>7 DEF Reads, Hears, Ended
<1>3. CASE t.pc # "error" /\ d = "messages" /\ MessagesMay("gateway", t, f)
  <2>0. t.pc # "error" /\ route.client = "messages" /\ Reads("messages", heard, t)
    BY <1>3
  <2>1. CASE f.e = "message_start" /\ t.pc = "start"
    <3>1. Allows(f)
      BY <1>0, <1>6, <2>0, <2>1
      DEF Allows, Under, MayGoOn, Named, Reads, Ended, NoBlock, BlockKind, IdFits, IsError
    <3>2. h = [heard EXCEPT !.on = TRUE, !.usage = f.usage]
      BY <1>7, <2>0, <2>1, <3>1 DEF ReadFrame, IsError, Reads
    <3>3. b = [t EXCEPT !.pc = "open", !.usage = f.usage]
      BY <2>1 DEF Tell, IsError
    <3> HIDE DEF h, b
    <3>4. /\ (h.confused <=> heard.confused) /\ h.said = heard.said /\ h.end = heard.end
          /\ (h.closed <=> heard.closed) /\ h.usage = f.usage /\ h.why = heard.why /\ h.on = TRUE
          /\ h.blocks = heard.blocks /\ h.open = heard.open /\ h.final = heard.final
      BY <1>0, <3>2 DEF Client
    <3>5. /\ b.c = t.c /\ b.pc = "open" /\ b.n = t.n /\ b.kind = t.kind /\ b.usage = f.usage
          /\ b.why = t.why
      BY <1>6, <3>3 DEF TaleRecord
    <3> QED BY <1>6, <2>0, <2>1, <3>4, <3>5 DEF Reads, Ended, SameWords
  <2>2. CASE f.e = "ping" /\ t.pc \notin Ended \cup {"error"}
    <3>1. Allows(f)
      BY <1>0, <1>6, <2>0, <2>2
      DEF Allows, Under, MayGoOn, Named, Reads, Ended, NoBlock, BlockKind, IdFits, IsError
    <3>2. h = heard
      BY <1>7, <2>0, <2>2, <3>1 DEF ReadFrame, IsError, Reads
    <3>3. b = t
      BY <2>2 DEF Tell, IsError
    <3> HIDE DEF h, b
    <3>4. /\ (h.confused <=> heard.confused) /\ h.said = heard.said /\ h.end = heard.end
          /\ (h.closed <=> heard.closed) /\ h.usage = heard.usage /\ h.why = heard.why
          /\ (h.on <=> heard.on) /\ h.blocks = heard.blocks /\ h.open = heard.open
          /\ h.final = heard.final
      BY <1>0, <3>2 DEF Client
    <3>5. /\ b.c = t.c /\ b.pc = t.pc /\ b.n = t.n /\ b.kind = t.kind /\ b.usage = t.usage
          /\ b.why = t.why
      BY <1>6, <3>3 DEF TaleRecord
    <3> QED BY <1>6, <2>0, <2>2, <3>4, <3>5 DEF Reads, Ended, SameWords
  <2>3. CASE f.e = "content_block_start" /\ t.pc = "open" /\ f.i = t.n /\ IdFits(f)
    <3>1. Allows(f)
      BY <1>0, <1>6, <2>0, <2>3 DEF Allows, Under, Reads, Ended, NoBlock
    <3>2. h = [heard EXCEPT !.open = [kind |-> f.kind, i |-> f.i], !.blocks = heard.blocks + 1,
                            !.said = Begun(heard.said, f.kind, f.id)]
      BY <1>7, <2>0, <2>3, <3>1 DEF ReadFrame, IsError
    <3>3. b = [NextBlock(t, f.kind, f.id) EXCEPT !.pc = "block"]
      BY <2>3 DEF Tell, IsError
    <3> DEFINE g == NextBlock(t, f.kind, f.id)
    <3>4. /\ g \in TaleRecord /\ g.c = Begun(t.c, f.kind, f.id) /\ g.kind = f.kind /\ g.n = t.n + 1
          /\ g.why = t.why /\ g.usage = t.usage
      BY <1>0, <2>3, TaleParts, NextBlockIs, TaleIsRecord DEF IdFits
    <3> HIDE DEF h, b, g
    <3>5. /\ b.c = Begun(t.c, f.kind, f.id) /\ b.kind = f.kind /\ b.n = t.n + 1 /\ b.pc = "block"
          /\ b.why = t.why /\ b.usage = t.usage
      BY <3>3, <3>4 DEF TaleRecord, g
    <3>6. /\ (h.confused <=> heard.confused) /\ h.said = Begun(heard.said, f.kind, f.id)
          /\ h.end = heard.end /\ (h.closed <=> heard.closed) /\ h.usage = heard.usage
          /\ h.why = heard.why /\ (h.on <=> heard.on) /\ h.blocks = heard.blocks + 1
          /\ h.open = [kind |-> f.kind, i |-> f.i]
      BY <1>0, <3>2 DEF Client
    <3>7. (t.n + 1) - 1 = f.i
      BY <1>6, <2>3
    <3> QED BY <2>0, <2>3, <3>5, <3>6, <3>7 DEF Reads, Ended, SameWords
  <2>4. CASE f.e = "content_block_delta" /\ t.pc = "block" /\ f.i + 1 = t.n /\ f.kind = t.kind
    <3>0. f.kind \in BlockKind /\ f.kind # "signature" /\ t.n - 1 = f.i
      BY <1>0, <1>6, <2>4 DEF BlockKind
    <3>1. Allows(f)
      BY <1>0, <1>6, <2>0, <2>4, <3>0 DEF Allows, Under, MayGoOn, Named, Reads, Ended
    <3>2. h = [heard EXCEPT !.said = MoreOfLast(heard.said, f.kind, f.frag)]
      BY <1>7, <2>0, <2>4, <3>0, <3>1 DEF ReadFrame, IsError
    <3>3. b = NextPiece(t, f.kind, f.frag)
      BY <2>4, <3>0 DEF Tell, IsError
    <3>4. /\ b.c = MoreOfLast(t.c, f.kind, f.frag) /\ b.kind = t.kind /\ b.n = t.n /\ b.pc = t.pc
          /\ b.why = t.why /\ b.usage = t.usage
      BY <1>0, <2>4, <3>0, <3>3, NextPieceIs
    <3> HIDE DEF h, b
    <3>5. /\ (h.confused <=> heard.confused)
          /\ h.said = MoreOfLast(heard.said, f.kind, f.frag) /\ h.end = heard.end
          /\ (h.closed <=> heard.closed) /\ h.usage = heard.usage /\ h.why = heard.why
          /\ (h.on <=> heard.on) /\ h.blocks = heard.blocks /\ h.open = heard.open
          /\ h.final = heard.final
      BY <1>0, <3>2 DEF Client
    <3> QED BY <2>0, <2>4, <3>4, <3>5 DEF Reads, Ended, SameWords
  <2>5. CASE /\ f.e = "content_block_delta" /\ t.pc = "block" /\ f.i + 1 = t.n
             /\ f.kind = "signature" /\ t.kind = "thinking"
    <3>1. Allows(f)
      BY <1>0, <1>6, <2>0, <2>5
      DEF Allows, Under, MayGoOn, Named, Reads, Ended, NoBlock, BlockKind, IdFits, IsError
    <3>2. h = heard
      BY <1>7, <2>0, <2>5, <3>1 DEF ReadFrame, IsError, Reads
    <3>3. b = [t EXCEPT !.marked = TRUE]
      BY <2>5 DEF Tell, IsError
    <3> HIDE DEF h, b
    <3>4. /\ (h.confused <=> heard.confused) /\ h.said = heard.said /\ h.end = heard.end
          /\ (h.closed <=> heard.closed) /\ h.usage = heard.usage /\ h.why = heard.why
          /\ (h.on <=> heard.on) /\ h.blocks = heard.blocks /\ h.open = heard.open
          /\ h.final = heard.final
      BY <1>0, <3>2 DEF Client
    <3>5. /\ b.c = t.c /\ b.pc = t.pc /\ b.n = t.n /\ b.kind = t.kind /\ b.usage = t.usage
          /\ b.why = t.why
      BY <1>6, <3>3 DEF TaleRecord
    <3> QED BY <1>6, <2>0, <2>5, <3>4, <3>5 DEF Reads, Ended, SameWords
  <2>6. CASE f.e = "content_block_stop" /\ t.pc = "block" /\ f.i + 1 = t.n
    <3>1. Allows(f)
      BY <1>0, <1>6, <2>0, <2>6
      DEF Allows, Under, MayGoOn, Named, Reads, Ended, NoBlock, BlockKind, IdFits, IsError
    <3>2. h = [heard EXCEPT !.open = NoBlock]
      BY <1>7, <2>0, <2>6, <3>1 DEF ReadFrame, IsError, Reads
    <3>3. b = [t EXCEPT !.pc = "open", !.marked = FALSE, !.signed = Signed(t, t.marked)]
      BY <2>6 DEF Tell, IsError
    <3> HIDE DEF h, b
    <3>4. /\ (h.confused <=> heard.confused) /\ h.said = heard.said /\ h.end = heard.end
          /\ (h.closed <=> heard.closed) /\ h.usage = heard.usage /\ h.why = heard.why
          /\ (h.on <=> heard.on) /\ h.blocks = heard.blocks /\ h.open = NoBlock
          /\ h.final = heard.final
      BY <1>0, <3>2 DEF Client
    <3>5. /\ b.c = t.c /\ b.pc = "open" /\ b.n = t.n /\ b.kind = t.kind /\ b.usage = t.usage
          /\ b.why = t.why
      BY <1>6, <3>3 DEF TaleRecord
    <3> QED BY <1>6, <2>0, <2>6, <3>4, <3>5 DEF Reads, Ended, SameWords
  <2>7. CASE f.e = "message_delta" /\ t.pc = "open"
    <3>1. Allows(f)
      BY <1>0, <1>6, <2>0, <2>7
      DEF Allows, Under, MayGoOn, Named, Reads, Ended, NoBlock, BlockKind, IdFits, IsError
    <3>2. h = [heard EXCEPT !.why = f.why, !.usage = MergeUsage(heard.usage, f.usage)]
      BY <1>7, <2>0, <2>7, <3>1 DEF ReadFrame, IsError, Reads
    <3>3. b = [t EXCEPT !.pc = "told", !.why = f.why, !.usage = MergeUsage(t.usage, f.usage)]
      BY <2>7 DEF Tell, IsError
    <3> HIDE DEF h, b
    <3>4. /\ (h.confused <=> heard.confused) /\ h.said = heard.said /\ h.end = heard.end
          /\ (h.closed <=> heard.closed) /\ h.usage = MergeUsage(heard.usage, f.usage)
          /\ h.why = f.why /\ (h.on <=> heard.on) /\ h.blocks = heard.blocks
          /\ h.open = heard.open /\ h.final = heard.final
      BY <1>0, <3>2 DEF Client
    <3>5. /\ b.c = t.c /\ b.pc = "told" /\ b.n = t.n /\ b.kind = t.kind
          /\ b.usage = MergeUsage(t.usage, f.usage) /\ b.why = f.why
      BY <1>6, <3>3 DEF TaleRecord
    <3> QED BY <1>6, <2>0, <2>7, <3>4, <3>5 DEF Reads, Ended, SameWords
  <2>8. CASE f.e = "message_stop" /\ t.pc = "told"
    <3>1. Allows(f)
      BY <1>0, <1>6, <2>0, <2>8
      DEF Allows, Under, MayGoOn, Named, Reads, Ended, NoBlock, BlockKind, IdFits, IsError
    <3>2. h = [heard EXCEPT !.end = "over"]
      BY <1>7, <2>0, <2>8, <3>1 DEF ReadFrame, IsError, Reads
    <3>3. b = [t EXCEPT !.pc = "over"]
      BY <2>8 DEF Tell, IsError
    <3> HIDE DEF h, b
    <3>4. /\ (h.confused <=> heard.confused) /\ h.said = heard.said /\ h.end = "over"
          /\ (h.closed <=> heard.closed) /\ h.usage = heard.usage /\ h.why = heard.why
          /\ (h.on <=> heard.on) /\ h.blocks = heard.blocks /\ h.open = heard.open
          /\ h.final = heard.final
      BY <1>0, <3>2 DEF Client
    <3>5. /\ b.c = t.c /\ b.pc = "over" /\ b.n = t.n /\ b.kind = t.kind /\ b.usage = t.usage
          /\ b.why = t.why
      BY <1>6, <3>3 DEF TaleRecord
    <3> QED BY <1>6, <2>0, <2>8, <3>4, <3>5 DEF Reads, Ended, SameWords
  <2>9. CASE f.e = "Done" /\ t.pc = "over"
    <3>1. f = Done
      BY <2>9 DEF Frame, Msg, Proper
    <3>2. Allows(f)
      BY <3>1 DEF Allows, Done, Bare
    <3>3. h = [heard EXCEPT !.closed = TRUE]
      BY <1>0, <1>7, <2>0, <2>9, <3>2 DEF ReadFrame, IsError, Reads, Ended, Client
    <3>4. b = [t EXCEPT !.pc = "closed"]
      BY <2>9 DEF Tell, IsError
    <3> HIDE DEF h, b
    <3>5. /\ (h.confused <=> heard.confused) /\ h.said = heard.said /\ h.end = heard.end
          /\ h.closed = TRUE /\ h.usage = heard.usage /\ h.why = heard.why /\ (h.on <=> heard.on)
          /\ h.blocks = heard.blocks /\ h.open = heard.open /\ h.final = heard.final
      BY <1>0, <3>3 DEF Client
    <3>6. /\ b.c = t.c /\ b.pc = "closed" /\ b.n = t.n /\ b.kind = t.kind /\ b.usage = t.usage
          /\ b.why = t.why
      BY <1>6, <3>4 DEF TaleRecord
    <3> QED BY <2>0, <2>9, <3>5, <3>6 DEF Reads, Ended, SameWords
  <2> QED BY <1>3, <2>1, <2>2, <2>3, <2>4, <2>5, <2>6, <2>7, <2>8, <2>9 DEF MessagesMay
<1>4. CASE t.pc # "error" /\ d = "chat" /\ ChatMay("gateway", t, f)
  <2>0. t.pc # "error" /\ route.client = "chat" /\ Reads("chat", heard, t)
    BY <1>4
  <2>10. t.pc \in {"open", "told", "start"} => heard.end = "no" /\ ~heard.closed
    BY <2>0 DEF Reads, Ended
  <2>11. t.pc = "open" => t.why = "none"
    BY TaleParts
  <2>1. CASE f.e = "chunk" /\ f.kind = "role" /\ t.pc = "start"
    <3>1. Allows(f)
      BY <1>6, <2>0, <2>1, <2>10, <2>11 DEF Allows, ChatAllows, Reads, SameWords
    <3>2. h = heard
      BY <1>7, <2>0, <2>1, <3>1 DEF ReadFrame, ReadChunk, IsError
    <3>3. b = [t EXCEPT !.pc = "open"]
      BY <2>1 DEF Tell, IsError, TellChunk
    <3> HIDE DEF h, b
    <3>4. /\ (h.confused <=> heard.confused) /\ h.said = heard.said /\ h.end = heard.end
          /\ (h.closed <=> heard.closed) /\ h.usage = heard.usage /\ h.why = heard.why
          /\ (h.on <=> heard.on) /\ h.blocks = heard.blocks /\ h.open = heard.open
          /\ h.final = heard.final
      BY <1>0, <3>2 DEF Client
    <3>5. /\ b.c = t.c /\ b.pc = "open" /\ b.n = t.n /\ b.kind = t.kind /\ b.usage = t.usage
          /\ b.why = t.why
      BY <1>6, <3>3 DEF TaleRecord
    <3> QED BY <2>0, <2>1, <3>4, <3>5 DEF Reads, Ended, SameWords
  <2>2. CASE f.e = "chunk" /\ f.kind \in {"text", "thinking"} /\ t.pc = "open"
    <3> DEFINE g == IF t.kind = f.kind THEN t ELSE NextBlock(t, f.kind, 0)
               w == More(heard.said, f.kind, 0, f.frag)
    <3>0. f.kind \in BlockKind /\ 0 \in Nat /\ f.kind # "tool"
      BY <2>2 DEF BlockKind
    <3>1. Allows(f)
      BY <1>6, <2>0, <2>2, <2>10, <2>11 DEF Allows, ChatAllows, Reads, SameWords
    <3>2. h = [heard EXCEPT !.said = w]
      BY <1>7, <2>0, <2>2, <3>1 DEF ReadFrame, ReadChunk, IsError
    <3>3. b = NextPiece(g, f.kind, f.frag)
      BY <2>2 DEF Tell, IsError, TellChunk
    <3>4. /\ g \in Tale /\ g.kind = f.kind /\ SameWords(heard.said, g.c)
          /\ g.pc = t.pc /\ g.why = t.why /\ g.usage = t.usage
      <4>1. CASE t.kind = f.kind
        BY <2>0, <4>1 DEF Reads
      <4>2. CASE t.kind # f.kind
        <5>1. ~t.marked
          BY <2>2, TaleParts
        <5>2. /\ g \in Tale /\ g.kind = f.kind /\ g.c = Begun(t.c, f.kind, 0)
              /\ g.pc = t.pc /\ g.why = t.why /\ g.usage = t.usage
          BY <3>0, <4>2, <5>1, NextBlockIs
        <5> QED BY <1>0, <1>6, <2>0, <3>0, <5>2, SameWordsBegun DEF Reads
      <4> QED BY <4>1, <4>2
    <3> HIDE DEF g
    <3>5. /\ b.c = MoreOfLast(g.c, f.kind, f.frag) /\ b.pc = t.pc /\ b.why = t.why
          /\ b.usage = t.usage
      BY <1>0, <3>0, <3>3, <3>4, NextPieceIs
    <3>6. SameWords(w, b.c)
      <4>1. g.c \in Content /\ g.c.items # <<>>
        BY <3>0, <3>4, TaleParts DEF BlockKind
      <4> QED BY <1>0, <3>0, <3>4, <3>5, <4>1, SameWordsMore
    <3> HIDE DEF h, b, w
    <3>7. /\ (h.confused <=> heard.confused) /\ h.said = w /\ h.end = heard.end
          /\ (h.closed <=> heard.closed) /\ h.usage = heard.usage /\ h.why = heard.why
          /\ (h.on <=> heard.on) /\ h.blocks = heard.blocks /\ h.open = heard.open
          /\ h.final = heard.final
      BY <1>0, <3>2 DEF Client
    <3> QED BY <2>0, <2>2, <3>5, <3>6, <3>7 DEF Reads, Ended
  <2>3. CASE f.e = "chunk" /\ f.kind = "tool" /\ t.pc = "open" /\ f.id # 0 /\ f.i = Len(t.c.tools)
    <3> DEFINE w == [heard.said EXCEPT !.tools = Append(@, [id |-> f.id, text |-> <<>>])]
    <3>1. Allows(f)
      BY <1>6, <2>0, <2>3, <2>10, <2>11 DEF Allows, ChatAllows, Reads, SameWords
    <3>2. h = [heard EXCEPT !.said = w]
      BY <1>7, <2>0, <2>3, <3>1 DEF ReadFrame, ReadChunk, IsError
    <3>3. b = NextBlock(t, "tool", f.id) /\ "tool" \in BlockKind
      BY <2>3 DEF Tell, IsError, TellChunk, BlockKind
    <3>4. /\ b.c = Begun(t.c, "tool", f.id) /\ b.pc = t.pc /\ b.why = t.why
          /\ b.usage = t.usage
      BY <1>0, <2>3, <3>3, TaleParts, NextBlockIs
    <3>5. SameWords(w, b.c)
      BY <1>0, <1>6, <2>0, <3>3, <3>4, SameWordsBegun DEF Reads
    <3> HIDE DEF h, b, w
    <3>6. /\ (h.confused <=> heard.confused) /\ h.said = w /\ h.end = heard.end
          /\ (h.closed <=> heard.closed) /\ h.usage = heard.usage /\ h.why = heard.why
          /\ (h.on <=> heard.on) /\ h.blocks = heard.blocks /\ h.open = heard.open
          /\ h.final = heard.final
      BY <1>0, <3>2 DEF Client
    <3> QED BY <2>0, <2>3, <3>4, <3>5, <3>6 DEF Reads, Ended
  <2>4. CASE /\ f.e = "chunk" /\ f.kind = "tool" /\ t.pc = "open" /\ f.id = 0
             /\ t.kind = "tool" /\ f.i + 1 = Len(t.c.tools)
    <3> DEFINE w == More(heard.said, "tool", f.i + 1, f.frag)
    <3>0. "tool" \in BlockKind /\ t.c.items # <<>> /\ t.c.tools # <<>> /\ f.i + 1 \in Nat
      BY <1>0, <2>4, TaleParts DEF BlockKind
    <3>1. Allows(f)
      BY <1>0, <1>6, <2>0, <2>4, <2>10, <2>11 DEF Allows, ChatAllows, Reads, SameWords
    <3>2. h = [heard EXCEPT !.said = w]
      BY <1>7, <2>0, <2>4, <3>1 DEF ReadFrame, ReadChunk, IsError
    <3>3. b = NextPiece(t, "tool", f.frag)
      BY <2>4 DEF Tell, IsError, TellChunk
    <3>4. /\ b.c = MoreOfLast(t.c, "tool", f.frag) /\ b.pc = t.pc /\ b.why = t.why
          /\ b.usage = t.usage
      BY <1>0, <2>4, <3>0, <3>3, NextPieceIs
    <3>5. SameWords(w, b.c)
      BY <1>0, <1>6, <2>0, <2>4, <3>0, <3>4, SameWordsMore DEF Reads
    <3> HIDE DEF h, b, w
    <3>6. /\ (h.confused <=> heard.confused) /\ h.said = w /\ h.end = heard.end
          /\ (h.closed <=> heard.closed) /\ h.usage = heard.usage /\ h.why = heard.why
          /\ (h.on <=> heard.on) /\ h.blocks = heard.blocks /\ h.open = heard.open
          /\ h.final = heard.final
      BY <1>0, <3>2 DEF Client
    <3> QED BY <2>0, <2>4, <3>4, <3>5, <3>6 DEF Reads, Ended
  <2>5. CASE f.e = "chunk" /\ f.kind = "finish" /\ t.pc = "open"
    <3>1. Allows(f)
      BY <1>6, <2>0, <2>5, <2>10, <2>11 DEF Allows, ChatAllows, Reads, SameWords
    <3>2. h = [heard EXCEPT !.why = f.why]
      BY <1>7, <2>0, <2>5, <3>1 DEF ReadFrame, ReadChunk, IsError
    <3>3. b = [t EXCEPT !.pc = "told", !.why = f.why]
      BY <2>5 DEF Tell, IsError, TellChunk
    <3> HIDE DEF h, b
    <3>4. /\ (h.confused <=> heard.confused) /\ h.said = heard.said /\ h.end = heard.end
          /\ (h.closed <=> heard.closed) /\ h.usage = heard.usage /\ h.why = f.why
          /\ (h.on <=> heard.on) /\ h.blocks = heard.blocks /\ h.open = heard.open
          /\ h.final = heard.final
      BY <1>0, <3>2 DEF Client
    <3>5. /\ b.c = t.c /\ b.pc = "told" /\ b.n = t.n /\ b.kind = t.kind /\ b.usage = t.usage
          /\ b.why = f.why
      BY <1>6, <3>3 DEF TaleRecord
    <3> QED BY <2>0, <2>5, <3>4, <3>5 DEF Reads, Ended, SameWords
  <2>6. CASE f.e = "chunk" /\ f.kind = "usage" /\ t.pc \in {"open", "told"}
    <3>1. Allows(f)
      BY <1>6, <2>0, <2>6, <2>10, <2>11 DEF Allows, ChatAllows, Reads, SameWords
    <3>2. h = [heard EXCEPT !.usage = f.usage]
      BY <1>7, <2>0, <2>6, <3>1 DEF ReadFrame, ReadChunk, IsError
    <3>3. b = [t EXCEPT !.usage = f.usage]
      BY <2>6 DEF Tell, IsError, TellChunk
    <3> HIDE DEF h, b
    <3>4. /\ (h.confused <=> heard.confused) /\ h.said = heard.said /\ h.end = heard.end
          /\ (h.closed <=> heard.closed) /\ h.usage = f.usage /\ h.why = heard.why
          /\ (h.on <=> heard.on) /\ h.blocks = heard.blocks /\ h.open = heard.open
          /\ h.final = heard.final
      BY <1>0, <3>2 DEF Client
    <3>5. /\ b.c = t.c /\ b.pc = t.pc /\ b.n = t.n /\ b.kind = t.kind /\ b.usage = f.usage
          /\ b.why = t.why
      BY <1>6, <3>3 DEF TaleRecord
    <3> QED BY <2>0, <2>6, <3>4, <3>5 DEF Reads, Ended, SameWords
  <2>7. CASE f.e = "Done" /\ t.pc \in {"open", "told"}
    <3>1. f = Done
      BY <2>7 DEF Frame, Msg, Proper
    <3>2. Allows(f)
      BY <3>1 DEF Allows, Done, Bare
    <3>3. h = [heard EXCEPT !.closed = TRUE, !.end = "over"]
      BY <1>0, <1>7, <2>0, <2>7, <2>10, <3>2 DEF ReadFrame, IsError, Client
    <3>4. b = [t EXCEPT !.pc = "closed"]
      BY <2>7 DEF Tell, IsError
    <3> HIDE DEF h, b
    <3>5. /\ (h.confused <=> heard.confused) /\ h.said = heard.said /\ h.end = "over"
          /\ h.closed = TRUE /\ h.usage = heard.usage /\ h.why = heard.why /\ (h.on <=> heard.on)
          /\ h.blocks = heard.blocks /\ h.open = heard.open /\ h.final = heard.final
      BY <1>0, <3>3 DEF Client
    <3>6. /\ b.c = t.c /\ b.pc = "closed" /\ b.n = t.n /\ b.kind = t.kind /\ b.usage = t.usage
          /\ b.why = t.why
      BY <1>6, <3>4 DEF TaleRecord
    <3> QED BY <2>0, <2>7, <3>5, <3>6 DEF Reads, Ended, SameWords
  <2> QED BY <1>4, <2>1, <2>2, <2>3, <2>4, <2>5, <2>6, <2>7 DEF ChatMay
<1>5. CASE t.pc # "error" /\ d = "responses" /\ ResponsesMay(t, f)
  <2>0. t.pc # "error" /\ route.client = "responses" /\ Reads("responses", heard, t)
    BY <1>5
  <2>1. CASE f.e = "response.created" /\ t.pc = "start" /\ f.usage = NoUsage
    <3>1. Allows(f)
      BY <1>0, <1>6, <2>0, <2>1
      DEF Allows, Under, MayGoOn, Named, Reads, Ended, NoBlock, BlockKind, IdFits, IsError
    <3>2. h = [heard EXCEPT !.on = TRUE, !.usage = f.usage]
      BY <1>7, <2>0, <2>1, <3>1 DEF ReadFrame, IsError, Reads
    <3>3. b = [t EXCEPT !.pc = "open", !.usage = f.usage]
      BY <2>1 DEF Tell, IsError
    <3> HIDE DEF h, b
    <3>4. /\ (h.confused <=> heard.confused) /\ h.said = heard.said /\ h.end = heard.end
          /\ (h.closed <=> heard.closed) /\ h.usage = f.usage /\ h.why = heard.why /\ h.on = TRUE
          /\ h.blocks = heard.blocks /\ h.open = heard.open /\ h.final = heard.final
      BY <1>0, <3>2 DEF Client
    <3>5. /\ b.c = t.c /\ b.pc = "open" /\ b.n = t.n /\ b.kind = t.kind /\ b.usage = f.usage
          /\ b.why = t.why
      BY <1>6, <3>3 DEF TaleRecord
    <3> QED BY <1>6, <2>0, <2>1, <3>4, <3>5 DEF Reads, Ended, SameWords
  <2>2. CASE f.e = "response.in_progress" /\ t.pc = "open"
    <3>1. Allows(f)
      BY <1>0, <1>6, <2>0, <2>2
      DEF Allows, Under, MayGoOn, Named, Reads, Ended, NoBlock, BlockKind, IdFits, IsError
    <3>2. h = heard
      BY <1>7, <2>0, <2>2, <3>1 DEF ReadFrame, IsError, Reads
    <3>3. b = t
      BY <2>2 DEF Tell, IsError
    <3> HIDE DEF h, b
    <3>4. /\ (h.confused <=> heard.confused) /\ h.said = heard.said /\ h.end = heard.end
          /\ (h.closed <=> heard.closed) /\ h.usage = heard.usage /\ h.why = heard.why
          /\ (h.on <=> heard.on) /\ h.blocks = heard.blocks /\ h.open = heard.open
          /\ h.final = heard.final
      BY <1>0, <3>2 DEF Client
    <3>5. /\ b.c = t.c /\ b.pc = t.pc /\ b.n = t.n /\ b.kind = t.kind /\ b.usage = t.usage
          /\ b.why = t.why
      BY <1>6, <3>3 DEF TaleRecord
    <3> QED BY <1>6, <2>0, <2>2, <3>4, <3>5 DEF Reads, Ended, SameWords
  <2>3. CASE f.e = "response.output_item.added" /\ t.pc = "open" /\ f.i = t.n /\ IdFits(f)
    <3>1. Allows(f)
      BY <1>0, <1>6, <2>0, <2>3 DEF Allows, Under, Reads, Ended, NoBlock
    <3>2. h = [heard EXCEPT !.open = [kind |-> f.kind, i |-> f.i], !.blocks = heard.blocks + 1,
                            !.said = Begun(heard.said, f.kind, f.id)]
      BY <1>7, <2>0, <2>3, <3>1 DEF ReadFrame, IsError
    <3>3. b = [NextBlock(t, f.kind, f.id) EXCEPT !.pc = "block"]
      BY <2>3 DEF Tell, IsError
    <3> DEFINE g == NextBlock(t, f.kind, f.id)
    <3>4. /\ g \in TaleRecord /\ g.c = Begun(t.c, f.kind, f.id) /\ g.kind = f.kind /\ g.n = t.n + 1
          /\ g.why = t.why /\ g.usage = t.usage
      BY <1>0, <2>3, TaleParts, NextBlockIs, TaleIsRecord DEF IdFits
    <3> HIDE DEF h, b, g
    <3>5. /\ b.c = Begun(t.c, f.kind, f.id) /\ b.kind = f.kind /\ b.n = t.n + 1 /\ b.pc = "block"
          /\ b.why = t.why /\ b.usage = t.usage
      BY <3>3, <3>4 DEF TaleRecord, g
    <3>6. /\ (h.confused <=> heard.confused) /\ h.said = Begun(heard.said, f.kind, f.id)
          /\ h.end = heard.end /\ (h.closed <=> heard.closed) /\ h.usage = heard.usage
          /\ h.why = heard.why /\ (h.on <=> heard.on) /\ h.blocks = heard.blocks + 1
          /\ h.open = [kind |-> f.kind, i |-> f.i]
      BY <1>0, <3>2 DEF Client
    <3>7. (t.n + 1) - 1 = f.i
      BY <1>6, <2>3
    <3> QED BY <2>0, <2>3, <3>5, <3>6, <3>7 DEF Reads, Ended, SameWords
  <2>4. CASE f.e = "response.delta" /\ t.pc = "block" /\ f.i + 1 = t.n /\ f.kind = t.kind
    <3>0. f.kind \in BlockKind /\ f.kind # "signature" /\ t.n - 1 = f.i
      BY <1>0, <1>6, <2>4 DEF BlockKind
    <3>1. Allows(f)
      BY <1>0, <1>6, <2>0, <2>4, <3>0 DEF Allows, Under, MayGoOn, Named, Reads, Ended
    <3>2. h = [heard EXCEPT !.said = MoreOfLast(heard.said, f.kind, f.frag)]
      BY <1>7, <2>0, <2>4, <3>0, <3>1 DEF ReadFrame, IsError
    <3>3. b = NextPiece(t, f.kind, f.frag)
      BY <2>4, <3>0 DEF Tell, IsError
    <3>4. /\ b.c = MoreOfLast(t.c, f.kind, f.frag) /\ b.kind = t.kind /\ b.n = t.n /\ b.pc = t.pc
          /\ b.why = t.why /\ b.usage = t.usage
      BY <1>0, <2>4, <3>0, <3>3, NextPieceIs
    <3> HIDE DEF h, b
    <3>5. /\ (h.confused <=> heard.confused)
          /\ h.said = MoreOfLast(heard.said, f.kind, f.frag) /\ h.end = heard.end
          /\ (h.closed <=> heard.closed) /\ h.usage = heard.usage /\ h.why = heard.why
          /\ (h.on <=> heard.on) /\ h.blocks = heard.blocks /\ h.open = heard.open
          /\ h.final = heard.final
      BY <1>0, <3>2 DEF Client
    <3> QED BY <2>0, <2>4, <3>4, <3>5 DEF Reads, Ended, SameWords
  <2>5. CASE f.e = "response.done" /\ t.pc = "block" /\ f.i + 1 = t.n
    <3>1. Allows(f)
      BY <1>0, <1>6, <2>0, <2>5
      DEF Allows, Under, MayGoOn, Named, Reads, Ended, NoBlock, BlockKind, IdFits, IsError
    <3>2. h = heard
      BY <1>7, <2>0, <2>5, <3>1 DEF ReadFrame, IsError, Reads
    <3>3. b = [t EXCEPT !.pc = "parted"]
      BY <2>5 DEF Tell, IsError
    <3> HIDE DEF h, b
    <3>4. /\ (h.confused <=> heard.confused) /\ h.said = heard.said /\ h.end = heard.end
          /\ (h.closed <=> heard.closed) /\ h.usage = heard.usage /\ h.why = heard.why
          /\ (h.on <=> heard.on) /\ h.blocks = heard.blocks /\ h.open = heard.open
          /\ h.final = heard.final
      BY <1>0, <3>2 DEF Client
    <3>5. /\ b.c = t.c /\ b.pc = "parted" /\ b.n = t.n /\ b.kind = t.kind /\ b.usage = t.usage
          /\ b.why = t.why
      BY <1>6, <3>3 DEF TaleRecord
    <3> QED BY <1>6, <2>0, <2>5, <3>4, <3>5 DEF Reads, Ended, SameWords
  <2>6. CASE f.e = "response.output_item.done" /\ t.pc \in {"block", "parted"} /\ f.i + 1 = t.n
    <3>1. Allows(f)
      BY <1>0, <1>6, <2>0, <2>6
      DEF Allows, Under, MayGoOn, Named, Reads, Ended, NoBlock, BlockKind, IdFits, IsError
    <3>2. h = [heard EXCEPT !.open = NoBlock]
      BY <1>7, <2>0, <2>6, <3>1 DEF ReadFrame, IsError, Reads
    <3>3. b = [t EXCEPT !.pc = "open", !.marked = FALSE, !.signed = Signed(t, f.signed)]
      BY <2>6 DEF Tell, IsError
    <3> HIDE DEF h, b
    <3>4. /\ (h.confused <=> heard.confused) /\ h.said = heard.said /\ h.end = heard.end
          /\ (h.closed <=> heard.closed) /\ h.usage = heard.usage /\ h.why = heard.why
          /\ (h.on <=> heard.on) /\ h.blocks = heard.blocks /\ h.open = NoBlock
          /\ h.final = heard.final
      BY <1>0, <3>2 DEF Client
    <3>5. /\ b.c = t.c /\ b.pc = "open" /\ b.n = t.n /\ b.kind = t.kind /\ b.usage = t.usage
          /\ b.why = t.why
      BY <1>6, <3>3 DEF TaleRecord
    <3> QED BY <1>6, <2>0, <2>6, <3>4, <3>5 DEF Reads, Ended, SameWords
  <2>7. CASE f.e = "response.completed" /\ t.pc = "open" /\ f.items = t.c.items
    <3>1. Allows(f)
      BY <1>0, <1>6, <2>0, <2>7
      DEF Allows, Under, MayGoOn, Named, Reads, Ended, NoBlock, BlockKind, IdFits, IsError
    <3>2. h = [heard EXCEPT !.end = "over", !.usage = f.usage, !.final = f.items]
      BY <1>7, <2>0, <2>7, <3>1 DEF ReadFrame, IsError, Reads
    <3>3. b = [t EXCEPT !.pc = "over", !.usage = f.usage]
      BY <2>7 DEF Tell, IsError
    <3> HIDE DEF h, b
    <3>4. /\ (h.confused <=> heard.confused) /\ h.said = heard.said /\ h.end = "over"
          /\ (h.closed <=> heard.closed) /\ h.usage = f.usage /\ h.why = heard.why
          /\ (h.on <=> heard.on) /\ h.blocks = heard.blocks /\ h.open = heard.open
          /\ h.final = f.items
      BY <1>0, <3>2 DEF Client
    <3>5. /\ b.c = t.c /\ b.pc = "over" /\ b.n = t.n /\ b.kind = t.kind /\ b.usage = f.usage
          /\ b.why = t.why
      BY <1>6, <3>3 DEF TaleRecord
    <3> QED BY <1>6, <2>0, <2>7, <3>4, <3>5 DEF Reads, Ended, SameWords
  <2>8. CASE f.e = "Done" /\ t.pc = "over"
    <3>1. f = Done
      BY <2>8 DEF Frame, Msg, Proper
    <3>2. Allows(f)
      BY <3>1 DEF Allows, Done, Bare
    <3>3. h = [heard EXCEPT !.closed = TRUE]
      BY <1>0, <1>7, <2>0, <2>8, <3>2 DEF ReadFrame, IsError, Reads, Ended, Client
    <3>4. b = [t EXCEPT !.pc = "closed"]
      BY <2>8 DEF Tell, IsError
    <3> HIDE DEF h, b
    <3>5. /\ (h.confused <=> heard.confused) /\ h.said = heard.said /\ h.end = heard.end
          /\ h.closed = TRUE /\ h.usage = heard.usage /\ h.why = heard.why /\ (h.on <=> heard.on)
          /\ h.blocks = heard.blocks /\ h.open = heard.open /\ h.final = heard.final
      BY <1>0, <3>3 DEF Client
    <3>6. /\ b.c = t.c /\ b.pc = "closed" /\ b.n = t.n /\ b.kind = t.kind /\ b.usage = t.usage
          /\ b.why = t.why
      BY <1>6, <3>4 DEF TaleRecord
    <3> QED BY <2>0, <2>8, <3>5, <3>6 DEF Reads, Ended, SameWords
  <2> QED BY <1>5, <2>1, <2>2, <2>3, <2>4, <2>5, <2>6, <2>7, <2>8 DEF ResponsesMay
<1> QED BY <1>1, <1>2, <1>3, <1>4, <1>5 DEF May

LEMMA TellsOne ==
  ASSUME NEW u, NEW d \in Dialect, NEW t \in Tale, NEW f \in Frame, May(u, d, t, f)
  PROVE  Tell(t, f) \in Tale /\ Goes(u, d, t, f, Tell(t, f))
BY TellTyped

-----------------------------------------------------------------------------
(* What each event tells *)

ToolsOf(t) == Len(t.c.tools)

\* Whose answer it is: an upstream's of one dialect, or the gateway's.
Teller == Dialect \cup {"gateway"}
LEMMA TellersAre ==
  /\ "chat" \in Teller /\ "messages" \in Teller /\ "responses" \in Teller
  /\ "gateway" \in Teller
BY DEF Teller, Dialect

LEMMA StartIs ==
  ASSUME NEW u \in Teller, NEW t \in Tale, NEW usage \in Usage, t.pc = "start"
  PROVE  /\ MessageStart(usage) \in Msg
         /\ \E v \in Tale :
              /\ Goes(u, "messages", t, MessageStart(usage), v)
              /\ v.pc = "open" /\ v.kind = t.kind /\ v.n = t.n /\ v.c = t.c /\ v.why = t.why
              /\ v.usage = usage /\ v.marked = t.marked /\ v.signed = t.signed
<1>1. PICK f : f = MessageStart(usage)
  OBVIOUS
<1>2. /\ f.e = "message_start" /\ f.usage = usage
  BY <1>1 DEF MessageStart, Bare
<1>3. f \in Msg /\ f \in Frame
  BY <1>1, NoUsageIsUsage, MsgIsEvent, Messages DEF Reason, BlockKind
<1>4. May(u, "messages", t, f)
  BY <1>2 DEF May, MessagesMay
<1>5. PICK v \in Tale : v = Tell(t, f) /\ Goes(u, "messages", t, f, v)
  BY <1>3, <1>4, TellsOne DEF Dialect
<1>6. v = [t EXCEPT !.pc = "open", !.usage = usage]
  BY <1>1, <1>5 DEF Tell, TellChunk, IsError, MessageStart, Bare
<1>7. /\ v.pc = "open" /\ v.kind = t.kind /\ v.n = t.n /\ v.c = t.c /\ v.why = t.why
      /\ v.usage = usage /\ v.marked = t.marked /\ v.signed = t.signed
  BY <1>6, TaleIsRecord DEF TaleRecord
<1> QED BY <1>1, <1>3, <1>5, <1>7

LEMMA BlockStartIs ==
  ASSUME NEW u \in Teller, NEW t \in Tale, NEW i, NEW kind \in BlockKind, NEW id \in Nat,
         t.pc = "open", i = t.n, kind = "tool" => id # 0
  PROVE  /\ BlockStart(i, kind, id) \in Msg
         /\ \E v \in Tale :
              /\ Goes(u, "messages", t, BlockStart(i, kind, id), v)
              /\ v.pc = "block" /\ v.kind = kind /\ v.n = t.n + 1 /\ v.c = Begun(t.c, kind, id)
              /\ v.why = t.why /\ v.usage = t.usage /\ v.marked = t.marked
              /\ v.signed = t.signed
<1>1. PICK f : f = BlockStart(i, kind, id)
  OBVIOUS
<1>2. /\ f.e = "content_block_start" /\ f.i = i /\ f.kind = kind /\ f.id = id
  BY <1>1 DEF BlockStart, Bare
<1>3. f \in Msg /\ f \in Frame
  BY <1>1, NoUsageIsUsage, MsgIsEvent, TaleParts, Messages DEF Reason
<1>4. May(u, "messages", t, f)
  BY <1>2 DEF May, MessagesMay, IdFits
<1>5. PICK v \in Tale : v = Tell(t, f) /\ Goes(u, "messages", t, f, v)
  BY <1>3, <1>4, TellsOne DEF Dialect
<1>6. ~t.marked /\ "tool" \in BlockKind
  BY TaleParts DEF BlockKind
<1>7. PICK b \in Tale :
        /\ b = NextBlock(t, kind, id)
        /\ b.c = Begun(t.c, kind, id) /\ b.kind = kind /\ b.n = t.n + 1 /\ b.why = t.why
        /\ b.usage = t.usage /\ b.marked = t.marked /\ b.signed = t.signed /\ b.pc = t.pc
  BY <1>6, NextBlockIs
<1>8. v = [b EXCEPT !.pc = "block"]
  BY <1>1, <1>5, <1>7 DEF Tell, IsError, BlockStart, Bare
<1>9. /\ v.pc = "block" /\ v.kind = kind /\ v.n = t.n + 1 /\ v.c = Begun(t.c, kind, id)
      /\ v.why = t.why /\ v.usage = t.usage /\ v.marked = t.marked /\ v.signed = t.signed
  BY <1>6, <1>7, <1>8, TaleIsRecord DEF TaleRecord
<1> QED BY <1>1, <1>3, <1>5, <1>9

LEMMA BlockDeltaIs ==
  ASSUME NEW u \in Teller, NEW t \in Tale, NEW i \in Nat, NEW kind \in BlockKind,
         NEW frag \in Nat, t.pc = "block", i + 1 = t.n, kind = t.kind, frag # 0
  PROVE  /\ BlockDelta(i, kind, frag) \in Msg
         /\ \E v \in Tale :
              /\ Goes(u, "messages", t, BlockDelta(i, kind, frag), v)
              /\ v.pc = t.pc /\ v.kind = t.kind /\ v.n = t.n
              /\ v.c = MoreOfLast(t.c, kind, frag) /\ v.why = t.why /\ v.usage = t.usage
              /\ v.marked = t.marked /\ v.signed = t.signed
<1>1. PICK f : f = BlockDelta(i, kind, frag)
  OBVIOUS
<1>2. /\ f.e = "content_block_delta" /\ f.i = i /\ f.kind = kind /\ f.frag = frag
  BY <1>1 DEF BlockDelta, Bare
<1>3. f \in Msg /\ f \in Frame
  BY <1>1, NoUsageIsUsage, MsgIsEvent, Messages DEF Reason
<1>4. May(u, "messages", t, f)
  BY <1>2 DEF May, MessagesMay
<1>5. PICK v \in Tale : v = Tell(t, f) /\ Goes(u, "messages", t, f, v)
  BY <1>3, <1>4, TellsOne DEF Dialect
<1>6. PICK b \in Tale : b = NextPiece(t, kind, frag)
  BY NextPieceIs DEF BlockKind
<1>7. /\ b.c = MoreOfLast(t.c, kind, frag) /\ b.kind = kind /\ b.n = t.n /\ b.why = t.why
      /\ b.usage = t.usage /\ b.marked = t.marked /\ b.signed = t.signed /\ b.pc = t.pc
  BY <1>6, NextPieceIs DEF BlockKind
<1>8. v = b
  BY <1>1, <1>5, <1>6 DEF Tell, TellChunk, IsError, BlockDelta, Bare, BlockKind
<1>9. /\ v.pc = t.pc /\ v.kind = t.kind /\ v.n = t.n /\ v.c = MoreOfLast(t.c, kind, frag)
      /\ v.why = t.why /\ v.usage = t.usage /\ v.marked = t.marked /\ v.signed = t.signed
  BY <1>6, <1>7, <1>8
<1> QED BY <1>1, <1>3, <1>5, <1>9

LEMMA SignatureIs ==
  ASSUME NEW u \in Teller, NEW t \in Tale, NEW i \in Nat, t.pc = "block", i + 1 = t.n,
         t.kind = "thinking"
  PROVE  /\ BlockDelta(i, "signature", 0) \in Msg
         /\ \E v \in Tale :
              /\ Goes(u, "messages", t, BlockDelta(i, "signature", 0), v)
              /\ v.pc = t.pc /\ v.kind = t.kind /\ v.n = t.n /\ v.c = t.c /\ v.why = t.why
              /\ v.usage = t.usage /\ v.marked /\ v.signed = t.signed
<1>1. PICK f : f = BlockDelta(i, "signature", 0)
  OBVIOUS
<1>2. /\ f.e = "content_block_delta" /\ f.i = i /\ f.kind = "signature"
  BY <1>1 DEF BlockDelta, Bare
<1>3. f \in Msg /\ f \in Frame
  BY <1>1, NoUsageIsUsage, MsgIsEvent, Messages DEF Reason, BlockKind
<1>4. May(u, "messages", t, f)
  BY <1>2 DEF May, MessagesMay
<1>5. PICK v \in Tale : v = Tell(t, f) /\ Goes(u, "messages", t, f, v)
  BY <1>3, <1>4, TellsOne DEF Dialect
<1>6. v = [t EXCEPT !.marked = TRUE]
  BY <1>1, <1>5 DEF Tell, TellChunk, IsError, BlockDelta, Bare
<1>7. /\ v.pc = t.pc /\ v.kind = t.kind /\ v.n = t.n /\ v.c = t.c /\ v.why = t.why
      /\ v.usage = t.usage /\ v.marked /\ v.signed = t.signed
  BY <1>6, TaleIsRecord DEF TaleRecord
<1> QED BY <1>1, <1>3, <1>5, <1>7

LEMMA BlockStopIs ==
  ASSUME NEW u \in Teller, NEW t \in Tale, NEW i \in Nat, t.pc = "block", i + 1 = t.n
  PROVE  /\ BlockStop(i) \in Msg
         /\ \E v \in Tale :
              /\ Goes(u, "messages", t, BlockStop(i), v)
              /\ v.pc = "open" /\ v.kind = t.kind /\ v.n = t.n /\ v.c = t.c /\ v.why = t.why
              /\ v.usage = t.usage /\ ~v.marked /\ v.signed = Signed(t, t.marked)
<1>1. PICK f : f = BlockStop(i)
  OBVIOUS
<1>2. /\ f.e = "content_block_stop" /\ f.i = i
  BY <1>1 DEF BlockStop, Bare
<1>3. f \in Msg /\ f \in Frame
  BY <1>1, NoUsageIsUsage, MsgIsEvent, Messages DEF Reason, BlockKind
<1>4. May(u, "messages", t, f)
  BY <1>2 DEF May, MessagesMay
<1>5. PICK v \in Tale : v = Tell(t, f) /\ Goes(u, "messages", t, f, v)
  BY <1>3, <1>4, TellsOne DEF Dialect
<1>6. v = [t EXCEPT !.pc = "open", !.marked = FALSE, !.signed = Signed(t, t.marked)]
  BY <1>1, <1>5 DEF Tell, TellChunk, IsError, BlockStop, Bare
<1>7. /\ v.pc = "open" /\ v.kind = t.kind /\ v.n = t.n /\ v.c = t.c /\ v.why = t.why
      /\ v.usage = t.usage /\ ~v.marked /\ v.signed = Signed(t, t.marked)
  BY <1>6, TaleIsRecord DEF TaleRecord
<1> QED BY <1>1, <1>3, <1>5, <1>7

LEMMA MessageDeltaIs ==
  ASSUME NEW u \in Teller, NEW t \in Tale,
         NEW why \in {"end_turn", "tool_use", "max_tokens", "refusal"}, NEW usage \in Usage,
         t.pc = "open", u \in {"chat", "responses"} => usage # NoUsage
  PROVE  /\ MessageDelta(why, usage) \in Msg
         /\ \E v \in Tale :
              /\ Goes(u, "messages", t, MessageDelta(why, usage), v)
              /\ v.pc = "told" /\ v.kind = t.kind /\ v.n = t.n /\ v.c = t.c /\ v.why = why
              /\ v.usage = MergeUsage(t.usage, usage) /\ v.marked = t.marked
              /\ v.signed = t.signed
<1>1. PICK f : f = MessageDelta(why, usage)
  OBVIOUS
<1>2. /\ f.e = "message_delta" /\ f.why = why /\ f.usage = usage
  BY <1>1 DEF MessageDelta, Bare
<1>3. f \in Msg /\ f \in Frame
  BY <1>1, NoUsageIsUsage, MsgIsEvent, Messages DEF Reason, BlockKind
<1>4. May(u, "messages", t, f)
  BY <1>2 DEF May, MessagesMay
<1>5. PICK v \in Tale : v = Tell(t, f) /\ Goes(u, "messages", t, f, v)
  BY <1>3, <1>4, TellsOne DEF Dialect
<1>6. v = [t EXCEPT !.pc = "told", !.why = why, !.usage = MergeUsage(t.usage, usage)]
  BY <1>1, <1>5 DEF Tell, TellChunk, IsError, MessageDelta, Bare
<1>7. /\ v.pc = "told" /\ v.kind = t.kind /\ v.n = t.n /\ v.c = t.c /\ v.why = why
      /\ v.usage = MergeUsage(t.usage, usage) /\ v.marked = t.marked /\ v.signed = t.signed
  BY <1>6, TaleIsRecord DEF TaleRecord
<1> QED BY <1>1, <1>3, <1>5, <1>7

LEMMA MessageStopIs ==
  ASSUME NEW u \in Teller, NEW t \in Tale, t.pc = "told"
  PROVE  /\ MessageStop \in Msg
         /\ \E v \in Tale :
              /\ Goes(u, "messages", t, MessageStop, v)
              /\ v.pc = "over" /\ v.kind = t.kind /\ v.n = t.n /\ v.c = t.c /\ v.why = t.why
              /\ v.usage = t.usage /\ v.marked = t.marked /\ v.signed = t.signed
<1>1. PICK f : f = MessageStop
  OBVIOUS
<1>2. /\ f.e = "message_stop"
  BY <1>1 DEF MessageStop, Bare
<1>3. f \in Msg /\ f \in Frame
  BY <1>1, NoUsageIsUsage, MsgIsEvent, BareIsMsg DEF MessageStop, EventName
<1>4. May(u, "messages", t, f)
  BY <1>2 DEF May, MessagesMay
<1>5. PICK v \in Tale : v = Tell(t, f) /\ Goes(u, "messages", t, f, v)
  BY <1>3, <1>4, TellsOne DEF Dialect
<1>6. v = [t EXCEPT !.pc = "over"]
  BY <1>1, <1>5 DEF Tell, TellChunk, IsError, MessageStop, Bare
<1>7. /\ v.pc = "over" /\ v.kind = t.kind /\ v.n = t.n /\ v.c = t.c /\ v.why = t.why
      /\ v.usage = t.usage /\ v.marked = t.marked /\ v.signed = t.signed
  BY <1>6, TaleIsRecord DEF TaleRecord
<1> QED BY <1>1, <1>3, <1>5, <1>7

LEMMA RoleIs ==
  ASSUME NEW u \in Teller, NEW t \in Tale, t.pc = "start"
  PROVE  /\ Chunk("role") \in Msg
         /\ \E v \in Tale :
              /\ Goes(u, "chat", t, Chunk("role"), v)
              /\ v.pc = "open" /\ v.kind = t.kind /\ v.n = t.n /\ v.c = t.c /\ v.why = t.why
              /\ v.usage = t.usage /\ v.marked = t.marked /\ v.signed = t.signed
<1>1. PICK f : f = Chunk("role")
  OBVIOUS
<1>2. /\ f.e = "chunk" /\ f.usage = NoUsage /\ f.kind = "role"
  BY <1>1 DEF Chunk, Bare
<1>3. f \in Msg /\ f \in Frame
  BY <1>1, NoUsageIsUsage, MsgIsEvent, ChunkIsMsg DEF EventKind
<1>4. May(u, "chat", t, f)
  BY <1>2 DEF May, ChatMay
<1>5. PICK v \in Tale : v = Tell(t, f) /\ Goes(u, "chat", t, f, v)
  BY <1>3, <1>4, TellsOne DEF Dialect
<1>6. v = [t EXCEPT !.pc = "open"]
  BY <1>1, <1>5 DEF Tell, TellChunk, IsError, Chunk, Bare
<1>7. /\ v.pc = "open" /\ v.kind = t.kind /\ v.n = t.n /\ v.c = t.c /\ v.why = t.why
      /\ v.usage = t.usage /\ v.marked = t.marked /\ v.signed = t.signed
  BY <1>6, TaleIsRecord DEF TaleRecord
<1> QED BY <1>1, <1>3, <1>5, <1>7

LEMMA TextMoreIs ==
  ASSUME NEW u \in Teller, NEW t \in Tale, NEW kind \in {"text", "thinking"},
         NEW frag \in Nat, t.pc = "open", frag # 0, t.kind = kind
  PROVE  /\ TextChunk(kind, frag) \in Msg
         /\ \E v \in Tale :
              /\ Goes(u, "chat", t, TextChunk(kind, frag), v)
              /\ v.pc = t.pc /\ v.kind = kind /\ v.n = t.n /\ v.c = MoreOfLast(t.c, kind, frag)
              /\ v.why = t.why /\ v.usage = t.usage /\ v.marked = t.marked
              /\ v.signed = t.signed
<1>1. PICK f : f = TextChunk(kind, frag)
  OBVIOUS
<1>2. /\ f.e = "chunk" /\ f.usage = NoUsage /\ f.i = 0 /\ f.id = 0 /\ f.kind = kind
      /\ f.frag = frag
  BY <1>1 DEF TextChunk, Chunk, Bare
<1>3. f \in Msg /\ f \in Frame
  BY <1>1, NoUsageIsUsage, MsgIsEvent, Chunks DEF Reason, EventKind, BlockKind
<1>4. May(u, "chat", t, f)
  BY <1>2 DEF May, ChatMay
<1>5. PICK v \in Tale : v = Tell(t, f) /\ Goes(u, "chat", t, f, v)
  BY <1>3, <1>4, TellsOne DEF Dialect
<1>6. PICK a \in Tale :
        /\ a = IF t.kind = kind THEN t ELSE NextBlock(t, kind, 0)
        /\ a.c = (IF t.kind = kind THEN t.c ELSE Begun(t.c, kind, 0)) /\ a.kind = kind
        /\ a.n = (IF t.kind = kind THEN t.n ELSE t.n + 1) /\ a.why = t.why /\ a.pc = t.pc
        /\ a.usage = t.usage /\ a.marked = t.marked /\ a.signed = t.signed
  <2>1. ~t.marked /\ kind \in BlockKind /\ 0 \in Nat
    BY TaleParts DEF BlockKind
  <2> QED BY <2>1, NextBlockIs
<1>6a. PICK b \in Tale : b = NextPiece(a, kind, frag)
  BY <1>6, NextPieceIs DEF BlockKind
<1>7. /\ b.c = MoreOfLast(a.c, kind, frag) /\ b.kind = kind /\ b.n = a.n /\ b.why = a.why
      /\ b.usage = a.usage /\ b.marked = a.marked /\ b.signed = a.signed /\ b.pc = a.pc
  BY <1>6, <1>6a, NextPieceIs DEF BlockKind
<1>8. v = b
  BY <1>1, <1>5, <1>6, <1>6a DEF Tell, TellChunk, IsError, TextChunk, Chunk, Bare
<1>9. /\ v.pc = t.pc /\ v.kind = kind /\ v.n = t.n /\ v.c = MoreOfLast(t.c, kind, frag)
      /\ v.why = t.why /\ v.usage = t.usage /\ v.marked = t.marked /\ v.signed = t.signed
  BY <1>6, <1>7, <1>8
<1> QED BY <1>1, <1>3, <1>5, <1>9

LEMMA TextBeginsIs ==
  ASSUME NEW u \in Teller, NEW t \in Tale, NEW kind \in {"text", "thinking"},
         NEW frag \in Nat, t.pc = "open", frag # 0, t.kind # kind
  PROVE  /\ TextChunk(kind, frag) \in Msg
         /\ \E v \in Tale :
              /\ Goes(u, "chat", t, TextChunk(kind, frag), v)
              /\ v.pc = t.pc /\ v.kind = kind /\ v.n = t.n + 1
              /\ v.c = MoreOfLast(Begun(t.c, kind, 0), kind, frag) /\ v.why = t.why
              /\ v.usage = t.usage /\ v.marked = t.marked /\ v.signed = t.signed
<1>1. PICK f : f = TextChunk(kind, frag)
  OBVIOUS
<1>2. /\ f.e = "chunk" /\ f.usage = NoUsage /\ f.i = 0 /\ f.id = 0 /\ f.kind = kind
      /\ f.frag = frag
  BY <1>1 DEF TextChunk, Chunk, Bare
<1>3. f \in Msg /\ f \in Frame
  BY <1>1, NoUsageIsUsage, MsgIsEvent, Chunks DEF Reason, EventKind, BlockKind
<1>4. May(u, "chat", t, f)
  BY <1>2 DEF May, ChatMay
<1>5. PICK v \in Tale : v = Tell(t, f) /\ Goes(u, "chat", t, f, v)
  BY <1>3, <1>4, TellsOne DEF Dialect
<1>6. PICK a \in Tale :
        /\ a = IF t.kind = kind THEN t ELSE NextBlock(t, kind, 0)
        /\ a.c = (IF t.kind = kind THEN t.c ELSE Begun(t.c, kind, 0)) /\ a.kind = kind
        /\ a.n = (IF t.kind = kind THEN t.n ELSE t.n + 1) /\ a.why = t.why /\ a.pc = t.pc
        /\ a.usage = t.usage /\ a.marked = t.marked /\ a.signed = t.signed
  <2>1. ~t.marked /\ kind \in BlockKind /\ 0 \in Nat
    BY TaleParts DEF BlockKind
  <2> QED BY <2>1, NextBlockIs
<1>6a. PICK b \in Tale : b = NextPiece(a, kind, frag)
  BY <1>6, NextPieceIs DEF BlockKind
<1>7. /\ b.c = MoreOfLast(a.c, kind, frag) /\ b.kind = kind /\ b.n = a.n /\ b.why = a.why
      /\ b.usage = a.usage /\ b.marked = a.marked /\ b.signed = a.signed /\ b.pc = a.pc
  BY <1>6, <1>6a, NextPieceIs DEF BlockKind
<1>8. v = b
  BY <1>1, <1>5, <1>6, <1>6a DEF Tell, TellChunk, IsError, TextChunk, Chunk, Bare
<1>9. /\ v.pc = t.pc /\ v.kind = kind /\ v.n = t.n + 1
      /\ v.c = MoreOfLast(Begun(t.c, kind, 0), kind, frag) /\ v.why = t.why /\ v.usage = t.usage
      /\ v.marked = t.marked /\ v.signed = t.signed
  BY <1>6, <1>7, <1>8
<1> QED BY <1>1, <1>3, <1>5, <1>9

LEMMA ToolChunkIs ==
  ASSUME NEW u \in Teller, NEW t \in Tale, NEW i, NEW id \in Nat, t.pc = "open", id # 0,
         i = ToolsOf(t)
  PROVE  /\ ToolChunk(i, id, 0) \in Msg
         /\ \E v \in Tale :
              /\ Goes(u, "chat", t, ToolChunk(i, id, 0), v)
              /\ v.pc = t.pc /\ v.kind = "tool" /\ v.n = t.n + 1 /\ v.c = Begun(t.c, "tool", id)
              /\ v.why = t.why /\ v.usage = t.usage /\ v.marked = t.marked
              /\ v.signed = t.signed
<1>1. PICK f : f = ToolChunk(i, id, 0)
  OBVIOUS
<1>2. /\ f.e = "chunk" /\ f.usage = NoUsage /\ f.kind = "tool" /\ f.i = i /\ f.id = id
      /\ f.frag = 0
  BY <1>1 DEF ToolChunk, Chunk, Bare
<1>3. f \in Msg /\ f \in Frame
  BY <1>1, NoUsageIsUsage, MsgIsEvent, TaleParts, Chunks DEF Reason, EventKind, BlockKind, ToolsOf
<1>4. May(u, "chat", t, f)
  BY <1>2 DEF May, ChatMay, ToolsOf
<1>5. PICK v \in Tale : v = Tell(t, f) /\ Goes(u, "chat", t, f, v)
  BY <1>3, <1>4, TellsOne DEF Dialect
<1>6. ~t.marked /\ "tool" \in BlockKind
  BY TaleParts DEF BlockKind
<1>7. PICK b \in Tale :
        /\ b = NextBlock(t, "tool", id)
        /\ b.c = Begun(t.c, "tool", id) /\ b.kind = "tool" /\ b.n = t.n + 1 /\ b.why = t.why
        /\ b.usage = t.usage /\ b.marked = t.marked /\ b.signed = t.signed /\ b.pc = t.pc
  BY <1>6, NextBlockIs
<1>8. v = b
  BY <1>1, <1>5, <1>7 DEF Tell, TellChunk, IsError, ToolChunk, Chunk, Bare
<1>9. /\ v.pc = t.pc /\ v.kind = "tool" /\ v.n = t.n + 1 /\ v.c = Begun(t.c, "tool", id)
      /\ v.why = t.why /\ v.usage = t.usage /\ v.marked = t.marked /\ v.signed = t.signed
  BY <1>6, <1>7, <1>8
<1> QED BY <1>1, <1>3, <1>5, <1>9

LEMMA ToolPieceIs ==
  ASSUME NEW u \in Teller, NEW t \in Tale, NEW i \in Nat, NEW frag \in Nat, t.pc = "open",
         frag # 0, t.kind = "tool", i + 1 = ToolsOf(t)
  PROVE  /\ ToolChunk(i, 0, frag) \in Msg
         /\ \E v \in Tale :
              /\ Goes(u, "chat", t, ToolChunk(i, 0, frag), v)
              /\ v.pc = t.pc /\ v.kind = t.kind /\ v.n = t.n
              /\ v.c = MoreOfLast(t.c, "tool", frag) /\ v.why = t.why /\ v.usage = t.usage
              /\ v.marked = t.marked /\ v.signed = t.signed
<1>1. PICK f : f = ToolChunk(i, 0, frag)
  OBVIOUS
<1>2. /\ f.e = "chunk" /\ f.usage = NoUsage /\ f.kind = "tool" /\ f.i = i /\ f.id = 0
      /\ f.frag = frag
  BY <1>1 DEF ToolChunk, Chunk, Bare
<1>3. f \in Msg /\ f \in Frame
  BY <1>1, NoUsageIsUsage, MsgIsEvent, Chunks DEF Reason, EventKind, BlockKind
<1>4. May(u, "chat", t, f)
  BY <1>2 DEF May, ChatMay, ToolsOf
<1>5. PICK v \in Tale : v = Tell(t, f) /\ Goes(u, "chat", t, f, v)
  BY <1>3, <1>4, TellsOne DEF Dialect
<1>6. PICK b \in Tale : b = NextPiece(t, "tool", frag)
  BY NextPieceIs DEF BlockKind
<1>7. /\ b.c = MoreOfLast(t.c, "tool", frag) /\ b.kind = "tool" /\ b.n = t.n /\ b.why = t.why
      /\ b.usage = t.usage /\ b.marked = t.marked /\ b.signed = t.signed /\ b.pc = t.pc
  BY <1>6, NextPieceIs DEF BlockKind
<1>8. v = b
  BY <1>1, <1>5, <1>6 DEF Tell, TellChunk, IsError, ToolChunk, Chunk, Bare
<1>9. /\ v.pc = t.pc /\ v.kind = t.kind /\ v.n = t.n /\ v.c = MoreOfLast(t.c, "tool", frag)
      /\ v.why = t.why /\ v.usage = t.usage /\ v.marked = t.marked /\ v.signed = t.signed
  BY <1>6, <1>7, <1>8
<1> QED BY <1>1, <1>3, <1>5, <1>9

LEMMA FinishIs ==
  ASSUME NEW u \in Teller, NEW t \in Tale,
         NEW why \in {"stop", "tool_calls", "length", "content_filter"}, t.pc = "open"
  PROVE  /\ FinishChunk(why) \in Msg
         /\ \E v \in Tale :
              /\ Goes(u, "chat", t, FinishChunk(why), v)
              /\ v.pc = "told" /\ v.kind = t.kind /\ v.n = t.n /\ v.c = t.c /\ v.why = why
              /\ v.usage = t.usage /\ v.marked = t.marked /\ v.signed = t.signed
<1>1. PICK f : f = FinishChunk(why)
  OBVIOUS
<1>2. /\ f.e = "chunk" /\ f.usage = NoUsage /\ f.kind = "finish" /\ f.why = why
  BY <1>1 DEF FinishChunk, Chunk, Bare
<1>3. f \in Msg /\ f \in Frame
  BY <1>1, NoUsageIsUsage, MsgIsEvent, Chunks DEF Reason, EventKind, BlockKind
<1>4. May(u, "chat", t, f)
  BY <1>2 DEF May, ChatMay
<1>5. PICK v \in Tale : v = Tell(t, f) /\ Goes(u, "chat", t, f, v)
  BY <1>3, <1>4, TellsOne DEF Dialect
<1>6. v = [t EXCEPT !.pc = "told", !.why = why]
  BY <1>1, <1>5 DEF Tell, TellChunk, IsError, FinishChunk, Chunk, Bare
<1>7. /\ v.pc = "told" /\ v.kind = t.kind /\ v.n = t.n /\ v.c = t.c /\ v.why = why
      /\ v.usage = t.usage /\ v.marked = t.marked /\ v.signed = t.signed
  BY <1>6, TaleIsRecord DEF TaleRecord
<1> QED BY <1>1, <1>3, <1>5, <1>7

LEMMA UsageChunkIs ==
  ASSUME NEW u \in Teller, NEW t \in Tale, NEW usage \in Usage, t.pc \in {"open", "told"},
         usage # NoUsage
  PROVE  /\ UsageChunk(usage) \in Msg
         /\ \E v \in Tale :
              /\ Goes(u, "chat", t, UsageChunk(usage), v)
              /\ v.pc = t.pc /\ v.kind = t.kind /\ v.n = t.n /\ v.c = t.c /\ v.why = t.why
              /\ v.usage = usage /\ v.marked = t.marked /\ v.signed = t.signed
<1>1. PICK f : f = UsageChunk(usage)
  OBVIOUS
<1>2. /\ f.e = "chunk" /\ f.kind = "usage" /\ f.usage = usage
  BY <1>1 DEF UsageChunk, Chunk, Bare
<1>3. f \in Msg /\ f \in Frame
  BY <1>1, NoUsageIsUsage, MsgIsEvent, Chunks DEF Reason, EventKind, BlockKind
<1>4. May(u, "chat", t, f)
  BY <1>2 DEF May, ChatMay
<1>5. PICK v \in Tale : v = Tell(t, f) /\ Goes(u, "chat", t, f, v)
  BY <1>3, <1>4, TellsOne DEF Dialect
<1>6. v = [t EXCEPT !.usage = usage]
  BY <1>1, <1>5 DEF Tell, TellChunk, IsError, UsageChunk, Chunk, Bare
<1>7. /\ v.pc = t.pc /\ v.kind = t.kind /\ v.n = t.n /\ v.c = t.c /\ v.why = t.why
      /\ v.usage = usage /\ v.marked = t.marked /\ v.signed = t.signed
  BY <1>6, TaleIsRecord DEF TaleRecord
<1> QED BY <1>1, <1>3, <1>5, <1>7

LEMMA ChatDoneIs ==
  ASSUME NEW u \in Teller, NEW t \in Tale, t.pc \in {"open", "told"}, u # "gateway"
  PROVE  /\ ChatDone \in Msg
         /\ \E v \in Tale :
              /\ Goes(u, "chat", t, ChatDone, v)
              /\ v.pc = "over" /\ v.kind = t.kind /\ v.n = t.n /\ v.c = t.c /\ v.why = t.why
              /\ v.usage = t.usage /\ v.marked = t.marked /\ v.signed = t.signed
<1>1. PICK f : f = ChatDone
  OBVIOUS
<1>2. /\ f.e = "[DONE]"
  BY <1>1 DEF ChatDone, Bare
<1>3. f \in Msg /\ f \in Frame
  BY <1>1, NoUsageIsUsage, MsgIsEvent, BareIsMsg DEF ChatDone, EventName
<1>4. May(u, "chat", t, f)
  BY <1>2 DEF May, ChatMay
<1>5. PICK v \in Tale : v = Tell(t, f) /\ Goes(u, "chat", t, f, v)
  BY <1>3, <1>4, TellsOne DEF Dialect
<1>6. v = [t EXCEPT !.pc = "over"]
  BY <1>1, <1>5 DEF Tell, TellChunk, IsError, ChatDone, Bare
<1>7. /\ v.pc = "over" /\ v.kind = t.kind /\ v.n = t.n /\ v.c = t.c /\ v.why = t.why
      /\ v.usage = t.usage /\ v.marked = t.marked /\ v.signed = t.signed
  BY <1>6, TaleIsRecord DEF TaleRecord
<1> QED BY <1>1, <1>3, <1>5, <1>7

LEMMA CreatedIs ==
  ASSUME NEW u \in Teller, NEW t \in Tale, t.pc = "start"
  PROVE  /\ Bare("response.created") \in Msg
         /\ \E v \in Tale :
              /\ Goes(u, "responses", t, Bare("response.created"), v)
              /\ v.pc = "open" /\ v.kind = t.kind /\ v.n = t.n /\ v.c = t.c /\ v.why = t.why
              /\ v.usage = NoUsage /\ v.marked = t.marked /\ v.signed = t.signed
<1>1. PICK f : f = Bare("response.created")
  OBVIOUS
<1>2. /\ f.e = "response.created" /\ f.usage = NoUsage
  BY <1>1 DEF Bare
<1>3. f \in Msg /\ f \in Frame
  BY <1>1, NoUsageIsUsage, MsgIsEvent, BareIsMsg DEF EventName
<1>4. May(u, "responses", t, f)
  BY <1>2 DEF May, ResponsesMay
<1>5. PICK v \in Tale : v = Tell(t, f) /\ Goes(u, "responses", t, f, v)
  BY <1>3, <1>4, TellsOne DEF Dialect
<1>6. v = [t EXCEPT !.pc = "open", !.usage = NoUsage]
  BY <1>1, <1>5 DEF Tell, TellChunk, IsError, Bare
<1>7. /\ v.pc = "open" /\ v.kind = t.kind /\ v.n = t.n /\ v.c = t.c /\ v.why = t.why
      /\ v.usage = NoUsage /\ v.marked = t.marked /\ v.signed = t.signed
  BY <1>6, TaleIsRecord DEF TaleRecord
<1> QED BY <1>1, <1>3, <1>5, <1>7

LEMMA AddedIs ==
  ASSUME NEW u \in Teller, NEW t \in Tale, NEW i, NEW kind \in BlockKind, NEW id \in Nat,
         t.pc = "open", i = t.n, kind = "tool" => id # 0
  PROVE  /\ Added(i, kind, id) \in Msg
         /\ \E v \in Tale :
              /\ Goes(u, "responses", t, Added(i, kind, id), v)
              /\ v.pc = "block" /\ v.kind = kind /\ v.n = t.n + 1 /\ v.c = Begun(t.c, kind, id)
              /\ v.why = t.why /\ v.usage = t.usage /\ v.marked = t.marked
              /\ v.signed = t.signed
<1>1. PICK f : f = Added(i, kind, id)
  OBVIOUS
<1>2. /\ f.e = "response.output_item.added" /\ f.i = i /\ f.kind = kind /\ f.id = id
  BY <1>1 DEF Added, Bare
<1>3. f \in Msg /\ f \in Frame
  BY <1>1, NoUsageIsUsage, MsgIsEvent, TaleParts, Items, TuplesAreSeqs
<1>4. May(u, "responses", t, f)
  BY <1>2 DEF May, ResponsesMay, IdFits
<1>5. PICK v \in Tale : v = Tell(t, f) /\ Goes(u, "responses", t, f, v)
  BY <1>3, <1>4, TellsOne DEF Dialect
<1>6. ~t.marked /\ "tool" \in BlockKind
  BY TaleParts DEF BlockKind
<1>7. PICK b \in Tale :
        /\ b = NextBlock(t, kind, id)
        /\ b.c = Begun(t.c, kind, id) /\ b.kind = kind /\ b.n = t.n + 1 /\ b.why = t.why
        /\ b.usage = t.usage /\ b.marked = t.marked /\ b.signed = t.signed /\ b.pc = t.pc
  BY <1>6, NextBlockIs
<1>8. v = [b EXCEPT !.pc = "block"]
  BY <1>1, <1>5, <1>7 DEF Tell, IsError, Added, Bare
<1>9. /\ v.pc = "block" /\ v.kind = kind /\ v.n = t.n + 1 /\ v.c = Begun(t.c, kind, id)
      /\ v.why = t.why /\ v.usage = t.usage /\ v.marked = t.marked /\ v.signed = t.signed
  BY <1>6, <1>7, <1>8, TaleIsRecord DEF TaleRecord
<1> QED BY <1>1, <1>3, <1>5, <1>9

LEMMA ItemDeltaIs ==
  ASSUME NEW u \in Teller, NEW t \in Tale, NEW i \in Nat, NEW kind \in BlockKind,
         NEW frag \in Nat, t.pc = "block", i + 1 = t.n, kind = t.kind, frag # 0
  PROVE  /\ ItemDelta(i, kind, frag) \in Msg
         /\ \E v \in Tale :
              /\ Goes(u, "responses", t, ItemDelta(i, kind, frag), v)
              /\ v.pc = t.pc /\ v.kind = t.kind /\ v.n = t.n
              /\ v.c = MoreOfLast(t.c, kind, frag) /\ v.why = t.why /\ v.usage = t.usage
              /\ v.marked = t.marked /\ v.signed = t.signed
<1>1. PICK f : f = ItemDelta(i, kind, frag)
  OBVIOUS
<1>2. /\ f.e = "response.delta" /\ f.i = i /\ f.kind = kind /\ f.frag = frag
  BY <1>1 DEF ItemDelta, Bare
<1>3. f \in Msg /\ f \in Frame
  BY <1>1, NoUsageIsUsage, MsgIsEvent, Items, TuplesAreSeqs
<1>4. May(u, "responses", t, f)
  BY <1>2 DEF May, ResponsesMay
<1>5. PICK v \in Tale : v = Tell(t, f) /\ Goes(u, "responses", t, f, v)
  BY <1>3, <1>4, TellsOne DEF Dialect
<1>6. PICK b \in Tale : b = NextPiece(t, kind, frag)
  BY NextPieceIs DEF BlockKind
<1>7. /\ b.c = MoreOfLast(t.c, kind, frag) /\ b.kind = kind /\ b.n = t.n /\ b.why = t.why
      /\ b.usage = t.usage /\ b.marked = t.marked /\ b.signed = t.signed /\ b.pc = t.pc
  BY <1>6, NextPieceIs DEF BlockKind
<1>8. v = b
  BY <1>1, <1>5, <1>6 DEF Tell, TellChunk, IsError, ItemDelta, Bare, BlockKind
<1>9. /\ v.pc = t.pc /\ v.kind = t.kind /\ v.n = t.n /\ v.c = MoreOfLast(t.c, kind, frag)
      /\ v.why = t.why /\ v.usage = t.usage /\ v.marked = t.marked /\ v.signed = t.signed
  BY <1>6, <1>7, <1>8
<1> QED BY <1>1, <1>3, <1>5, <1>9

LEMMA PartDoneIs ==
  ASSUME NEW u \in Teller, NEW t \in Tale, NEW i \in Nat, NEW kind \in BlockKind,
         t.pc = "block", i + 1 = t.n, t.kind # "thinking"
  PROVE  /\ PartDone(i, kind) \in Msg
         /\ \E v \in Tale :
              /\ Goes(u, "responses", t, PartDone(i, kind), v)
              /\ v.pc = "parted" /\ v.kind = t.kind /\ v.n = t.n /\ v.c = t.c /\ v.why = t.why
              /\ v.usage = t.usage /\ v.marked = t.marked /\ v.signed = t.signed
<1>1. PICK f : f = PartDone(i, kind)
  OBVIOUS
<1>2. /\ f.e = "response.done" /\ f.i = i
  BY <1>1 DEF PartDone, Bare
<1>3. f \in Msg /\ f \in Frame
  BY <1>1, NoUsageIsUsage, MsgIsEvent, Items, TuplesAreSeqs
<1>4. May(u, "responses", t, f)
  BY <1>2 DEF May, ResponsesMay
<1>5. PICK v \in Tale : v = Tell(t, f) /\ Goes(u, "responses", t, f, v)
  BY <1>3, <1>4, TellsOne DEF Dialect
<1>6. v = [t EXCEPT !.pc = "parted"]
  BY <1>1, <1>5 DEF Tell, TellChunk, IsError, PartDone, Bare
<1>7. /\ v.pc = "parted" /\ v.kind = t.kind /\ v.n = t.n /\ v.c = t.c /\ v.why = t.why
      /\ v.usage = t.usage /\ v.marked = t.marked /\ v.signed = t.signed
  BY <1>6, TaleIsRecord DEF TaleRecord
<1> QED BY <1>1, <1>3, <1>5, <1>7

LEMMA ItemDoneIs ==
  ASSUME NEW u \in Teller, NEW t \in Tale, NEW i \in Nat, NEW kind \in BlockKind,
         NEW id \in Nat, NEW signed \in BOOLEAN, i + 1 = t.n, kind = t.kind,
         t.pc = IF t.kind = "thinking" THEN "block" ELSE "parted",
         signed => t.kind = "thinking"
  PROVE  /\ ItemDone(i, kind, id, signed) \in Msg
         /\ \E v \in Tale :
              /\ Goes(u, "responses", t, ItemDone(i, kind, id, signed), v)
              /\ v.pc = "open" /\ v.kind = t.kind /\ v.n = t.n /\ v.c = t.c /\ v.why = t.why
              /\ v.usage = t.usage /\ ~v.marked /\ v.signed = Signed(t, signed)
<1>1. PICK f : f = ItemDone(i, kind, id, signed)
  OBVIOUS
<1>2. /\ f.e = "response.output_item.done" /\ f.i = i /\ f.kind = kind /\ f.signed = signed
  BY <1>1 DEF ItemDone, Bare
<1>3. f \in Msg /\ f \in Frame
  BY <1>1, NoUsageIsUsage, MsgIsEvent, Items, TuplesAreSeqs
<1>4. May(u, "responses", t, f)
  BY <1>2 DEF May, ResponsesMay
<1>5. PICK v \in Tale : v = Tell(t, f) /\ Goes(u, "responses", t, f, v)
  BY <1>3, <1>4, TellsOne DEF Dialect
<1>6. v = [t EXCEPT !.pc = "open", !.marked = FALSE, !.signed = Signed(t, signed)]
  BY <1>1, <1>5 DEF Tell, TellChunk, IsError, ItemDone, Bare
<1>7. /\ v.pc = "open" /\ v.kind = t.kind /\ v.n = t.n /\ v.c = t.c /\ v.why = t.why
      /\ v.usage = t.usage /\ ~v.marked /\ v.signed = Signed(t, signed)
  BY <1>6, TaleIsRecord DEF TaleRecord
<1> QED BY <1>1, <1>3, <1>5, <1>7

LEMMA CompletedIs ==
  ASSUME NEW u \in Teller, NEW t \in Tale, NEW items, NEW usage \in Usage, t.pc = "open",
         items = t.c.items
  PROVE  /\ Completed(items, usage) \in Msg
         /\ \E v \in Tale :
              /\ Goes(u, "responses", t, Completed(items, usage), v)
              /\ v.pc = "over" /\ v.kind = t.kind /\ v.n = t.n /\ v.c = t.c /\ v.why = t.why
              /\ v.usage = usage /\ v.marked = t.marked /\ v.signed = t.signed
<1>1. PICK f : f = Completed(items, usage)
  OBVIOUS
<1>2. /\ f.e = "response.completed" /\ f.items = items /\ f.usage = usage
  BY <1>1 DEF Completed, Bare
<1>3. f \in Msg /\ f \in Frame
  BY <1>1, NoUsageIsUsage, MsgIsEvent, TaleParts, ContentParts, Items DEF BlockKind
<1>4. May(u, "responses", t, f)
  BY <1>2 DEF May, ResponsesMay
<1>5. PICK v \in Tale : v = Tell(t, f) /\ Goes(u, "responses", t, f, v)
  BY <1>3, <1>4, TellsOne DEF Dialect
<1>6. v = [t EXCEPT !.pc = "over", !.usage = usage]
  BY <1>1, <1>5 DEF Tell, TellChunk, IsError, Completed, Bare
<1>7. /\ v.pc = "over" /\ v.kind = t.kind /\ v.n = t.n /\ v.c = t.c /\ v.why = t.why
      /\ v.usage = usage /\ v.marked = t.marked /\ v.signed = t.signed
  BY <1>6, TaleIsRecord DEF TaleRecord
<1> QED BY <1>1, <1>3, <1>5, <1>7

\* Events that tell nothing.
LEMMA InProgressIs ==
  ASSUME NEW u \in Teller, NEW t \in Tale, t.pc = "open"
  PROVE  /\ Bare("response.in_progress") \in Msg
         /\ Goes(u, "responses", t, Bare("response.in_progress"), t)
<1>1. PICK f : f = Bare("response.in_progress")
  OBVIOUS
<1>2. f.e = "response.in_progress" /\ f \in Msg /\ f \in Frame
  BY <1>1, BareIsMsg, MsgIsEvent DEF EventName
<1>3. May(u, "responses", t, f) /\ Tell(t, f) = t
  BY <1>2 DEF May, ResponsesMay, Tell, IsError
<1> QED BY <1>1, <1>2, <1>3, TellsOne DEF Dialect

LEMMA PingIs ==
  ASSUME NEW u \in Teller, NEW t \in Tale, t.pc \notin Ended \cup {"error"}
  PROVE  /\ Bare("ping") \in Msg /\ Goes(u, "messages", t, Bare("ping"), t)
<1>1. PICK f : f = Bare("ping")
  OBVIOUS
<1>2. f.e = "ping" /\ f \in Msg /\ f \in Frame
  BY <1>1, BareIsMsg, MsgIsEvent DEF EventName
<1>3. May(u, "messages", t, f) /\ Tell(t, f) = t
  BY <1>2 DEF May, MessagesMay, Tell, IsError
<1> QED BY <1>1, <1>2, <1>3, TellsOne DEF Dialect

LEMMA FailureIs ==
  ASSUME NEW u \in Teller, NEW d \in Dialect, NEW t \in Tale, t.pc \notin Ended, NEW f \in Frame, IsError(f),
         f.e = "response.failed" => d = "responses"
  PROVE  \E v \in Tale :
           /\ Goes(u, d, t, f, v)
           /\ v.pc = "error" /\ v.kind = t.kind /\ v.n = t.n /\ v.c = t.c /\ v.why = t.why
           /\ v.usage = t.usage /\ v.marked = t.marked /\ v.signed = t.signed
<1>1. May(u, d, t, f)
  BY DEF May
<1>2. PICK v \in Tale : v = Tell(t, f) /\ Goes(u, d, t, f, v)
  BY <1>1, TellsOne
<1>3. v = [t EXCEPT !.pc = "error"]
  BY <1>2 DEF Tell, IsError
<1>4. /\ v.pc = "error" /\ v.kind = t.kind /\ v.n = t.n /\ v.c = t.c /\ v.why = t.why
      /\ v.usage = t.usage /\ v.marked = t.marked /\ v.signed = t.signed
  BY <1>3, TaleIsRecord DEF TaleRecord
<1> QED BY <1>2, <1>4

\* The gateway's mark.
LEMMA DoneIs ==
  ASSUME NEW d \in Dialect, NEW t \in Tale,
         t.pc \in IF d = "chat" THEN {"open", "told", "error"} ELSE {"over", "error"}
  PROVE  \E v \in Tale :
           /\ Goes("gateway", d, t, Done, v)
           /\ v.pc = (IF t.pc = "error" THEN "error" ELSE "closed")
           /\ v.kind = t.kind /\ v.n = t.n /\ v.c = t.c /\ v.why = t.why
           /\ v.usage = t.usage /\ v.marked = t.marked /\ v.signed = t.signed
<1>1. Done \in Frame /\ Done.e = "Done"
  BY MsgIsEvent
<1>2. PICK f \in Frame : f = Done /\ f.e = "Done"
  BY <1>1
<1>3. May("gateway", d, t, f)
  BY <1>2 DEF May, MessagesMay, ChatMay, ResponsesMay, Dialect
<1>4. PICK v \in Tale : v = Tell(t, f) /\ Goes("gateway", d, t, f, v)
  BY <1>3, TellsOne
<1>5. v = IF t.pc = "error" THEN t ELSE [t EXCEPT !.pc = "closed"]
  BY <1>2, <1>4 DEF Tell, IsError
<1>6. /\ v.pc = (IF t.pc = "error" THEN "error" ELSE "closed")
      /\ v.kind = t.kind /\ v.n = t.n /\ v.c = t.c /\ v.why = t.why
      /\ v.usage = t.usage /\ v.marked = t.marked /\ v.signed = t.signed
  BY <1>5, TaleIsRecord DEF TaleRecord
<1> QED BY <1>2, <1>4, <1>6
=============================================================================
