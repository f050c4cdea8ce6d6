------------------------------ MODULE Dialects ------------------------------
(***************************************************************************)
(* The converters between the three dialects in which a model's answer is  *)
(* streamed: chat completions, messages and responses.  Each is a state    *)
(* machine that takes one event and yields events of another dialect;      *)
(* messages is the dialect in the middle, so that chat and responses reach *)
(* each other in two stages.  A piece of text is a number; ids are numbers *)
(* too, 0 being the empty one.                                             *)
(***************************************************************************)
EXTENDS Integers, Sequences, FiniteSets, Functions

CONSTANT None

Dialect == {"chat", "messages", "responses"}

-----------------------------------------------------------------------------
(* Usage *)

\* messages counts the prompt without what was read from or written to the cache,
\* the other two count it in.
UsageField == {"prompt", "read", "write", "output"}
Usage == [UsageField -> Nat \cup {None}]
NoUsage == [f \in UsageField |-> None]
ZeroUsage == [f \in UsageField |-> 0]

Count(n) == IF n = None THEN 0 ELSE n
Cached(u) == Count(u["read"]) + Count(u["write"])

\* messages_usage_to_chat, messages_usage_to_responses
Totals(u) ==
  [f \in UsageField |-> IF f = "prompt" THEN Count(u[f]) + Cached(u) ELSE Count(u[f])]

\* Mutant of Exclusive: the difference does not saturate.
ExclusiveSigned(u) ==
  [f \in UsageField |-> IF f = "prompt" THEN Count(u[f]) - Cached(u) ELSE Count(u[f])]

\* chat_usage_to_messages, responses_usage_to_messages: the difference saturates at 0.
Exclusive(u) ==
  [f \in UsageField |->
     IF f # "prompt" THEN Count(u[f])
     ELSE IF Count(u[f]) >= Cached(u) THEN Count(u[f]) - Cached(u) ELSE 0]

\* merge_messages_usage: only what the delta has.
MergeUsage(base, delta) == [f \in UsageField |-> IF delta[f] = None THEN base[f] ELSE delta[f]]

-----------------------------------------------------------------------------
(* Events *)

BlockKind == {"text", "thinking", "tool"}
EventKind == BlockKind \cup {"none", "signature", "role", "finish", "usage"}
Reason == {"none", "end_turn", "tool_use", "max_tokens", "refusal",
           "stop", "tool_calls", "length", "content_filter"}
Item == [kind : BlockKind, id : Nat, text : Seq(Nat)]
EventName ==
  {"message_start", "content_block_start", "content_block_delta", "content_block_stop",
   "message_delta", "message_stop", "ping", "chunk", "[DONE]", "error",
   "response.created", "response.in_progress", "response.output_item.added", "response.delta",
   "response.done", "response.output_item.done", "response.completed", "response.failed", "Done"}
Event == [e : EventName, i : Nat, kind : EventKind, id : Nat, frag : Nat, signed : BOOLEAN,
          usage : Usage, why : Reason, items : Seq(Item)]

Bare(e) == [e |-> e, i |-> 0, kind |-> "none", id |-> 0, frag |-> 0, signed |-> FALSE,
            usage |-> NoUsage, why |-> "none", items |-> <<>>]

\* messages
MessageStart(usage) == [Bare("message_start") EXCEPT !.usage = usage]
BlockStart(i, kind, id) ==
  [Bare("content_block_start") EXCEPT !.i = i, !.kind = kind, !.id = id]
BlockDelta(i, kind, frag) ==
  [Bare("content_block_delta") EXCEPT !.i = i, !.kind = kind, !.frag = frag]
BlockStop(i) == [Bare("content_block_stop") EXCEPT !.i = i]
MessageDelta(why, usage) == [Bare("message_delta") EXCEPT !.why = why, !.usage = usage]
MessageStop == Bare("message_stop")

\* chat: a chunk carries one thing; the first chunk of a tool call has its id.
Chunk(kind) == [Bare("chunk") EXCEPT !.kind = kind]
TextChunk(kind, frag) == [Chunk(kind) EXCEPT !.frag = frag]
ToolChunk(i, id, frag) == [Chunk("tool") EXCEPT !.i = i, !.id = id, !.frag = frag]
FinishChunk(why) == [Chunk("finish") EXCEPT !.why = why]
UsageChunk(usage) == [Chunk("usage") EXCEPT !.usage = usage]
ChatDone == Bare("[DONE]")

\* responses: one name for the three deltas and one for the two *.done events that close.
Added(i, kind, id) ==
  [Bare("response.output_item.added") EXCEPT !.i = i, !.kind = kind, !.id = id]
ItemDelta(i, kind, frag) ==
  [Bare("response.delta") EXCEPT !.i = i, !.kind = kind, !.frag = frag]
PartDone(i, kind) == [Bare("response.done") EXCEPT !.i = i, !.kind = kind]
ItemDone(i, kind, id, signed) ==
  [Bare("response.output_item.done") EXCEPT !.i = i, !.kind = kind, !.id = id, !.signed = signed]
Completed(items, usage) ==
  [Bare("response.completed") EXCEPT !.items = items, !.usage = usage]

\* The end of the stream, for the encoder of the transport.
Done == Bare("Done")

StopToFinish(why) ==
  CASE why = "max_tokens" -> "length" [] why = "tool_use" -> "tool_calls"
    [] why = "refusal" -> "content_filter" [] OTHER -> "stop"
FinishToStop(why) ==
  CASE why = "length" -> "max_tokens" [] why = "tool_calls" -> "tool_use"
    [] why = "content_filter" -> "refusal" [] OTHER -> "end_turn"

-----------------------------------------------------------------------------
(* What one push yields: the next state, events, usage to account for,     *)
(* whether the upstream reported an error, and a capture of signed         *)
(* thinking for the tools of the turn.                                     *)

Capture == [thinking : Seq(Seq(Nat)), ids : Seq(Nat)]
NoCapture == [thinking |-> <<>>, ids |-> <<>>]

Yield(st, out) == [st |-> st, out |-> out, usage |-> NoUsage, error |-> FALSE,
                   capture |-> NoCapture]

-----------------------------------------------------------------------------
(* To messages: ChatToMessagesStream and ResponsesToMessagesStream *)

OpenBlock == [kind : BlockKind \cup {"none"}, i : Nat]
NoBlock == [kind |-> "none", i |-> 0]
Inward == [started : BOOLEAN, index : Nat, open : OpenBlock, tool : BOOLEAN, why : Reason,
           usage : Usage]
InwardInit == [started |-> FALSE, index |-> 0, open |-> NoBlock, tool |-> FALSE,
               why |-> "none", usage |-> NoUsage]

EnsureStarted(s) == IF s.started THEN <<>> ELSE <<MessageStart(ZeroUsage)>>
CloseBlock(s) == IF s.open = NoBlock THEN <<>> ELSE <<BlockStop(s.index)>>
NextIndex(s) == IF s.open = NoBlock THEN s.index ELSE s.index + 1

\* ensure_block: another block ends the one before it.
Opened(s, block) ==
  IF s.open = block THEN s ELSE [s EXCEPT !.open = block, !.index = NextIndex(s)]

\* Mutant of EnsureBlock: the block before it is not closed.
EnsureBlockOpen(s, block, id) ==
  IF s.open = block THEN <<>> ELSE <<BlockStart(NextIndex(s), block.kind, id)>>

EnsureBlock(s, block, id) ==
  IF s.open = block THEN <<>>
  ELSE CloseBlock(s) \o <<BlockStart(NextIndex(s), block.kind, id)>>

ChatToMessages(s, ev) ==
  LET begun == [s EXCEPT !.started = TRUE]
      start == EnsureStarted(s)
      block == [kind |-> ev.kind, i |-> ev.i]
      opened == Opened(begun, block)
      delta == IF ev.frag = 0 THEN <<>> ELSE <<BlockDelta(opened.index, ev.kind, ev.frag)>>
      why == IF s.why # "none" THEN s.why ELSE IF s.tool THEN "tool_use" ELSE "end_turn"
  IN CASE ev.e = "error" -> [Yield(s, <<ev>>) EXCEPT !.error = TRUE]
       [] ev.e = "[DONE]" ->
            Yield([begun EXCEPT !.open = NoBlock, !.index = NextIndex(s)],
                  start \o CloseBlock(s)
                    \o <<MessageDelta(why, MergeUsage(ZeroUsage, s.usage)), MessageStop>>)
       [] ev.kind \in BlockKind ->
            Yield([opened EXCEPT !.tool = @ \/ ev.kind = "tool"],
                  start \o EnsureBlock(begun, block, ev.id) \o delta)
       [] ev.kind = "finish" -> Yield([begun EXCEPT !.why = FinishToStop(ev.why)], start)
       [] ev.kind = "usage" ->
            [Yield([begun EXCEPT !.usage = Exclusive(ev.usage)], start)
               EXCEPT !.usage = Exclusive(ev.usage)]
       [] OTHER -> Yield(begun, start)

\* A finished reasoning item: the signature, then the end of the block.
Signature(s, ev) ==
  (IF ev.signed THEN <<BlockDelta(s.index, "signature", 0)>> ELSE <<>>)
    \o <<BlockStop(s.index)>>

\* Blocks are taken to come one after the other; one counter numbers them all.
ResponsesToMessages(s, ev) ==
  LET next == [s EXCEPT !.index = @ + 1]
      tool == s.tool \/ \E k \in DOMAIN ev.items : ev.items[k].kind = "tool"
      usage == IF ev.usage = NoUsage THEN NoUsage ELSE Exclusive(ev.usage)
  IN CASE ev.e = "response.created" -> Yield(s, <<MessageStart(ZeroUsage)>>)
       [] ev.e = "response.in_progress" -> Yield(s, <<Bare("ping")>>)
       [] ev.e = "response.output_item.added" ->
            Yield([s EXCEPT !.tool = @ \/ ev.kind = "tool"],
                  <<BlockStart(s.index, ev.kind, ev.id)>>)
       [] ev.e = "response.delta" -> Yield(s, <<BlockDelta(s.index, ev.kind, ev.frag)>>)
       [] ev.e = "response.done" -> Yield(next, <<BlockStop(s.index)>>)
       [] ev.e = "response.output_item.done" /\ ev.kind = "thinking" ->
            Yield(next, Signature(s, ev))
       [] ev.e = "response.completed" ->
            [Yield(s, <<MessageDelta(IF tool THEN "tool_use" ELSE "end_turn",
                                     MergeUsage(ZeroUsage, usage)), MessageStop>>)
               EXCEPT !.usage = usage]
       [] ev.e \in {"error", "response.failed"} ->
            [Yield(s, <<Bare("error")>>) EXCEPT !.error = TRUE]
       [] OTHER -> Yield(s, <<>>)

-----------------------------------------------------------------------------
(* From messages: MessagesToChatStream and MessagesToResponsesStream *)

BlockState == [kind : BlockKind, i : Nat, id : Nat, text : Seq(Nat), signed : BOOLEAN]
Block(kind, i, id) ==
  [kind |-> kind, i |-> i, id |-> id, text |-> <<>>, signed |-> FALSE]

\* blocks: those that are open, by their index; tool: the call each tool block became.
IsOutward(s) ==
  /\ DOMAIN s = {"blocks", "tool", "count", "thinking", "ids", "items", "usage", "why"}
  /\ DOMAIN s.blocks \subseteq Nat /\ DOMAIN s.tool \subseteq Nat
  /\ s.blocks \in [DOMAIN s.blocks -> BlockState] /\ s.tool \in [DOMAIN s.tool -> Nat]
  /\ s.count \in Nat /\ s.thinking \in Seq(Seq(Nat)) /\ s.ids \in Seq(Nat)
  /\ s.items \in Seq(Item) /\ s.usage \in Usage /\ s.why \in Reason
OutwardInit == [blocks |-> <<>>, tool |-> <<>>, count |-> 0, thinking |-> <<>>, ids |-> <<>>,
                items |-> <<>>, usage |-> NoUsage, why |-> "stop"]

Put(f, k, v) == [j \in DOMAIN f \cup {k} |-> IF j = k THEN v ELSE f[j]]
Drop(f, k) == Restrict(f, DOMAIN f \ {k})
Ids(s, id) == IF id = 0 THEN s.ids ELSE Append(s.ids, id)

\* The delta of a block that is known.
Accumulate(s, ev) ==
  IF ev.i \notin DOMAIN s.blocks THEN s
  ELSE IF ev.kind = "signature" THEN [s EXCEPT !.blocks[ev.i].signed = TRUE]
  ELSE [s EXCEPT !.blocks[ev.i].text = Append(@, ev.frag)]

\* Only thinking that is signed is of use later.
Thought(s, block) ==
  IF block.kind = "thinking" /\ block.signed THEN Append(s.thinking, block.text) ELSE s.thinking

\* Both or nothing; what is captured is taken.
Captured(s) ==
  IF s.thinking = <<>> \/ s.ids = <<>> THEN NoCapture
  ELSE [thinking |-> s.thinking, ids |-> s.ids]
Taken(s) ==
  IF Captured(s) = NoCapture THEN s ELSE [s EXCEPT !.thinking = <<>>, !.ids = <<>>]

\* Usage of message_start replaces what there was, that of message_delta is merged.
Seeded(s, ev) == IF ev.usage = NoUsage THEN s ELSE [s EXCEPT !.usage = ev.usage]

\* Mutant of Merged: what the delta leaves out is lost.
MergedOver(s, ev) == [s EXCEPT !.usage = ev.usage]
Merged(s, ev) == [s EXCEPT !.usage = MergeUsage(@, ev.usage)]
Reports(y, usage, ev) == IF ev.usage = NoUsage THEN y ELSE [y EXCEPT !.usage = usage]

\* Mutant of ToolCall: every block goes to the first call.
ToolCallFirst(s, i) == 0

\* The call a tool block became; the first one if the block is not known.
ToolCall(s, i) == IF i \in DOMAIN s.tool THEN s.tool[i] ELSE 0

MessagesToChat(s, ev, include) ==
  LET closed == [s EXCEPT !.blocks = Drop(@, ev.i),
                          !.thinking = Thought(s, s.blocks[ev.i])]
      tool == [s EXCEPT !.tool = Put(@, ev.i, s.count), !.count = @ + 1, !.ids = Ids(s, ev.id)]
      told == IF ev.why = "none" THEN s ELSE [s EXCEPT !.why = StopToFinish(ev.why)]
      usage == IF include /\ s.usage # NoUsage THEN <<UsageChunk(Totals(s.usage))>> ELSE <<>>
  IN CASE ev.e = "message_start" ->
            Reports(Yield(Seeded(s, ev), <<Chunk("role")>>), ev.usage, ev)
       [] ev.e = "content_block_start" /\ ev.kind = "thinking" ->
            Yield([s EXCEPT !.blocks = Put(@, ev.i, Block("thinking", 0, 0))], <<>>)
       [] ev.e = "content_block_start" /\ ev.kind = "tool" ->
            Yield(tool, <<ToolChunk(s.count, ev.id, 0)>>)
       [] ev.e = "content_block_delta" /\ ev.kind = "text" ->
            Yield(s, <<TextChunk("text", ev.frag)>>)
       [] ev.e = "content_block_delta" /\ ev.kind = "thinking" ->
            Yield(Accumulate(s, ev), <<TextChunk("thinking", ev.frag)>>)
       [] ev.e = "content_block_delta" /\ ev.kind = "signature" -> Yield(Accumulate(s, ev), <<>>)
       [] ev.e = "content_block_delta" /\ ev.kind = "tool" ->
            Yield(s, <<ToolChunk(ToolCall(s, ev.i), 0, ev.frag)>>)
       [] ev.e = "content_block_stop" /\ ev.i \in DOMAIN s.blocks -> Yield(closed, <<>>)
       [] ev.e = "message_delta" ->
            Reports(Yield(Merged(told, ev), <<>>), Merged(s, ev).usage, ev)
       [] ev.e = "message_stop" ->
            [Yield(Taken(s), <<FinishChunk(s.why)>> \o usage \o <<Done>>)
               EXCEPT !.capture = Captured(s)]
       [] ev.e = "error" -> [Yield(s, <<>>) EXCEPT !.error = TRUE]
       [] OTHER -> Yield(s, <<>>)

Finalized(s, block) ==
  Append(s.items, [kind |-> block.kind, id |-> block.id, text |-> block.text])

MessagesToResponses(s, ev) ==
  LET known == ev.i \in DOMAIN s.blocks
      block == s.blocks[ev.i]
      opened == [s EXCEPT !.blocks = Put(@, ev.i, Block(ev.kind, s.count, ev.id)),
                          !.count = @ + 1]
      closed == [s EXCEPT !.blocks = Drop(@, ev.i), !.thinking = Thought(s, block),
                          !.ids = IF block.kind = "tool" THEN Ids(s, block.id) ELSE @,
                          !.items = Finalized(s, block)]
      part == IF block.kind = "thinking" THEN <<>> ELSE <<PartDone(block.i, block.kind)>>
      usage == IF s.usage = NoUsage THEN NoUsage ELSE Totals(s.usage)
  IN CASE ev.e = "message_start" ->
            Reports(Yield(Seeded(s, ev), <<Bare("response.created"),
                                           Bare("response.in_progress")>>), ev.usage, ev)
       [] ev.e = "content_block_start" -> Yield(opened, <<Added(s.count, ev.kind, ev.id)>>)
       [] ev.e = "content_block_delta" /\ known ->
            Yield(Accumulate(s, ev),
                  IF ev.kind = "signature" THEN <<>>
                  ELSE <<ItemDelta(block.i, ev.kind, ev.frag)>>)
       [] ev.e = "content_block_stop" /\ known ->
            Yield(closed, part \o <<ItemDone(block.i, block.kind, block.id, FALSE)>>)
       [] ev.e = "message_delta" ->
            Reports(Yield(Merged(s, ev), <<>>), Merged(s, ev).usage, ev)
       [] ev.e = "message_stop" ->
            [Yield(Taken(s), <<Completed(s.items, usage), Done>>) EXCEPT !.capture = Captured(s)]
       [] ev.e = "error" -> [Yield(s, <<>>) EXCEPT !.error = TRUE]
       [] OTHER -> Yield(s, <<>>)
=============================================================================
