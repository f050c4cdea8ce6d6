-------------------------- MODULE StreamConversion --------------------------
(***************************************************************************)
(* One streamed answer on its way through the gateway: an upstream that    *)
(* speaks one dialect, the events cut into network reads, the converters   *)
(* of Dialects chained as the two dialects need, the task that pumps what  *)
(* they yield, and a client that reads it in its own dialect and keeps     *)
(* that dialect's rules.                                                   *)
(***************************************************************************)
EXTENDS Dialects, SequencesExt

CONSTANTS
  Routes,         \* who talks to whom, whether a chat client asks for usage, and what the
                  \* upstream will have to report as usage; NoUsage is nothing
  MaxBlocks, MaxPieces,   \* bounds of the answer: its blocks, and its pieces of text
  MaxWire,        \* bound on events that are sent and not yet read
  ErrorThenDone   \* TRUE: a chat upstream may send [DONE] right after an error

Route == [up : Dialect, client : Dialect, include : BOOLEAN, bill : Usage]

ASSUME StreamConstants ==
  /\ Routes \subseteq Route /\ None \notin Nat
  /\ MaxBlocks \in Nat /\ MaxPieces \in Nat /\ MaxWire \in Nat /\ ErrorThenDone \in BOOLEAN

VARIABLES
  route,
  up,      \* the upstream
  said,    \* what it has said
  wire,    \* events it has sent that are not read yet
  inward, outward,   \* the state of the converters
  pump,    \* ActiveHttpStream and the task that pumps
  frames,  \* the batch that is being collected or sent
  heard,   \* the client
  log      \* what is left behind when the task ends

upstream == <<up, said>>
vars == <<route, upstream, wire, inward, outward, pump, frames, heard, log>>

\* What was said, as far as every dialect can tell it: text and thinking without their
\* blocks, and the tool calls; in items also the order.
ToolCalled == [id : Nat, text : Seq(Nat)]
Content == [text : Seq(Nat), thinking : Seq(Nat), tools : Seq(ToolCalled), items : Seq(Item)]
NoContent == [text |-> <<>>, thinking |-> <<>>, tools |-> <<>>, items |-> <<>>]

Upstream == [pc : {"start", "open", "block", "over", "failed", "gone"}, kind : BlockKind \cup {"none"},
             blocks : Nat, pieces : Nat, why : Reason, complete : BOOLEAN, signed : Seq(Seq(Nat)),
             billed : BOOLEAN]
Pump == [pc : {"read", "convert", "send", "closing", "failover", "ended"},
         chunk : Seq(Event), mid : Seq(Event), error : BOOLEAN,
         committed : BOOLEAN, failed : BOOLEAN,
         waited : BOOLEAN,    \* the time limit of this batch has passed
         usage : Usage, capture : Capture]
Client == [on : BOOLEAN, open : OpenBlock, blocks : Nat, said : Content, final : Seq(Item),
           usage : Usage, why : Reason, end : {"no", "over", "error"},
           closed : BOOLEAN, gone : BOOLEAN, confused : BOOLEAN]
Log == [capture : Capture, usage : Usage, status : {0, 200, 502}]

Init ==
  /\ route \in Routes
  /\ up = [pc |-> "start", kind |-> "none", blocks |-> 0, pieces |-> 0, why |-> "none",
           complete |-> FALSE, signed |-> <<>>, billed |-> FALSE]
  /\ said = NoContent /\ wire = <<>>
  /\ inward = InwardInit /\ outward = OutwardInit
  /\ pump = [pc |-> "read", chunk |-> <<>>, mid |-> <<>>, error |-> FALSE, committed |-> FALSE,
             failed |-> FALSE, waited |-> FALSE, usage |-> NoUsage, capture |-> NoCapture]
  /\ frames = <<>>
  /\ heard = [on |-> FALSE, open |-> NoBlock, blocks |-> 0, said |-> NoContent, final |-> <<>>,
              usage |-> NoUsage, why |-> "none", end |-> "no",
              closed |-> FALSE, gone |-> FALSE, confused |-> FALSE]
  /\ log = [capture |-> NoCapture, usage |-> NoUsage, status |-> 0]

\* A tool call, or another block, begins; the n-th tool call, or the last block, goes on.
Begun(c, kind, id) ==
  [c EXCEPT !.tools = IF kind = "tool" THEN Append(@, [id |-> id, text |-> <<>>]) ELSE @,
            !.items = Append(@, [kind |-> kind, id |-> id, text |-> <<>>])]
More(c, kind, n, frag) ==
  CASE kind = "text" -> [c EXCEPT !.text = Append(@, frag)]
    [] kind = "thinking" -> [c EXCEPT !.thinking = Append(@, frag)]
    [] kind = "tool" -> [c EXCEPT !.tools[n].text = Append(@, frag)]
MoreOfLast(c, kind, frag) ==
  [More(c, kind, Len(c.tools), frag) EXCEPT !.items[Len(c.items)].text = Append(@, frag)]

-----------------------------------------------------------------------------
(* The upstream: any answer its dialect allows, in pieces.  It speaks while *)
(* the task reads; what it says meanwhile is read no sooner.               *)

Speaks(evs) ==
  /\ pump.pc = "read" /\ Len(wire) + Len(evs) <= MaxWire /\ wire' = wire \o evs
  /\ UNCHANGED <<route, inward, outward, pump, frames, heard, log>>

In(d) == route.up = d
bill == route.bill
ForDialect(chat, messages, responses) ==
  CASE In("chat") -> chat [] In("messages") -> messages [] In("responses") -> responses

\* messages reports the prompt at the start and the rest at the end.
PromptOf == IF bill = NoUsage THEN bill ELSE [bill EXCEPT !["output"] = 0]
OutputOf(whole) ==
  IF whole THEN bill ELSE [f \in UsageField |-> IF f = "output" THEN bill[f] ELSE None]

Begin ==
  /\ up.pc = "start" /\ up' = [up EXCEPT !.pc = "open", !.billed = In("messages")]
  /\ Speaks(ForDialect(<<Chunk("role")>>, <<MessageStart(PromptOf)>>,
                       <<Bare("response.created"), Bare("response.in_progress")>>))
  /\ UNCHANGED said

\* A chat answer shows its text and its thinking only piece by piece: two blocks of one kind
\* in a row would be one.
Open(kind) ==
  /\ up.pc = "open" /\ up.blocks < MaxBlocks
  /\ In("chat") /\ kind # "tool" => kind # up.kind
  /\ LET id == IF kind = "tool" THEN Len(said.tools) + 1 ELSE 0
     IN /\ up' = [up EXCEPT !.pc = "block", !.kind = kind, !.blocks = @ + 1]
        /\ said' = Begun(said, kind, id)
        /\ Speaks(ForDialect(IF kind = "tool" THEN <<ToolChunk(Len(said.tools), id, 0)>> ELSE <<>>,
                             <<BlockStart(up.blocks, kind, id)>>,
                             <<Added(up.blocks, kind, id)>>))

Piece ==
  /\ up.pc = "block" /\ up.pieces < MaxPieces
  /\ LET n == up.pieces + 1
         i == up.blocks - 1
     IN /\ up' = [up EXCEPT !.pieces = n]
        /\ said' = MoreOfLast(said, up.kind, n)
        /\ Speaks(ForDialect(IF up.kind = "tool" THEN <<ToolChunk(Len(said.tools) - 1, 0, n)>>
                             ELSE <<TextChunk(up.kind, n)>>,
                             <<BlockDelta(i, up.kind, n)>>, <<ItemDelta(i, up.kind, n)>>))

\* Chat has neither ends of blocks nor signatures, and no block of text or thinking without
\* a piece of it.
Shut(signed) ==
  /\ up.pc = "block" /\ (signed => up.kind = "thinking" /\ ~In("chat"))
  /\ In("chat") /\ up.kind # "tool" => said.items[up.blocks].text # <<>>
  /\ LET last == said.items[up.blocks]
         i == up.blocks - 1
         part == IF last.kind = "thinking" THEN <<>> ELSE <<PartDone(i, last.kind)>>
         mark == IF signed THEN <<BlockDelta(i, "signature", 0)>> ELSE <<>>
     IN /\ up' = [up EXCEPT !.pc = "open",
                            !.signed = IF signed THEN Append(@, last.text) ELSE @]
        /\ Speaks(ForDialect(<<>>, mark \o <<BlockStop(i)>>,
                             part \o <<ItemDone(i, last.kind, last.id, signed)>>))
  /\ UNCHANGED said

\* The reason is the dialect's own; a chat upstream may leave it out.
Reasons ==
  LET tools == said.tools # <<>>
  IN ForDialect({"none", "length", "content_filter", IF tools THEN "tool_calls" ELSE "stop"},
                {"max_tokens", "refusal", IF tools THEN "tool_use" ELSE "end_turn"}, {"none"})

End(why, whole) ==
  /\ up.pc = "open" /\ why \in Reasons /\ (~In("messages") \/ bill = NoUsage => whole)
  /\ up' = [up EXCEPT !.pc = "over", !.why = why, !.complete = TRUE, !.billed = TRUE]
  /\ Speaks(ForDialect((IF why = "none" THEN <<>> ELSE <<FinishChunk(why)>>)
                         \o (IF bill = NoUsage THEN <<>> ELSE <<UsageChunk(bill)>>) \o <<ChatDone>>,
                       <<MessageDelta(why, OutputOf(whole)), MessageStop>>,
                       <<Completed(said.items, bill)>>))
  /\ UNCHANGED said

\* An error instead of the rest.
Fail ==
  /\ up.pc \in {"start", "open", "block"} /\ up' = [up EXCEPT !.pc = "failed"]
  /\ \E done \in BOOLEAN, failed \in BOOLEAN :
       /\ done => ErrorThenDone
       /\ Speaks(ForDialect(<<Bare("error")>> \o IF done THEN <<ChatDone>> ELSE <<>>,
                            <<Bare("error")>>,
                            <<Bare(IF failed THEN "response.failed" ELSE "error")>>))
  /\ UNCHANGED said

\* The body ends, or the connection breaks and what was not read is lost.
Close ==
  /\ pump.pc = "read" /\ up.pc # "gone" /\ up' = [up EXCEPT !.pc = "gone"]
  /\ wire' \in {wire, <<>>}
  /\ UNCHANGED <<route, said, inward, outward, pump, frames, heard, log>>

-----------------------------------------------------------------------------
(* next_stream_batch *)

Frozen == UNCHANGED <<route, upstream, heard, log>>

\* Mutant of Read: every read begins the time limit anew.
ReadAnew ==
  /\ pump.pc = "read"
  /\ \E n \in 0 .. Len(wire) :
       /\ n = 0 => wire = <<>> /\ up.pc # "gone"
       /\ pump' = [pump EXCEPT !.pc = "convert", !.chunk = SubSeq(wire, 1, n), !.waited = FALSE]
       /\ wire' = SubSeq(wire, n + 1, Len(wire))
  /\ Frozen /\ UNCHANGED <<inward, outward, frames>>

\* One read yields any number of the events that were sent; a comment that keeps the
\* connection alive yields none.  It does not come when the limit has passed already.
Read ==
  /\ pump.pc = "read"
  /\ \E n \in 0 .. Len(wire) :
       /\ n = 0 => wire = <<>> /\ up.pc # "gone" /\ ~pump.waited
       /\ pump' = [pump EXCEPT !.pc = "convert", !.chunk = SubSeq(wire, 1, n)]
       /\ wire' = SubSeq(wire, n + 1, Len(wire))
  /\ Frozen /\ UNCHANGED <<inward, outward, frames>>

\* The limit of this batch, 60 seconds for the first and 300 for each later one, passes
\* while there is nothing to read.
Elapse ==
  /\ pump.pc \in {"read", "convert"} /\ ~pump.waited
  /\ wire = <<>> /\ pump.chunk = <<>> /\ pump.mid = <<>> /\ frames = <<>>
  /\ pump' = [pump EXCEPT !.waited = TRUE]
  /\ Frozen /\ UNCHANGED <<wire, inward, outward, frames>>

\* What a push adds to the batch.
Collect(y) ==
  [pump EXCEPT !.error = @ \/ y.error,
               !.usage = IF y.usage = NoUsage THEN @ ELSE y.usage,
               !.capture = IF y.capture = NoCapture THEN @ ELSE y.capture]

Passthrough == route.up = route.client
IsError(ev) == ev.e \in {"error", "response.failed"}
Ends(ev) == ev.e \in {"[DONE]", "message_stop", "response.completed", "response.failed"}

\* Everything as it is, but the end marker of chat is the transport's to write.  Usage is
\* noted along the way, and reported at the end.
Tapped(ev) ==
  CASE ev.e = "message_start" -> IF ev.usage = NoUsage THEN outward.usage ELSE ev.usage
    [] ev.e = "message_delta" -> MergeUsage(outward.usage, ev.usage)
    [] ev.e \in {"chunk", "response.completed"} /\ ev.usage # NoUsage -> Exclusive(ev.usage)
    [] OTHER -> outward.usage
PassedThrough(ev) ==
  LET note == [outward EXCEPT !.usage = Tapped(ev)]
  IN [Yield(note, (IF ev.e = "[DONE]" THEN <<>> ELSE <<ev>>)
                    \o (IF Ends(ev) THEN <<Done>> ELSE <<>>))
        EXCEPT !.error = IsError(ev), !.usage = IF Ends(ev) THEN note.usage ELSE NoUsage]

Pass ==
  /\ pump.pc = "convert" /\ pump.chunk # <<>> /\ Passthrough
  /\ LET y == PassedThrough(Head(pump.chunk))
     IN /\ pump' = [Collect(y) EXCEPT !.chunk = Tail(@)]
        /\ frames' = frames \o y.out /\ outward' = y.st
  /\ Frozen /\ UNCHANGED <<wire, inward>>

\* The first stage makes it messages.
Inwards ==
  /\ pump.pc = "convert" /\ pump.mid = <<>> /\ pump.chunk # <<>> /\ ~Passthrough
  /\ LET ev == Head(pump.chunk)
         y == CASE In("chat") -> ChatToMessages(inward, ev)
                [] In("responses") -> ResponsesToMessages(inward, ev)
                [] In("messages") -> Yield(inward, <<ev>>)
     IN /\ pump' = [Collect(y) EXCEPT !.chunk = Tail(@), !.mid = y.out]
        /\ inward' = y.st
  /\ Frozen /\ UNCHANGED <<wire, outward, frames>>

\* The second makes messages what the client speaks.
Outwards ==
  /\ pump.pc = "convert" /\ pump.mid # <<>>
  /\ LET ev == Head(pump.mid)
         end == IF ev.e = "message_stop" THEN <<Done>> ELSE <<>>
         y == CASE route.client = "messages" -> Yield(outward, <<ev>> \o end)
                [] route.client = "chat" -> MessagesToChat(outward, ev, route.include)
                [] route.client = "responses" -> MessagesToResponses(outward, ev)
     IN /\ pump' = [Collect(y) EXCEPT !.mid = Tail(@)]
        /\ frames' = frames \o y.out /\ outward' = y.st
  /\ Frozen /\ UNCHANGED <<wire, inward>>

-----------------------------------------------------------------------------
(* start_stream_response and the task it spawns *)

Apology == <<Bare("error"), Done>>
Converted == pump.pc = "convert" /\ pump.chunk = <<>> /\ pump.mid = <<>>
HasErrorEvent == \E k \in DOMAIN frames : IsError(frames[k])
Become(record) == pump' = record

\* Before the first event a failure is the next candidate's chance.
GiveUp ==
  /\ ~pump.committed /\ Become([pump EXCEPT !.pc = "failover"]) /\ frames' = <<>>

\* Mutant of Failed: the request is not marked as failed.
FailedUnmarked ==
  /\ Converted /\ pump.error
  /\ \/ GiveUp
     \/ /\ pump.committed
        /\ Become([pump EXCEPT !.pc = "send"])
        /\ frames' = frames \o IF HasErrorEvent THEN <<Done>> ELSE Apology
  /\ Frozen /\ UNCHANGED <<wire, inward, outward>>

\* An error event was converted: the batch is sent, then the client is told, unless the
\* batch tells it.
Failed ==
  /\ Converted /\ pump.error
  /\ \/ GiveUp
     \/ /\ pump.committed
        /\ Become([pump EXCEPT !.pc = "send", !.failed = TRUE])
        /\ frames' = frames \o IF HasErrorEvent THEN <<Done>> ELSE Apology
  /\ Frozen /\ UNCHANGED <<wire, inward, outward>>

\* Nothing to send yet: the time limit goes on.
Fruitless ==
  /\ Converted /\ ~pump.error /\ frames = <<>> /\ Become([pump EXCEPT !.pc = "read"])
  /\ Frozen /\ UNCHANGED <<wire, inward, outward, frames>>

\* The first batch commits the request to this upstream, if there is an event in it.
Fruitful ==
  /\ Converted /\ ~pump.error /\ frames # <<>>
  /\ IF pump.committed \/ \E k \in DOMAIN frames : frames[k] # Done
     THEN Become([pump EXCEPT !.pc = "send", !.committed = TRUE]) /\ UNCHANGED frames
     ELSE GiveUp
  /\ Frozen /\ UNCHANGED <<wire, inward, outward>>

\* The body ended or broke off before the end of the answer, or the limit has passed.
Broken ==
  /\ pump.pc = "read" /\ wire = <<>> /\ (up.pc = "gone" \/ pump.waited)
  /\ \/ GiveUp
     \/ /\ pump.committed
        /\ Become([pump EXCEPT !.pc = "send", !.failed = TRUE]) /\ frames' = Apology
  /\ Frozen /\ UNCHANGED <<wire, inward, outward>>

-----------------------------------------------------------------------------
(* The client *)

\* What its dialect allows next: blocks numbered in order and one at a time, each piece in
\* the block it names, and no end while a block is open.
Named(f) == [kind |-> f.kind, i |-> f.i]
MayGoOn(f) == IF f.kind = "signature" THEN heard.open = [Named(f) EXCEPT !.kind = "thinking"]
              ELSE heard.open = Named(f)
Under(f) ==
  \/ f.e \in {"content_block_start", "response.output_item.added"}
       /\ heard.open = NoBlock /\ f.i = heard.blocks
  \/ f.e \in {"content_block_delta", "response.delta"} /\ MayGoOn(f)
  \/ f.e \in {"content_block_stop", "response.done", "response.output_item.done"}
       /\ heard.open # NoBlock /\ heard.open.i = f.i
  \/ f.e \in {"message_delta", "message_stop", "response.completed"} /\ heard.open = NoBlock
ChatAllows(f) ==
  \/ f.kind \in {"role", "usage"}
  \/ f.kind \in {"text", "thinking", "finish"} /\ heard.why = "none"
  \/ /\ f.kind = "tool" /\ heard.why = "none"
     /\ IF f.id # 0 THEN f.i = Len(heard.said.tools) ELSE f.i < Len(heard.said.tools)
Allows(f) ==
  \/ f.e \in {"error", "response.failed", "ping", "Done", "response.in_progress"}
  \/ f.e \in {"message_start", "response.created"} /\ ~heard.on
  \/ heard.on /\ heard.end = "no" /\ Under(f)
  \/ f.e = "chunk" /\ heard.end = "no" /\ ChatAllows(f)

ReadChunk(f) ==
  CASE f.kind \in {"text", "thinking"} -> [heard EXCEPT !.said = More(@, f.kind, 0, f.frag)]
    [] f.kind = "tool" /\ f.id # 0 ->
         [heard EXCEPT !.said.tools = Append(@, [id |-> f.id, text |-> <<>>])]
    [] f.kind = "tool" /\ f.id = 0 -> [heard EXCEPT !.said = More(@, "tool", f.i + 1, f.frag)]
    [] f.kind = "finish" -> [heard EXCEPT !.why = f.why]
    [] f.kind = "usage" -> [heard EXCEPT !.usage = f.usage]
    [] OTHER -> heard

\* What the client makes of it.  A chat answer is over at its [DONE].
ReadFrame(f) ==
  CASE f.e = "chunk" -> ReadChunk(f)
    [] f.e \in {"message_start", "response.created"} ->
         [heard EXCEPT !.on = TRUE, !.usage = f.usage]
    [] f.e \in {"content_block_start", "response.output_item.added"} ->
         [heard EXCEPT !.open = [kind |-> f.kind, i |-> f.i], !.blocks = @ + 1,
                       !.said = Begun(@, f.kind, f.id)]
    [] f.e \in {"content_block_delta", "response.delta"} /\ f.kind # "signature" ->
         [heard EXCEPT !.said = MoreOfLast(@, f.kind, f.frag)]
    [] f.e \in {"content_block_stop", "response.output_item.done"} ->
         [heard EXCEPT !.open = NoBlock]
    [] f.e = "message_delta" ->
         [heard EXCEPT !.why = f.why, !.usage = MergeUsage(@, f.usage)]
    [] f.e = "message_stop" -> [heard EXCEPT !.end = "over"]
    [] f.e = "response.completed" ->
         [heard EXCEPT !.end = "over", !.usage = f.usage, !.final = f.items]
    [] IsError(f) -> [heard EXCEPT !.end = "error"]
    [] f.e = "Done" -> [heard EXCEPT !.closed = TRUE,
                                     !.end = IF @ = "no" /\ route.client = "chat" THEN "over" ELSE @]
    [] OTHER -> heard

\* After an error a client reads nothing but the end.
Hears(f) ==
  IF heard.end = "error" /\ f # Done THEN heard
  ELSE IF Allows(f) THEN ReadFrame(f) ELSE [heard EXCEPT !.confused = TRUE]

\* Frames go out one by one, up to the first end; a client that is gone ends the task.
Send ==
  /\ pump.pc = "send" /\ frames # <<>> /\ ~heard.gone
  /\ LET f == Head(frames)
     IN /\ heard' = Hears(f)
        /\ IF f = Done
           THEN Become([pump EXCEPT !.pc = "closing"]) /\ frames' = <<>>
           ELSE UNCHANGED pump /\ frames' = Tail(frames)
  /\ UNCHANGED <<route, upstream, wire, inward, outward, log>>

SendFails ==
  /\ pump.pc = "send" /\ frames # <<>> /\ heard.gone
  /\ Become([pump EXCEPT !.pc = "closing"]) /\ frames' = <<>>
  /\ Frozen /\ UNCHANGED <<wire, inward, outward>>

\* The batch is out; the next one has a time limit of its own.
Sent ==
  /\ pump.pc = "send" /\ frames = <<>>
  /\ Become([pump EXCEPT !.pc = "read", !.waited = FALSE])
  /\ Frozen /\ UNCHANGED <<wire, inward, outward, frames>>

\* What the task leaves: the signatures of the turn, and its usage.
Settle ==
  /\ pump.pc = "closing" /\ Become([pump EXCEPT !.pc = "ended"])
  /\ log' = [capture |-> pump.capture, usage |-> pump.usage,
             status |-> IF pump.usage = NoUsage THEN 0 ELSE IF pump.failed THEN 502 ELSE 200]
  /\ UNCHANGED <<route, upstream, wire, inward, outward, frames, heard>>

\* The client goes away, which the task sees when it sends; a request that is not
\* committed is dropped with its handler.
Leave ==
  /\ ~heard.gone /\ pump.pc \in {"read", "send"}
  /\ heard' = [heard EXCEPT !.gone = TRUE]
  /\ IF pump.committed THEN UNCHANGED <<pump, frames>>
     ELSE Become([pump EXCEPT !.pc = "ended"]) /\ frames' = <<>>
  /\ UNCHANGED <<route, upstream, wire, inward, outward, log>>

-----------------------------------------------------------------------------
(* The specification *)

Says ==
  \/ Begin \/ Piece \/ Fail \/ Close
  \/ \E kind \in BlockKind : Open(kind)
  \/ \E signed \in BOOLEAN : Shut(signed)
  \/ \E why \in Reason, whole \in BOOLEAN : End(why, whole)
Pumps ==
  \/ Read \/ Pass \/ Inwards \/ Outwards \/ Failed \/ Fruitless \/ Fruitful \/ Broken
  \/ Send \/ SendFails \/ Sent \/ Settle
Next == Says \/ Pumps \/ Elapse \/ Leave

Spec == Init /\ [][Next]_vars

\* The task runs, the client reads or is found gone, and time passes.
FairSpec == Spec /\ WF_vars(Pumps) /\ WF_vars(Elapse)

-----------------------------------------------------------------------------
(* Properties *)

TypeOK ==
  /\ route \in Routes
  /\ up \in Upstream /\ said \in Content /\ wire \in Seq(Event)
  /\ inward \in Inward /\ IsOutward(outward) /\ pump \in Pump
  /\ frames \in Seq(Event) /\ heard \in Client /\ log \in Log

\* Whatever two dialects meet, and wherever the stream is cut, fails or ends, the client is
\* never sent what its own dialect forbids, and no stream is closed without a word on how it
\* ended (the four converters, stream_error_frame, send_stream_frames).
WellFormed == ~heard.confused /\ (heard.closed => heard.end # "no")

\* The client has heard a beginning of what the upstream has said: text, thinking, and each
\* tool call under its own id, with no piece lost, doubled, moved or given to another call;
\* and once it is told that the answer is over, it has all of it, in response.completed too,
\* and knows whether tools are to be run (push_event of the four converters).
SameReason ==
  CASE route.client = "chat" ->
         heard.why =
           IF In("chat") THEN up.why
           ELSE IF In("messages") THEN StopToFinish(up.why)
           ELSE IF said.tools # <<>> THEN "tool_calls" ELSE "stop"
    [] route.client = "messages" ->
         heard.why =
           IF In("messages") THEN up.why
           ELSE IF In("chat") /\ up.why # "none" THEN FinishToStop(up.why)
           ELSE IF said.tools # <<>> THEN "tool_use" ELSE "end_turn"
    [] route.client = "responses" -> TRUE
ContentIsKept ==
  /\ IsPrefix(heard.said.text, said.text) /\ IsPrefix(heard.said.thinking, said.thinking)
  /\ Len(heard.said.tools) <= Len(said.tools)
  /\ \A k \in DOMAIN heard.said.tools :
       /\ heard.said.tools[k].id = said.tools[k].id
       /\ IsPrefix(heard.said.tools[k].text, said.tools[k].text)
  /\ heard.end = "over" =>
       /\ [heard.said EXCEPT !.items = said.items] = said /\ SameReason
       /\ route.client = "responses" => heard.final = said.items

\* A client that has heard anything and waits for the end is told the truth about it: that
\* the answer is over only if the upstream has completed it, that it failed otherwise; and
\* the request is logged accordingly (the task of start_stream_response).
FailureIsTold ==
  /\ heard.end = "over" => up.complete
  /\ log.status = 200 /\ heard.closed => heard.end = "over"
  /\ log.status = 502 /\ heard.closed => heard.end = "error"

\* What is kept for the next turn and for the account is what the upstream has said and
\* reported: signed thinking is stored whole and with every tool call of its turn, or not at
\* all, and a turn that has both and is converted is stored; usage is logged, and told to the
\* client, in the convention of each, nothing of it lost on the way (the captures, usage.rs).
Told(usage) == [f \in UsageField |-> Count(usage[f])]
Billed == IF In("messages") THEN Told(bill) ELSE Exclusive(bill)
Calls == [k \in DOMAIN said.tools |-> said.tools[k].id]
Captures == ~Passthrough /\ route.client # "messages"
AccountIsTrue ==
  /\ log.capture \in {NoCapture, [thinking |-> up.signed, ids |-> Calls]}
  /\ pump.pc = "ended" /\ heard.end = "over" =>
       /\ Captures /\ up.signed # <<>> /\ Calls # <<>> => log.capture # NoCapture
       /\ Told(log.usage) = Billed
       /\ Told(heard.usage) =
            IF Passthrough THEN Told(bill)
            ELSE IF bill = NoUsage \/ (route.client = "chat" /\ ~route.include) THEN ZeroUsage
            ELSE IF route.client = "messages" THEN Billed ELSE Totals(Billed)

\* Every stream comes to an end, whatever the upstream does or stops doing; comments that
\* keep its connection alive do not keep the request alive (next_stream_batch).
StreamEnds == <>(pump.pc \in {"ended", "failover"})
=============================================================================
