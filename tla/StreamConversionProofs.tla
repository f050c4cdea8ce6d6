----------------------- MODULE StreamConversionProofs -----------------------
(* Theorems about StreamConversion, for any routes and bounds: what the client is told is *)
(* what the upstream said.                                                                *)
EXTENDS StreamTalesProofs

-----------------------------------------------------------------------------
(* The upstream's tale *)

SameBill(usage) == ((usage = NoUsage) <=> (bill = NoUsage)) /\ Told(usage) = Told(bill)

\* The tale t of all that the upstream has sent.  A chat upstream that has begun a block of
\* text or thinking has not told of it before its first piece.
UnderWay(t) ==
  /\ t.pc = IF In("chat") THEN "open" ELSE up.pc
  /\ t.signed = up.signed /\ ~t.marked
  /\ t.usage = IF In("messages") THEN PromptOf ELSE NoUsage
  /\ \/ t.c = said /\ t.kind = up.kind
     \/ /\ In("chat") /\ up.pc = "block" /\ up.kind # "tool" /\ t.kind # up.kind
        /\ said = Begun(t.c, up.kind, 0)
Whole(t) ==
  /\ up.complete /\ t.c = said /\ t.why = up.why /\ t.signed = up.signed
  /\ SameBill(t.usage) /\ (~In("messages") => t.usage = bill)
Source(t) ==
  /\ Beginning(t.c, said) /\ t.pc # "closed"
  /\ t.pc \in Ended => Whole(t)
  /\ up.pc = "start" => t = Untold /\ said = NoContent /\ up.kind = "none" /\ up.signed = <<>>
  /\ up.pc \in {"open", "block"} => UnderWay(t)

UpstreamTells(t) ==
  \E evs \in Seq(Msg), v \in Tale :
    Speaks(evs) /\ Along(route.up, route.up, t, evs, v) /\ Source(v)'

LEMMA UntoldIsTale == Untold \in Tale
<1>1. <<>> \in Seq(Nat) /\ <<>> \in Seq(ToolCalled) /\ <<>> \in Seq(Item) /\ <<>> \in Seq(Seq(Nat))
  BY TuplesAreSeqs
<1>2. NoContent \in Content
  BY <1>1 DEF NoContent, Content
<1>3. Untold \in TaleRecord
  BY <1>1, <1>2, NoUsageIsUsage DEF Untold, TaleRecord, Reason
<1>4. Len(Untold.c.items) = 0 /\ DOMAIN Untold.c.items = {}
  BY DEF Untold, NoContent
<1>5. Sound(Untold)
  BY <1>4 DEF Sound, Untold
<1> QED BY <1>3, <1>5 DEF Tale

LEMMA SourceParts ==
  ASSUME TypeInv
  PROVE  /\ route.up \in Dialect /\ up \in Upstream /\ said \in Content
         /\ (route.up = "chat" \/ route.up = "messages" \/ route.up = "responses")
         /\ up.blocks \in Nat /\ up.blocks = Len(said.items) /\ Len(said.tools) \in Nat
         /\ bill \in Usage /\ PromptOf \in Usage /\ None \notin Nat
         /\ Msg \subseteq Frame
<1>1. bill \in Usage /\ PromptOf \in Usage
  BY TypeInvParts DEF PromptOf, Usage
<1> QED BY <1>1, TypeInvParts, RouteIsRoute, MsgIsEvent DEF Dialect

LEMMA UnderWayNext ==
  ASSUME NEW v, route' = route, up'.pc \in {"open", "block"}, Beginning(v.c, said'),
         v.pc = IF In("chat") THEN "open" ELSE up'.pc, v.signed = up'.signed, ~v.marked,
         v.usage = IF In("messages") THEN PromptOf ELSE NoUsage,
         \/ v.c = said' /\ v.kind = up'.kind
         \/ /\ In("chat") /\ up'.pc = "block" /\ up'.kind # "tool" /\ v.kind # up'.kind
            /\ said' = Begun(v.c, up'.kind, 0)
  PROVE  Source(v)'
<1>1. PromptOf' = PromptOf /\ (In("chat"))' = In("chat") /\ (In("messages"))' = In("messages")
  BY DEF PromptOf, bill, In
<1>2. UnderWay(v)'
  BY <1>1 DEF UnderWay
<1>3. v.pc \in {"open", "block"}
  OBVIOUS
<1> QED BY <1>2, <1>3 DEF Source, Ended

LEMMA TellsOn ==
  ASSUME NEW t, NEW evs \in Seq(Msg), Speaks(evs), NEW v \in Tale,
         Along(route.up, route.up, t, evs, v), Source(v)'
  PROVE  UpstreamTells(t)
BY DEF UpstreamTells

LEMMA TellsNext ==
  ASSUME NEW t \in Tale, NEW f \in Msg, Speaks(<<f>>), NEW v \in Tale,
         Goes(route.up, route.up, t, f, v), Source(v)'
  PROVE  UpstreamTells(t)
BY AlongOne, TuplesAreSeqs, TellsOn

LEMMA ForDialectIs ==
  ASSUME NEW a, NEW b, NEW c
  PROVE  /\ route.up = "chat" => ForDialect(a, b, c) = a
         /\ route.up = "messages" => ForDialect(a, b, c) = b
         /\ route.up = "responses" => ForDialect(a, b, c) = c
BY DEF ForDialect, In

LEMMA AlongPair ==
  ASSUME NEW u, NEW d, NEW f, NEW g, NEW a \in Tale, NEW b \in Tale, NEW c \in Tale,
         Goes(u, d, a, f, b), Goes(u, d, b, g, c)
  PROVE  Along(u, d, a, <<f, g>>, c)
<1>1. <<f>> \in Seq({f, g}) /\ <<g>> \in Seq({f, g})
  OBVIOUS
<1> QED BY <1>1, AlongOne, AlongJoin, PairJoined

LEMMA BeginTells ==
  ASSUME TypeInv, Begin, NEW t \in Tale, Source(t)
  PROVE  UpstreamTells(t)
<1>1. /\ t = Untold /\ up.pc = "start" /\ said' = said /\ route' = route /\ said = NoContent
      /\ up.kind = "none" /\ up.signed = <<>>
      /\ up' = [up EXCEPT !.pc = "open", !.billed = In("messages")]
  BY DEF Begin, Source, Speaks
<1>2. /\ t.pc = "start" /\ ~t.marked /\ t.c = NoContent /\ t.kind = "none" /\ t.signed = <<>>
      /\ t.usage = NoUsage
  BY <1>1 DEF Untold
<1>3. up'.pc = "open" /\ up'.kind = "none" /\ up'.signed = <<>>
  BY <1>1, SourceParts DEF Upstream
<1>4. Beginning(t.c, t.c)
  BY TaleParts, BeginningItself
<1>5. CASE route.up = "chat"
  <2>1. Speaks(<<Chunk("role")>>) /\ Chunk("role") \in Msg
    BY <1>2, <1>5, ForDialectIs, TellersAre, RoleIs DEF Begin
  <2>2. PICK v \in Tale :
          /\ Goes("chat", "chat", t, Chunk("role"), v)
          /\ v.pc = "open" /\ v.c = t.c /\ v.kind = t.kind /\ v.signed = t.signed
          /\ v.marked = t.marked /\ v.usage = t.usage
    BY <1>2, TellersAre, TellersAre, RoleIs
  <2>3. Source(v)'
    BY <1>1, <1>2, <1>3, <1>4, <1>5, <2>2, UnderWayNext DEF In
  <2> QED BY <1>5, <2>1, <2>2, <2>3, TellsNext
<1>6. CASE route.up = "messages"
  <2>0. PICK usage \in Usage : usage = PromptOf
    BY SourceParts
  <2>1. Speaks(<<MessageStart(usage)>>)
    BY <1>6, <2>0, ForDialectIs DEF Begin
  <2>2. /\ MessageStart(usage) \in Msg
        /\ \E v \in Tale :
             /\ Goes("messages", "messages", t, MessageStart(usage), v)
             /\ v.pc = "open" /\ v.c = t.c /\ v.kind = t.kind /\ v.signed = t.signed
             /\ v.marked = t.marked /\ v.usage = usage
    BY <1>2, TellersAre, StartIs
  <2>2a. PICK v \in Tale :
          /\ Goes("messages", "messages", t, MessageStart(usage), v)
          /\ v.pc = "open" /\ v.c = t.c /\ v.kind = t.kind /\ v.signed = t.signed
          /\ v.marked = t.marked /\ v.usage = PromptOf
    BY <2>0, <2>2
  <2>3. Source(v)'
    BY <1>1, <1>2, <1>3, <1>4, <1>6, <2>2a, UnderWayNext DEF In
  <2> QED BY <1>6, <2>1, <2>2, <2>2a, <2>3, TellsNext
<1>7. CASE route.up = "responses"
  <2>1. PICK v \in Tale :
          /\ Goes("responses", "responses", t, Bare("response.created"), v)
          /\ v.pc = "open" /\ v.c = t.c /\ v.kind = t.kind /\ v.signed = t.signed
          /\ v.marked = t.marked /\ v.usage = NoUsage
    BY <1>2, TellersAre, CreatedIs
  <2>2. Along("responses", "responses", t,
              <<Bare("response.created"), Bare("response.in_progress")>>, v)
    BY <2>1, TellersAre, InProgressIs, AlongPair
  <2>3. Speaks(<<Bare("response.created"), Bare("response.in_progress")>>)
    BY <1>7, ForDialectIs DEF Begin
  <2>4. Bare("response.created") \in Msg /\ Bare("response.in_progress") \in Msg
    BY <1>2, <2>1, TellersAre, CreatedIs, InProgressIs
  <2>5. Source(v)'
    BY <1>1, <1>2, <1>3, <1>4, <1>7, <2>1, UnderWayNext DEF In
  <2> QED BY <1>7, <2>1, <2>2, <2>3, <2>4, <2>5, TuplesAreSeqs, TellsOn
<1> QED BY <1>5, <1>6, <1>7, SourceParts

LEMMA UnderWayIs ==
  ASSUME TypeInv, NEW t \in Tale, Source(t), up.pc \in {"open", "block"}
  PROVE  /\ t.signed = up.signed /\ ~t.marked /\ t.usage = IF In("messages") THEN PromptOf ELSE NoUsage
         /\ t.pc = IF In("chat") THEN "open" ELSE up.pc
         /\ Beginning(t.c, said)
         /\ \/ t.c = said /\ t.kind = up.kind
            \/ /\ In("chat") /\ up.pc = "block" /\ up.kind # "tool" /\ t.kind # up.kind
               /\ said = Begun(t.c, up.kind, 0)
BY DEF Source, UnderWay

LEMMA OpenTells ==
  ASSUME TypeInv, NEW kind \in BlockKind, Open(kind), NEW t \in Tale, Source(t)
  PROVE  UpstreamTells(t)
<1>1. PICK id \in Nat : id = IF kind = "tool" THEN Len(said.tools) + 1 ELSE 0
  BY SourceParts
<1>2. /\ up.pc = "open" /\ route' = route
      /\ up' = [up EXCEPT !.pc = "block", !.kind = kind, !.blocks = @ + 1]
      /\ said' = Begun(said, kind, id)
      /\ In("chat") /\ kind # "tool" => kind # up.kind
  BY <1>1 DEF Open, Speaks
<1>3. /\ t.pc = "open" /\ t.c = said /\ t.kind = up.kind /\ t.signed = up.signed /\ ~t.marked
      /\ t.usage = IF In("messages") THEN PromptOf ELSE NoUsage
  BY <1>2, UnderWayIs
<1>4. up'.pc = "block" /\ up'.kind = kind /\ up'.signed = up.signed
  BY <1>2, SourceParts DEF Upstream
<1>5. said' \in Content /\ Beginning(said, said') /\ Beginning(said', said')
  BY <1>2, SourceParts, BegunIs, BeginningItself
<1>6. /\ up.blocks = t.n /\ t.n \in Nat /\ IF kind = "tool" THEN id # 0 ELSE id = 0
  BY <1>1, <1>3, SourceParts, TaleParts
<1>9. CASE route.up = "chat" /\ kind # "tool"
  <2>1. Speaks(<<>>)
    BY <1>9, ForDialectIs DEF Open
  <2>2. Along("chat", "chat", t, <<>>, t)
    BY AlongNone
  <2>3. Source(t)'
    BY <1>2, <1>3, <1>4, <1>5, <1>6, <1>9, UnderWayNext DEF In
  <2>4. <<>> \in Seq(Msg)
    OBVIOUS
  <2> QED BY <1>9, <2>1, <2>2, <2>3, <2>4, TellsOn
<1>10. CASE route.up = "chat" /\ kind = "tool"
  <2>0. PICK i : i = ToolsOf(t)
    OBVIOUS
  <2> DEFINE f == ToolChunk(i, id, 0)
  <2>1. Speaks(<<f>>)
    BY <1>1, <1>3, <1>10, <2>0, ForDialectIs DEF Open, ToolsOf
  <2>1a. id # 0 /\ t.pc = "open"
    BY <1>3, <1>6, <1>10
  <2>2. /\ f \in Msg
        /\ \E v \in Tale :
          /\ Goes("chat", "chat", t, f, v)
          /\ v.pc = t.pc /\ v.kind = "tool" /\ v.n = t.n + 1 /\ v.c = Begun(t.c, "tool", id)
          /\ v.why = t.why /\ v.usage = t.usage /\ v.marked = t.marked /\ v.signed = t.signed
    BY <2>0, <2>1a, TellersAre, ToolChunkIs
  <2>3. PICK v \in Tale :
          /\ Goes("chat", "chat", t, f, v)
          /\ v.pc = t.pc /\ v.kind = "tool" /\ v.n = t.n + 1 /\ v.c = Begun(t.c, "tool", id)
          /\ v.why = t.why /\ v.usage = t.usage /\ v.marked = t.marked /\ v.signed = t.signed
    BY <2>2
  <2>4. Source(v)'
    BY <1>2, <1>3, <1>4, <1>5, <1>10, <2>3, UnderWayNext DEF In
  <2> QED BY <1>10, <2>1, <2>2, <2>3, <2>4, TellsNext
<1>13. CASE route.up = "messages"
  <2>0. PICK i : i = up.blocks
    OBVIOUS
  <2> DEFINE f == BlockStart(i, kind, id)
  <2>1. Speaks(<<f>>)
    BY <1>1, <1>13, <2>0, ForDialectIs DEF Open
  <2>2. f \in Msg
    BY <1>3, <1>6, <2>0, TellersAre, BlockStartIs
  <2>3. PICK v \in Tale :
          /\ Goes("messages", "messages", t, f, v)
          /\ v.pc = "block" /\ v.c = Begun(t.c, kind, id) /\ v.kind = kind
          /\ v.signed = t.signed /\ v.marked = t.marked /\ v.usage = t.usage
    BY <1>3, <1>6, <2>0, TellersAre, BlockStartIs
  <2>4. Source(v)'
    BY <1>2, <1>3, <1>4, <1>5, <1>13, <2>3, UnderWayNext DEF In
  <2> QED BY <1>13, <2>1, <2>2, <2>3, <2>4, TellsNext
<1>14. CASE route.up = "responses"
  <2>0. PICK i : i = up.blocks
    OBVIOUS
  <2> DEFINE f == Added(i, kind, id)
  <2>1. Speaks(<<f>>)
    BY <1>1, <1>14, <2>0, ForDialectIs DEF Open
  <2>2. f \in Msg
    BY <1>3, <1>6, <2>0, TellersAre, AddedIs
  <2>3. PICK v \in Tale :
          /\ Goes("responses", "responses", t, f, v)
          /\ v.pc = "block" /\ v.c = Begun(t.c, kind, id) /\ v.kind = kind
          /\ v.signed = t.signed /\ v.marked = t.marked /\ v.usage = t.usage
    BY <1>3, <1>6, <2>0, TellersAre, AddedIs
  <2>4. Source(v)'
    BY <1>2, <1>3, <1>4, <1>5, <1>14, <2>3, UnderWayNext DEF In
  <2> QED BY <1>14, <2>1, <2>2, <2>3, <2>4, TellsNext
<1> QED BY <1>9, <1>10, <1>13, <1>14, SourceParts

LEMMA PieceTells ==
  ASSUME TypeInv, Piece, NEW t \in Tale, Source(t)
  PROVE  UpstreamTells(t)
<1>1. PICK n \in Nat : n = up.pieces + 1 /\ n # 0
  BY TypeInvParts
<1>1a. n # 0
  BY <1>1
<1>2. PICK kind \in BlockKind : kind = up.kind /\ (kind = "tool" => said.tools # <<>>)
  BY DEF TypeInv, SaidInv, Piece
<1>3. PICK i \in Nat : i = up.blocks - 1 /\ i + 1 = up.blocks
  BY SourceParts DEF TypeInv, SaidInv, Piece
<1>4. /\ up.pc = "block" /\ route' = route /\ up' = [up EXCEPT !.pieces = n]
      /\ said' = MoreOfLast(said, kind, n)
  BY <1>1, <1>2 DEF Piece, Speaks
<1>5. up'.pc = "block" /\ up'.kind = kind /\ up'.signed = up.signed
  BY <1>2, <1>4, SourceParts DEF Upstream
<1>6. said.items # <<>>
  BY <1>3, SourceParts
<1>7. said' \in Content /\ Beginning(said, said') /\ Beginning(said', said')
  BY <1>2, <1>4, <1>6, SourceParts, MoreOfLastIs, BeginningItself
<1>8. /\ t.signed = up.signed /\ ~t.marked /\ t.pc = IF In("chat") THEN "open" ELSE "block"
      /\ t.usage = IF In("messages") THEN PromptOf ELSE NoUsage
      /\ \/ t.c = said /\ t.kind = kind
         \/ In("chat") /\ kind # "tool" /\ t.kind # kind /\ said = Begun(t.c, kind, 0)
  BY <1>2, <1>4, UnderWayIs
<1>9. CASE route.up = "chat" /\ kind # "tool"
  <2>1. PICK f : f = TextChunk(kind, n)
    OBVIOUS
  <2>2. Speaks(<<f>>)
    BY <1>1, <1>2, <1>9, <2>1, ForDialectIs DEF Piece
  <2>3. kind \in {"text", "thinking"} /\ t.pc = "open"
    BY <1>8, <1>9 DEF In, BlockKind
  <2>4. ASSUME t.kind = kind
        PROVE  \E v \in Tale :
                 /\ f \in Msg /\ Goes("chat", "chat", t, f, v)
                 /\ v.pc = t.pc /\ v.kind = kind /\ v.c = said'
                 /\ v.usage = t.usage /\ v.marked = t.marked /\ v.signed = t.signed
    <3>1. /\ f \in Msg
          /\ \E v \in Tale :
               /\ Goes("chat", "chat", t, f, v)
               /\ v.pc = t.pc /\ v.kind = kind /\ v.n = t.n /\ v.c = MoreOfLast(t.c, kind, n)
               /\ v.why = t.why /\ v.usage = t.usage /\ v.marked = t.marked
               /\ v.signed = t.signed
      BY <1>1a, <2>1, <2>3, <2>4, TellersAre, TextMoreIs
    <3>2. said' = MoreOfLast(t.c, kind, n)
      BY <1>4, <1>8, <2>4
    <3> QED BY <3>1, <3>2
  <2>5. ASSUME t.kind # kind
        PROVE  \E v \in Tale :
                 /\ f \in Msg /\ Goes("chat", "chat", t, f, v)
                 /\ v.pc = t.pc /\ v.kind = kind /\ v.c = said'
                 /\ v.usage = t.usage /\ v.marked = t.marked /\ v.signed = t.signed
    <3>1. /\ f \in Msg
          /\ \E v \in Tale :
               /\ Goes("chat", "chat", t, f, v)
               /\ v.pc = t.pc /\ v.kind = kind /\ v.n = t.n + 1
               /\ v.c = MoreOfLast(Begun(t.c, kind, 0), kind, n)
               /\ v.why = t.why /\ v.usage = t.usage /\ v.marked = t.marked
               /\ v.signed = t.signed
      BY <1>1a, <2>1, <2>3, <2>5, TellersAre, TextBeginsIs
    <3>2. said' = MoreOfLast(Begun(t.c, kind, 0), kind, n)
      BY <1>4, <1>8, <2>5
    <3> QED BY <3>1, <3>2
  <2>6. PICK v \in Tale :
          /\ f \in Msg /\ Goes("chat", "chat", t, f, v)
          /\ v.pc = t.pc /\ v.kind = kind /\ v.c = said'
          /\ v.usage = t.usage /\ v.marked = t.marked /\ v.signed = t.signed
    BY <2>4, <2>5
  <2>7. Source(v)'
    BY <1>4, <1>5, <1>7, <1>8, <1>9, <2>3, <2>6, UnderWayNext DEF In
  <2> QED BY <1>9, <2>2, <2>6, <2>7, TellsNext
<1>10. CASE route.up = "chat" /\ kind = "tool"
  <2>0. t.pc = "open" /\ t.c = said /\ t.kind = "tool"
    BY <1>8, <1>10 DEF In
  <2>1. PICK j \in Nat : j = Len(said.tools) - 1
    BY <1>2, <1>10, SourceParts
  <2>1a. j + 1 = ToolsOf(t)
    BY <2>0, <2>1, SourceParts DEF ToolsOf
  <2>2. PICK f : f = ToolChunk(j, 0, n)
    OBVIOUS
  <2>3. Speaks(<<f>>)
    BY <1>1, <1>2, <1>10, <2>1, <2>2, ForDialectIs DEF Piece
  <2>4. /\ f \in Msg
        /\ \E v \in Tale :
             /\ Goes("chat", "chat", t, f, v)
             /\ v.pc = t.pc /\ v.kind = t.kind /\ v.n = t.n
             /\ v.c = MoreOfLast(t.c, "tool", n) /\ v.why = t.why /\ v.usage = t.usage
             /\ v.marked = t.marked /\ v.signed = t.signed
    BY <1>1a, <2>0, <2>1a, <2>2, TellersAre, ToolPieceIs, SMTT(30)
  <2>5. PICK v \in Tale :
          /\ Goes("chat", "chat", t, f, v)
          /\ v.pc = t.pc /\ v.kind = t.kind /\ v.c = MoreOfLast(t.c, "tool", n)
          /\ v.usage = t.usage /\ v.marked = t.marked /\ v.signed = t.signed
    BY <2>4
  <2>6. v.c = said'
    BY <1>4, <1>10, <2>0, <2>5
  <2>7. Source(v)'
    BY <1>4, <1>5, <1>7, <1>8, <1>10, <2>0, <2>5, <2>6, UnderWayNext DEF In
  <2> QED BY <1>10, <2>3, <2>4, <2>5, <2>7, TellsNext
<1>11. CASE route.up = "messages"
  <2>0. t.pc = "block" /\ t.c = said /\ kind = t.kind /\ i + 1 = t.n
    BY <1>3, <1>8, <1>11, SourceParts, TaleParts DEF In
  <2>1. PICK f : f = BlockDelta(i, kind, n)
    OBVIOUS
  <2>2. Speaks(<<f>>)
    BY <1>1, <1>2, <1>3, <1>11, <2>1, ForDialectIs DEF Piece
  <2>3. /\ f \in Msg
        /\ \E v \in Tale :
             /\ Goes("messages", "messages", t, f, v)
             /\ v.pc = t.pc /\ v.kind = t.kind /\ v.n = t.n
             /\ v.c = MoreOfLast(t.c, kind, n) /\ v.why = t.why /\ v.usage = t.usage
             /\ v.marked = t.marked /\ v.signed = t.signed
    BY <1>1a, <2>0, <2>1, TellersAre, BlockDeltaIs
  <2>4. PICK v \in Tale :
          /\ Goes("messages", "messages", t, f, v)
          /\ v.pc = t.pc /\ v.kind = t.kind /\ v.c = MoreOfLast(t.c, kind, n)
          /\ v.usage = t.usage /\ v.marked = t.marked /\ v.signed = t.signed
    BY <2>3
  <2>5. v.c = said'
    BY <1>4, <2>0, <2>4
  <2>6. Source(v)'
    BY <1>4, <1>5, <1>7, <1>8, <1>11, <2>0, <2>4, <2>5, UnderWayNext DEF In
  <2> QED BY <1>11, <2>2, <2>3, <2>4, <2>6, TellsNext
<1>12. CASE route.up = "responses"
  <2>0. t.pc = "block" /\ t.c = said /\ kind = t.kind /\ i + 1 = t.n
    BY <1>3, <1>8, <1>12, SourceParts, TaleParts DEF In
  <2>1. PICK f : f = ItemDelta(i, kind, n)
    OBVIOUS
  <2>2. Speaks(<<f>>)
    BY <1>1, <1>2, <1>3, <1>12, <2>1, ForDialectIs DEF Piece
  <2>3. /\ f \in Msg
        /\ \E v \in Tale :
             /\ Goes("responses", "responses", t, f, v)
             /\ v.pc = t.pc /\ v.kind = t.kind /\ v.n = t.n
             /\ v.c = MoreOfLast(t.c, kind, n) /\ v.why = t.why /\ v.usage = t.usage
             /\ v.marked = t.marked /\ v.signed = t.signed
    BY <1>1a, <2>0, <2>1, TellersAre, ItemDeltaIs
  <2>4. PICK v \in Tale :
          /\ Goes("responses", "responses", t, f, v)
          /\ v.pc = t.pc /\ v.kind = t.kind /\ v.c = MoreOfLast(t.c, kind, n)
          /\ v.usage = t.usage /\ v.marked = t.marked /\ v.signed = t.signed
    BY <2>3
  <2>5. v.c = said'
    BY <1>4, <2>0, <2>4
  <2>6. Source(v)'
    BY <1>4, <1>5, <1>7, <1>8, <1>12, <2>0, <2>4, <2>5, UnderWayNext DEF In
  <2> QED BY <1>12, <2>2, <2>3, <2>4, <2>6, TellsNext
<1> QED BY <1>9, <1>10, <1>11, <1>12, SourceParts

\* A block of text or thinking that a chat upstream ends has been told of.
LEMMA ShutParts ==
  ASSUME TypeInv, NEW signed \in BOOLEAN, Shut(signed), NEW t \in Tale, Source(t)
  PROVE  /\ up.pc = "block" /\ route' = route /\ said' = said /\ up.blocks # 0
         /\ t.c = said /\ t.kind = up.kind /\ t.signed = up.signed /\ ~t.marked
         /\ t.pc = (IF In("chat") THEN "open" ELSE "block") /\ up.blocks = t.n
         /\ t.usage = (IF In("messages") THEN PromptOf ELSE NoUsage)
         /\ said.items[up.blocks] = t.c.items[t.n] /\ t.c.items[t.n].kind = t.kind
         /\ up'.pc = "open" /\ up'.kind = up.kind
         /\ up'.signed = Signed(t, signed) /\ (signed => t.kind = "thinking" /\ ~In("chat"))
         /\ Beginning(said, said)
<1>1. /\ up.pc = "block" /\ route' = route /\ said' = said /\ up.kind \in BlockKind
      /\ (signed => up.kind = "thinking" /\ ~In("chat")) /\ up.blocks # 0
      /\ (In("chat") /\ up.kind # "tool" => said.items[up.blocks].text # <<>>)
  BY DEF Shut, Speaks, TypeInv, SaidInv
<1>2. /\ up' = [up EXCEPT !.pc = "open",
                          !.signed = IF signed THEN Append(@, said.items[up.blocks].text) ELSE @]
  BY DEF Shut
<1>3. up'.pc = "open" /\ up'.kind = up.kind
      /\ up'.signed = IF signed THEN Append(up.signed, said.items[up.blocks].text) ELSE up.signed
  BY <1>2, SourceParts DEF Upstream
<1>4. /\ t.signed = up.signed /\ ~t.marked /\ t.pc = IF In("chat") THEN "open" ELSE "block"
      /\ t.usage = IF In("messages") THEN PromptOf ELSE NoUsage
      /\ \/ t.c = said /\ t.kind = up.kind
         \/ In("chat") /\ up.kind # "tool" /\ said = Begun(t.c, up.kind, 0)
  BY <1>1, UnderWayIs
<1>5. t.c = said /\ t.kind = up.kind
  <2> SUFFICES ASSUME In("chat"), up.kind # "tool", said = Begun(t.c, up.kind, 0) PROVE FALSE
    BY <1>4
  <2>0. PICK kind \in BlockKind : kind = up.kind
    BY <1>1
  <2> DEFINE e == [kind |-> kind, id |-> 0, text |-> <<>>]
  <2>1. said.items = Append(t.c.items, e)
    <3>1. PICK c \in Content : c = t.c
      BY TaleParts
    <3>2. said = Begun(c, kind, 0)
      BY <2>0, <3>1
    <3>3. Begun(c, kind, 0).items = Append(c.items, e)
      BY BegunIs, Zenon DEF e
    <3> QED BY <3>1, <3>2, <3>3
  <2>1a. up.blocks = Len(t.c.items) + 1
    BY <2>1, TaleParts, ContentParts, SourceParts
  <2>2. t.c.items \in Seq(Item)
    BY TaleParts, ContentParts
  <2> HIDE DEF e
  <2>3. said.items[up.blocks] = e
    BY <2>1, <2>1a, <2>2
  <2>4. e.text = <<>>
    BY DEF e
  <2> QED BY <1>1, <2>3, <2>4
<1>6. up.blocks = t.n /\ Beginning(said, said)
  BY <1>5, SourceParts, TaleParts, BeginningItself
<1>7. t.n # 0 /\ t.c.items[t.n].kind = t.kind
  BY <1>1, <1>6, TaleParts
<1>8. up'.signed = Signed(t, signed)
  BY <1>3, <1>4, <1>5, <1>6 DEF Signed
<1> QED BY <1>1, <1>3, <1>4, <1>5, <1>6, <1>7, <1>8

LEMMA ShutTells ==
  ASSUME TypeInv, NEW signed \in BOOLEAN, Shut(signed), NEW t \in Tale, Source(t)
  PROVE  UpstreamTells(t)
<1>1. /\ up.pc = "block" /\ route' = route /\ said' = said /\ up.blocks # 0
      /\ t.c = said /\ t.kind = up.kind /\ t.signed = up.signed /\ ~t.marked
      /\ t.pc = (IF In("chat") THEN "open" ELSE "block") /\ up.blocks = t.n
      /\ t.usage = (IF In("messages") THEN PromptOf ELSE NoUsage)
      /\ up'.pc = "open" /\ up'.kind = up.kind
      /\ up'.signed = Signed(t, signed) /\ (signed => t.kind = "thinking" /\ ~In("chat"))
      /\ Beginning(said, said)
  BY ShutParts
<1>2. PICK last : last = said.items[up.blocks]
  OBVIOUS
<1>3. last = t.c.items[t.n] /\ last.kind = t.kind
  BY <1>2, ShutParts
<1>4. PICK i \in Nat : i = up.blocks - 1 /\ i + 1 = t.n
  BY <1>1, SourceParts
<1>4a. i + 1 = t.n
  BY <1>4
<1>5. ASSUME NEW v \in Tale, v.pc = "open", v.kind = t.kind, v.c = t.c, v.usage = t.usage, ~v.marked,
             v.signed = Signed(t, signed)
      PROVE  Source(v)'
  BY <1>1, <1>5, UnderWayNext
<1>6. CASE route.up = "chat"
  <2>1. Speaks(<<>>)
    BY <1>6, ForDialectIs DEF Shut
  <2>2. Along("chat", "chat", t, <<>>, t) /\ <<>> \in Seq(Msg)
    BY AlongNone
  <2>3. ~signed /\ t.pc = "open"
    BY <1>1, <1>6 DEF In
  <2>4. Source(t)'
    BY <1>1, <1>5, <2>3 DEF Signed
  <2> QED BY <1>6, <2>1, <2>2, <2>4, TellsOn
<1>7. CASE route.up = "messages" /\ ~signed
  <2>1. PICK f : f = BlockStop(i)
    OBVIOUS
  <2>2. Speaks(<<f>>)
    <3>1. <<>> \o <<f>> = <<f>>
      OBVIOUS
    <3> QED BY <1>4, <1>7, <2>1, <3>1, ForDialectIs DEF Shut
  <2>2a. t.pc = "block"
    BY <1>1, <1>7 DEF In
  <2>3. /\ f \in Msg
        /\ \E v \in Tale :
             /\ Goes("messages", "messages", t, f, v)
             /\ v.pc = "open" /\ v.kind = t.kind /\ v.n = t.n /\ v.c = t.c /\ v.why = t.why
             /\ v.usage = t.usage /\ ~v.marked /\ v.signed = Signed(t, t.marked)
    BY <1>4a, <2>1, <2>2a, TellersAre, BlockStopIs
  <2>4. PICK v \in Tale :
          /\ Goes("messages", "messages", t, f, v)
          /\ v.pc = "open" /\ v.kind = t.kind /\ v.c = t.c
          /\ v.usage = t.usage /\ ~v.marked /\ v.signed = Signed(t, t.marked)
    BY <2>3
  <2>5. v.signed = Signed(t, signed)
    BY <1>1, <1>7, <2>4 DEF Signed
  <2>6. Source(v)'
    BY <1>5, <2>4, <2>5
  <2> QED BY <1>7, <2>2, <2>3, <2>4, <2>6, TellsNext
<1>8. CASE route.up = "messages" /\ signed
  <2>1. PICK f : f = BlockDelta(i, "signature", 0)
    OBVIOUS
  <2>2. PICK g : g = BlockStop(i)
    OBVIOUS
  <2>3. Speaks(<<f, g>>)
    <3>1. PICK mark : mark = IF signed THEN <<BlockDelta(i, "signature", 0)>> ELSE <<>>
      OBVIOUS
    <3>2. PICK all : all = mark \o <<g>>
      OBVIOUS
    <3>3. Speaks(all)
      BY <1>4, <1>8, <2>2, <3>1, <3>2, ForDialectIs DEF Shut
    <3>4. mark = <<f>>
      BY <1>8, <2>1, <3>1
    <3> QED BY <3>2, <3>3, <3>4, PairJoined
  <2>4. t.pc = "block" /\ t.kind = "thinking"
    BY <1>1, <1>8 DEF In
  <2>5. /\ f \in Msg
        /\ \E v \in Tale :
             /\ Goes("messages", "messages", t, f, v)
             /\ v.pc = t.pc /\ v.kind = t.kind /\ v.n = t.n /\ v.c = t.c /\ v.why = t.why
             /\ v.usage = t.usage /\ v.marked /\ v.signed = t.signed
    BY <1>4a, <2>1, <2>4, TellersAre, SignatureIs
  <2>6. PICK w \in Tale :
          /\ Goes("messages", "messages", t, f, w)
          /\ w.pc = "block" /\ w.kind = t.kind /\ w.n = t.n /\ w.c = t.c
          /\ w.usage = t.usage /\ w.marked /\ w.signed = t.signed
    BY <2>4, <2>5
  <2>7. i + 1 = w.n /\ w.pc = "block"
    BY <1>4a, <2>6
  <2>8. /\ g \in Msg
        /\ \E v \in Tale :
             /\ Goes("messages", "messages", w, g, v)
             /\ v.pc = "open" /\ v.kind = w.kind /\ v.n = w.n /\ v.c = w.c /\ v.why = w.why
             /\ v.usage = w.usage /\ ~v.marked /\ v.signed = Signed(w, w.marked)
    BY <2>2, <2>7, TellersAre, BlockStopIs
  <2>9. PICK v \in Tale :
          /\ Goes("messages", "messages", w, g, v)
          /\ v.pc = "open" /\ v.kind = w.kind /\ v.c = w.c
          /\ v.usage = w.usage /\ ~v.marked /\ v.signed = Signed(w, w.marked)
    BY <2>8
  <2>10. v.signed = Signed(t, signed)
    BY <1>8, <2>6, <2>9 DEF Signed
  <2>11. Source(v)'
    BY <1>5, <2>6, <2>9, <2>10
  <2>12. Along("messages", "messages", t, <<f, g>>, v) /\ <<f, g>> \in Seq(Msg)
    BY <2>5, <2>6, <2>8, <2>9, AlongPair, TuplesAreSeqs
  <2> QED BY <1>8, <2>3, <2>11, <2>12, TellsOn
<1>9. CASE route.up = "responses" /\ t.kind = "thinking"
  <2>1. PICK id \in Nat : id = last.id
    BY <1>1, <1>3, TaleParts, ContentParts DEF Item
  <2>2. PICK f : f = ItemDone(i, t.kind, id, signed)
    OBVIOUS
  <2>3. Speaks(<<f>>)
    <3>1. <<>> \o <<f>> = <<f>>
      OBVIOUS
    <3> QED BY <1>2, <1>3, <1>4, <1>9, <2>1, <2>2, <3>1, ForDialectIs DEF Shut
  <2>4. t.pc = "block" /\ t.kind \in BlockKind
    BY <1>1, <1>9 DEF In, BlockKind
  <2>5. /\ f \in Msg
        /\ \E v \in Tale :
             /\ Goes("responses", "responses", t, f, v)
             /\ v.pc = "open" /\ v.kind = t.kind /\ v.n = t.n /\ v.c = t.c /\ v.why = t.why
             /\ v.usage = t.usage /\ ~v.marked /\ v.signed = Signed(t, signed)
    BY <1>4a, <1>9, <2>2, <2>4, TellersAre, ItemDoneIs
  <2>6. PICK v \in Tale :
          /\ Goes("responses", "responses", t, f, v)
          /\ v.pc = "open" /\ v.kind = t.kind /\ v.c = t.c
          /\ v.usage = t.usage /\ ~v.marked /\ v.signed = Signed(t, signed)
    BY <2>5
  <2>7. Source(v)'
    BY <1>5, <2>6
  <2> QED BY <1>9, <2>3, <2>5, <2>6, <2>7, TellsNext
<1>10. CASE route.up = "responses" /\ t.kind # "thinking"
  <2>1. PICK id \in Nat : id = last.id
    BY <1>1, <1>3, TaleParts, ContentParts DEF Item
  <2>2. PICK f : f = PartDone(i, t.kind)
    OBVIOUS
  <2>3. PICK g : g = ItemDone(i, t.kind, id, signed)
    OBVIOUS
  <2>4. Speaks(<<f, g>>)
    <3>1. PICK part : part = IF last.kind = "thinking" THEN <<>> ELSE <<PartDone(i, last.kind)>>
      OBVIOUS
    <3>2. PICK all : all = part \o <<ItemDone(i, last.kind, last.id, signed)>>
      OBVIOUS
    <3>3. Speaks(all)
      BY <1>2, <1>4, <1>10, <3>1, <3>2, ForDialectIs DEF Shut
    <3>4. part = <<f>> /\ all = part \o <<g>>
      BY <1>3, <1>10, <2>1, <2>2, <2>3, <3>1, <3>2
    <3> QED BY <3>3, <3>4, PairJoined
  <2>5. t.pc = "block" /\ t.kind \in BlockKind /\ ~signed
    BY <1>1, <1>10, TaleParts DEF In
  <2>6. /\ f \in Msg
        /\ \E v \in Tale :
             /\ Goes("responses", "responses", t, f, v)
             /\ v.pc = "parted" /\ v.kind = t.kind /\ v.n = t.n /\ v.c = t.c /\ v.why = t.why
             /\ v.usage = t.usage /\ v.marked = t.marked /\ v.signed = t.signed
    BY <1>4a, <1>10, <2>2, <2>5, TellersAre, PartDoneIs
  <2>7. PICK w \in Tale :
          /\ Goes("responses", "responses", t, f, w)
          /\ w.pc = "parted" /\ w.kind = t.kind /\ w.n = t.n /\ w.c = t.c
          /\ w.usage = t.usage /\ w.marked = t.marked /\ w.signed = t.signed
    BY <2>6
  <2>8. i + 1 = w.n /\ w.pc = "parted" /\ w.kind # "thinking" /\ t.kind = w.kind
    BY <1>4a, <1>10, <2>7
  <2>9. /\ g \in Msg
        /\ \E v \in Tale :
             /\ Goes("responses", "responses", w, g, v)
             /\ v.pc = "open" /\ v.kind = w.kind /\ v.n = w.n /\ v.c = w.c /\ v.why = w.why
             /\ v.usage = w.usage /\ ~v.marked /\ v.signed = Signed(w, signed)
    BY <2>3, <2>5, <2>8, TellersAre, ItemDoneIs
  <2>10. PICK v \in Tale :
          /\ Goes("responses", "responses", w, g, v)
          /\ v.pc = "open" /\ v.kind = w.kind /\ v.c = w.c
          /\ v.usage = w.usage /\ ~v.marked /\ v.signed = Signed(w, signed)
    BY <2>9
  <2>11. v.signed = Signed(t, signed)
    BY <2>5, <2>7, <2>10 DEF Signed
  <2>12. Source(v)'
    BY <1>5, <2>7, <2>10, <2>11
  <2>13. Along("responses", "responses", t, <<f, g>>, v) /\ <<f, g>> \in Seq(Msg)
    BY <2>6, <2>7, <2>9, <2>10, AlongPair, TuplesAreSeqs
  <2> QED BY <1>10, <2>4, <2>12, <2>13, TellsOn
<1> QED BY <1>6, <1>7, <1>8, <1>9, <1>10, SourceParts

LEMMA OverIs ==
  ASSUME NEW v, route' = route, said' = said, up'.pc = "over", up'.complete, v.pc = "over",
         v.c = said, Beginning(said, said), v.why = up'.why, v.signed = up'.signed,
         SameBill(v.usage), ~In("messages") => v.usage = bill
  PROVE  Source(v)'
<1>1. SameBill(v.usage)' = SameBill(v.usage) /\ bill' = bill /\ (In("messages"))' = In("messages")
  BY DEF SameBill, bill, In
<1>2. Whole(v)'
  BY <1>1 DEF Whole
<1> QED BY <1>2 DEF Source, Ended

\* What a messages upstream reports at the start and at the end is its bill.
LEMMA SameBillInParts ==
  ASSUME TypeInv, NEW whole \in BOOLEAN, bill = NoUsage => whole
  PROVE  OutputOf(whole) \in Usage /\ SameBill(MergeUsage(PromptOf, OutputOf(whole)))
<1> DEFINE m == MergeUsage(PromptOf, OutputOf(whole))
<1>1. bill \in Usage /\ None \notin Nat /\ "output" \in UsageField /\ NoUsage \in Usage
  BY SourceParts, NoUsageIsUsage DEF UsageField
<1>2. OutputOf(whole) \in Usage
  BY <1>1 DEF OutputOf, Usage
<1>3. CASE bill = NoUsage
  <2>1. PromptOf = NoUsage /\ OutputOf(whole) = NoUsage
    BY <1>3 DEF PromptOf, OutputOf
  <2>2. m = NoUsage
    BY <2>1 DEF MergeUsage, NoUsage
  <2> QED BY <1>2, <1>3, <2>2 DEF SameBill
<1>4. CASE bill # NoUsage
  <2>1. \A f \in UsageField :
          /\ PromptOf[f] = IF f = "output" THEN 0 ELSE bill[f]
          /\ OutputOf(whole)[f] = IF whole \/ f = "output" THEN bill[f] ELSE None
    BY <1>1, <1>4 DEF PromptOf, OutputOf, Usage
  <2>2. \A f \in UsageField :
          m[f] = IF f = "output" /\ bill[f] = None THEN 0 ELSE bill[f]
    BY <2>1 DEF MergeUsage
  <2>3. Told(m) = Told(bill)
    BY <2>2 DEF Told, Count
  <2>4. PICK f \in UsageField : bill[f] # None
    BY <1>1, <1>4 DEF Usage, NoUsage
  <2>5. m[f] # None
    BY <2>2, <2>4
  <2>6. m # NoUsage
    BY <2>5 DEF NoUsage
  <2> QED BY <1>2, <1>4, <2>3, <2>6 DEF SameBill
<1> QED BY <1>3, <1>4

LEMMA EndTells ==
  ASSUME TypeInv, NEW why \in Reason, NEW whole \in BOOLEAN, End(why, whole),
         NEW t \in Tale, Source(t)
  PROVE  UpstreamTells(t)
<1>1. /\ up.pc = "open" /\ route' = route /\ said' = said /\ why \in Reasons
      /\ up' = [up EXCEPT !.pc = "over", !.why = why, !.complete = TRUE, !.billed = TRUE]
      /\ (~In("messages") \/ bill = NoUsage => whole)
  BY DEF End, Speaks
<1>2. up'.pc = "over" /\ up'.why = why /\ up'.complete /\ up'.signed = up.signed
  BY <1>1, SourceParts DEF Upstream
<1>3. /\ t.pc = "open" /\ t.c = said /\ t.signed = up.signed /\ ~t.marked
      /\ t.usage = (IF In("messages") THEN PromptOf ELSE NoUsage)
  BY <1>1, UnderWayIs
<1>4. t.why = "none" /\ t.pc = "open" /\ Beginning(said, said)
  BY <1>3, TaleParts, BeginningItself
<1>5. PICK usage \in Usage : usage = bill
  BY SourceParts
<1>6. SameBill(bill)
  BY DEF SameBill
<1>7. CASE route.up = "chat"
  <2>1. PICK q1 : q1 = IF why = "none" THEN <<>> ELSE <<FinishChunk(why)>>
    OBVIOUS
  <2>2. PICK q2 : q2 = IF usage = NoUsage THEN <<>> ELSE <<UsageChunk(usage)>>
    OBVIOUS
  <2>3. Speaks(q1 \o q2 \o <<ChatDone>>)
    BY <1>5, <1>7, <2>1, <2>2, ForDialectIs DEF End
  <2>4. \E a \in Tale :
          /\ Along("chat", "chat", t, q1, a) /\ q1 \in Seq(Msg)
          /\ a.pc \in {"open", "told"} /\ a.c = t.c /\ a.why = why /\ a.usage = t.usage
          /\ a.signed = t.signed
    <3>1. CASE why = "none"
      BY <1>4, <2>1, <3>1, AlongNone
    <3>2. CASE why # "none"
      <4>1. PICK f : f = FinishChunk(why)
        OBVIOUS
      <4>2. why \in {"stop", "tool_calls", "length", "content_filter"}
        BY <1>1, <1>7, <3>2, ForDialectIs DEF Reasons
      <4>3. /\ f \in Msg
            /\ \E v \in Tale :
                 /\ Goes("chat", "chat", t, f, v)
                 /\ v.pc = "told" /\ v.kind = t.kind /\ v.n = t.n /\ v.c = t.c /\ v.why = why
                 /\ v.usage = t.usage /\ v.marked = t.marked /\ v.signed = t.signed
        BY <1>4, <4>1, <4>2, TellersAre, FinishIs
      <4>4. q1 = <<f>> /\ <<f>> \in Seq(Msg)
        BY <2>1, <3>2, <4>1, <4>3
      <4> QED BY <4>3, <4>4, AlongOne
    <3> QED BY <3>1, <3>2
  <2>5. PICK a \in Tale :
          /\ Along("chat", "chat", t, q1, a) /\ q1 \in Seq(Msg)
          /\ a.pc \in {"open", "told"} /\ a.c = t.c /\ a.why = why /\ a.usage = t.usage
          /\ a.signed = t.signed
    BY <2>4
  <2>6. \E b \in Tale :
          /\ Along("chat", "chat", a, q2, b) /\ q2 \in Seq(Msg)
          /\ b.pc \in {"open", "told"} /\ b.c = t.c /\ b.why = why /\ b.usage = usage
          /\ b.signed = t.signed
    <3>1. CASE usage = NoUsage
      <4>1. a.usage = usage
        BY <1>3, <1>7, <2>5, <3>1 DEF In
      <4> QED BY <2>2, <2>5, <3>1, <4>1, AlongNone
    <3>2. CASE usage # NoUsage
      <4>1. PICK f : f = UsageChunk(usage)
        OBVIOUS
      <4>2. /\ f \in Msg
            /\ \E v \in Tale :
                 /\ Goes("chat", "chat", a, f, v)
                 /\ v.pc = a.pc /\ v.kind = a.kind /\ v.n = a.n /\ v.c = a.c /\ v.why = a.why
                 /\ v.usage = usage /\ v.marked = a.marked /\ v.signed = a.signed
        BY <2>5, <3>2, <4>1, TellersAre, UsageChunkIs
      <4>3. q2 = <<f>> /\ <<f>> \in Seq(Msg)
        BY <2>2, <3>2, <4>1, <4>2
      <4> QED BY <2>5, <4>2, <4>3, AlongOne
    <3> QED BY <3>1, <3>2
  <2>7. PICK b \in Tale :
          /\ Along("chat", "chat", a, q2, b) /\ q2 \in Seq(Msg)
          /\ b.pc \in {"open", "told"} /\ b.c = t.c /\ b.why = why /\ b.usage = usage
          /\ b.signed = t.signed
    BY <2>6
  <2>8. /\ ChatDone \in Msg
        /\ \E v \in Tale :
             /\ Goes("chat", "chat", b, ChatDone, v)
             /\ v.pc = "over" /\ v.kind = b.kind /\ v.n = b.n /\ v.c = b.c /\ v.why = b.why
             /\ v.usage = b.usage /\ v.marked = b.marked /\ v.signed = b.signed
    BY <2>7, TellersAre, ChatDoneIs
  <2>9. PICK v \in Tale :
          /\ Goes("chat", "chat", b, ChatDone, v) /\ ChatDone \in Msg
          /\ v.pc = "over" /\ v.c = b.c /\ v.why = b.why
          /\ v.usage = b.usage /\ v.signed = b.signed
    BY <2>8
  <2>10. Along("chat", "chat", b, <<ChatDone>>, v) /\ <<ChatDone>> \in Seq(Msg)
    BY <2>9, AlongOne
  <2>11. q1 \o q2 \in Seq(Msg) /\ Along("chat", "chat", t, q1 \o q2, b)
    BY <2>5, <2>7, ConcatIsSeq, AlongJoin
  <2>12. PICK q \in Seq(Msg) : q = q1 \o q2 /\ Along("chat", "chat", t, q, b)
    BY <2>11
  <2>13. q \o <<ChatDone>> \in Seq(Msg) /\ Along("chat", "chat", t, q \o <<ChatDone>>, v)
    BY <2>10, <2>12, ConcatIsSeq, AlongJoin
  <2>14. Source(v)'
    BY <1>1, <1>2, <1>3, <1>4, <1>5, <1>6, <2>7, <2>9, OverIs
  <2> QED BY <1>7, <2>3, <2>12, <2>13, <2>14, TellsOn
<1>8. CASE route.up = "messages"
  <2>1. PICK out \in Usage : out = OutputOf(whole) /\ SameBill(MergeUsage(PromptOf, out))
    BY <1>1, SameBillInParts
  <2>2. PICK f : f = MessageDelta(why, out)
    OBVIOUS
  <2>3. Speaks(<<f, MessageStop>>)
    BY <1>8, <2>1, <2>2, ForDialectIs DEF End
  <2>4. why \in {"end_turn", "tool_use", "max_tokens", "refusal"}
    BY <1>1, <1>8, ForDialectIs DEF Reasons
  <2>5. /\ f \in Msg
        /\ \E v \in Tale :
             /\ Goes("messages", "messages", t, f, v)
             /\ v.pc = "told" /\ v.kind = t.kind /\ v.n = t.n /\ v.c = t.c /\ v.why = why
             /\ v.usage = MergeUsage(t.usage, out) /\ v.marked = t.marked
             /\ v.signed = t.signed
    BY <1>4, <2>2, <2>4, TellersAre, MessageDeltaIs
  <2>6. PICK w \in Tale :
          /\ Goes("messages", "messages", t, f, w)
          /\ w.pc = "told" /\ w.c = t.c /\ w.why = why
          /\ w.usage = MergeUsage(t.usage, out) /\ w.signed = t.signed
    BY <2>5
  <2>7. /\ MessageStop \in Msg
        /\ \E v \in Tale :
             /\ Goes("messages", "messages", w, MessageStop, v)
             /\ v.pc = "over" /\ v.kind = w.kind /\ v.n = w.n /\ v.c = w.c /\ v.why = w.why
             /\ v.usage = w.usage /\ v.marked = w.marked /\ v.signed = w.signed
    BY <2>6, TellersAre, MessageStopIs
  <2>8. PICK v \in Tale :
          /\ Goes("messages", "messages", w, MessageStop, v)
          /\ v.pc = "over" /\ v.c = w.c /\ v.why = w.why
          /\ v.usage = w.usage /\ v.signed = w.signed
    BY <2>7
  <2>9. Along("messages", "messages", t, <<f, MessageStop>>, v) /\ <<f, MessageStop>> \in Seq(Msg)
    BY <2>5, <2>6, <2>7, <2>8, AlongPair, TuplesAreSeqs
  <2>10. SameBill(v.usage)
    BY <1>3, <1>8, <2>1, <2>6, <2>8 DEF In
  <2>11. Source(v)'
    BY <1>1, <1>2, <1>3, <1>4, <1>8, <2>6, <2>8, <2>10, OverIs DEF In
  <2> QED BY <1>8, <2>3, <2>9, <2>11, TellsOn
<1>9. CASE route.up = "responses"
  <2>1. PICK items : items = said.items
    OBVIOUS
  <2>2. PICK f : f = Completed(items, usage)
    OBVIOUS
  <2>3. Speaks(<<f>>)
    BY <1>5, <1>9, <2>1, <2>2, ForDialectIs DEF End
  <2>4. items = t.c.items
    BY <1>3, <2>1
  <2>5. /\ f \in Msg
        /\ \E v \in Tale :
             /\ Goes("responses", "responses", t, f, v)
             /\ v.pc = "over" /\ v.kind = t.kind /\ v.n = t.n /\ v.c = t.c /\ v.why = t.why
             /\ v.usage = usage /\ v.marked = t.marked /\ v.signed = t.signed
    BY <1>4, <2>2, <2>4, TellersAre, CompletedIs
  <2>6. PICK v \in Tale :
          /\ Goes("responses", "responses", t, f, v)
          /\ v.pc = "over" /\ v.c = t.c /\ v.why = t.why
          /\ v.usage = usage /\ v.signed = t.signed
    BY <2>5
  <2>7. why = "none"
    BY <1>1, <1>9, ForDialectIs DEF Reasons
  <2>8. Source(v)'
    BY <1>1, <1>2, <1>3, <1>4, <1>5, <1>6, <2>6, <2>7, OverIs
  <2> QED BY <1>9, <2>3, <2>5, <2>6, <2>8, TellsNext
<1> QED BY <1>7, <1>8, <1>9, SourceParts

LEMMA FailTells ==
  ASSUME TypeInv, ~ErrorThenDone, Fail, NEW t \in Tale, Source(t)
  PROVE  UpstreamTells(t)
<1>1. /\ up.pc \in {"start", "open", "block"} /\ route' = route /\ said' = said
      /\ up' = [up EXCEPT !.pc = "failed"]
  BY DEF Fail, Speaks
<1>2. up'.pc = "failed"
  BY <1>1, SourceParts DEF Upstream
<1>3. t.pc \in {"start", "open", "block"} /\ Beginning(t.c, said)
  BY <1>1, UnderWayIs DEF Source, Untold
<1>4. PICK f : /\ f \in {Bare("error"), Bare("response.failed")} /\ Speaks(<<f>>)
                /\ (route.up = "responses" \/ f = Bare("error"))
  <2>1. PICK done \in BOOLEAN, failed \in BOOLEAN :
          /\ done => ErrorThenDone
          /\ Speaks(ForDialect(<<Bare("error")>> \o IF done THEN <<ChatDone>> ELSE <<>>,
                               <<Bare("error")>>,
                               <<Bare(IF failed THEN "response.failed" ELSE "error")>>))
    BY DEF Fail
  <2>2. PICK e : e = Bare("error")
    OBVIOUS
  <2>3. (<<e>> \o IF done THEN <<ChatDone>> ELSE <<>>) = <<e>>
    <3>1. <<e>> \o <<>> = <<e>>
      OBVIOUS
    <3> QED BY <2>1, <3>1
  <2>4. PICK g : g = Bare(IF failed THEN "response.failed" ELSE "error")
    OBVIOUS
  <2>5. g \in {Bare("error"), Bare("response.failed")}
    BY <2>4
  <2>6. Speaks(ForDialect(<<e>>, <<e>>, <<g>>))
    BY <2>1, <2>2, <2>3, <2>4
  <2>7. Speaks(<<e>>) \/ (route.up = "responses" /\ Speaks(<<g>>))
    BY <2>6, ForDialectIs, SourceParts
  <2> QED BY <2>2, <2>5, <2>7
<1>5. f \in Msg /\ f \in Frame /\ IsError(f) /\ (f.e = "response.failed" => route.up = "responses")
  BY <1>4, BareIsMsg, MsgIsEvent DEF EventName, IsError, Bare
<1>6. PICK d \in Dialect : d = route.up /\ d \in Teller
  BY SourceParts, TellersAre
<1>7. t.pc \notin Ended
  BY <1>3 DEF Ended
<1>8. \E v \in Tale :
        /\ Goes(d, d, t, f, v)
        /\ v.pc = "error" /\ v.kind = t.kind /\ v.n = t.n /\ v.c = t.c /\ v.why = t.why
        /\ v.usage = t.usage /\ v.marked = t.marked /\ v.signed = t.signed
  BY <1>5, <1>6, <1>7, FailureIs
<1>9. PICK v \in Tale : Goes(d, d, t, f, v) /\ v.pc = "error" /\ v.c = t.c
  BY <1>8
<1>10. Source(v)'
  BY <1>1, <1>2, <1>3, <1>9 DEF Source, Ended
<1>11. Speaks(<<f>>) /\ Goes(route.up, route.up, t, f, v)
  BY <1>4, <1>6, <1>9
<1> QED BY <1>5, <1>9, <1>10, <1>11, TellsNext

\* A source stays one, and what comes before it becomes one when the rest is lost.
LEMMA SourceStays ==
  ASSUME NEW t, Source(t), UNCHANGED <<route, up, said>>
  PROVE  Source(t)'
BY DEF Source, Whole, UnderWay, SameBill, PromptOf, bill, In

LEMMA CloseTells ==
  ASSUME TypeInv, Close, NEW t \in Tale, NEW v \in Tale, Source(v), Onward(t, v)
  PROVE  Source(t)'
<1>1. /\ route' = route /\ said' = said /\ up' = [up EXCEPT !.pc = "gone"]
  BY DEF Close
<1>2. /\ up'.pc = "gone" /\ up'.complete = up.complete /\ up'.why = up.why
      /\ up'.signed = up.signed
  BY <1>1, SourceParts DEF Upstream
<1>3. Beginning(t.c, said)
  BY SourceParts, TaleParts, BeginningFurther DEF Source, Onward
<1>4. t.pc # "closed"
  BY DEF Source, Onward
<1>5. ASSUME t.pc \in Ended PROVE Whole(t)'
  <2>1. v = [t EXCEPT !.pc = v.pc] /\ Whole(v)
    BY <1>5 DEF Onward, Source
  <2>2. v.c = t.c /\ v.why = t.why /\ v.signed = t.signed /\ v.usage = t.usage
    BY <2>1, TaleIsRecord DEF TaleRecord
  <2>3. /\ up.complete /\ t.c = said /\ t.why = up.why /\ t.signed = up.signed
        /\ SameBill(t.usage) /\ (~In("messages") => t.usage = bill)
    BY <2>1, <2>2 DEF Whole
  <2>4. SameBill(t.usage)' = SameBill(t.usage) /\ bill' = bill /\ (In("messages"))' = In("messages")
    BY <1>1 DEF SameBill, bill, In
  <2> QED BY <1>1, <1>2, <2>3, <2>4 DEF Whole
<1> QED BY <1>1, <1>2, <1>3, <1>4, <1>5 DEF Source

LEMMA UpstreamSpeaks ==
  ASSUME TypeInv, ~ErrorThenDone, NEW t \in Tale, Source(t),
         \/ Begin \/ Piece \/ Fail
         \/ \E kind \in BlockKind : Open(kind)
         \/ \E signed \in BOOLEAN : Shut(signed)
         \/ \E why \in Reason, whole \in BOOLEAN : End(why, whole)
  PROVE  UpstreamTells(t)
BY BeginTells, OpenTells, PieceTells, ShutTells, EndTells, FailTells

-----------------------------------------------------------------------------
(* What has come of the upstream's tale on the way *)

\* Usage in the messages convention, if there is any; what message_delta makes of it.
InUsage(usage) == IF usage = NoUsage THEN NoUsage ELSE Exclusive(usage)
Filled(usage) == MergeUsage(ZeroUsage, usage)
CallIds(c) == [k \in DOMAIN c.tools |-> c.tools[k].id]

\* The first stage has made m of the tale t; s is the converter.  A block of a chat answer
\* stays open until the next one begins.
ThisBlock(t) == [kind |-> t.kind, i |-> IF t.kind = "tool" THEN ToolsOf(t) - 1 ELSE 0]
ChatUnderWay(t, s, m) ==
  /\ s.started /\ s.usage = InUsage(t.usage) /\ m.usage = ZeroUsage
  /\ s.why = IF t.why = "none" THEN "none" ELSE FinishToStop(t.why)
  /\ t.n = 0 => m.pc = "open" /\ s.open = NoBlock /\ s.index = 0
  /\ t.n # 0 => m.pc = "block" /\ s.index + 1 = t.n /\ s.open = ThisBlock(t)
AllFilled(t, m) == m.pc = "over" /\ m.usage = Filled(Filled(InUsage(t.usage)))
ToolsOrEnd(t) == IF t.c.tools # <<>> THEN "tool_use" ELSE "end_turn"
ChatStage(t, s, m) ==
  /\ m.n = t.n /\ m.kind = t.kind /\ m.c = t.c /\ m.signed = <<>> /\ ~m.marked
  /\ t.signed = <<>> /\ (s.tool <=> (t.c.tools # <<>>)) /\ t.pc \notin {"block", "parted"}
  /\ t.pc = "start" => t = Untold /\ m = Untold /\ s = InwardInit
  /\ t.pc \in {"open", "told"} => ChatUnderWay(t, s, m)
  /\ t.pc \in Ended =>
       AllFilled(t, m) /\ m.why = IF t.why # "none" THEN FinishToStop(t.why) ELSE ToolsOrEnd(t)
ResponsesStage(t, s, m) ==
  /\ m.n = t.n /\ m.kind = t.kind /\ m.c = t.c /\ m.signed = t.signed
  /\ (s.tool <=> (t.c.tools # <<>>)) /\ t.pc # "told"
  /\ t.pc # "block" => s.index = t.n
  /\ t.pc = "start" => m = Untold
  /\ t.pc \notin Ended => t.usage = NoUsage
  /\ t.pc \in {"open", "parted"} => m.pc = "open" /\ m.usage = ZeroUsage
  /\ t.pc = "block" => m.pc = "block" /\ ~m.marked /\ m.usage = ZeroUsage /\ s.index + 1 = t.n
  /\ t.pc \in Ended => AllFilled(t, m) /\ m.why = ToolsOrEnd(t)
FirstMakes(u, t, s, m) ==
  /\ u = "messages" => m = t
  /\ u # "messages" /\ t.pc = "error" => m.pc = "error" /\ Beginning(m.c, t.c)
  /\ u = "chat" /\ t.pc # "error" => ChatStage(t, s, m)
  /\ u = "responses" /\ t.pc # "error" => ResponsesStage(t, s, m)

\* The second stage has made t of m.
Thinks(m) == m.pc = "block" /\ m.kind = "thinking"
Thinking(m, b) == b.kind = "thinking" /\ b.text = m.c.items[m.n].text /\ (b.signed <=> m.marked)
ChatBeing(m, s, t) ==
  /\ s.thinking = m.signed /\ s.ids = CallIds(m.c) /\ t.usage = NoUsage
  /\ m.pc # "start" => t.pc = "open"
  /\ ~Thinks(m) => DOMAIN s.blocks = {}
  /\ Thinks(m) => DOMAIN s.blocks = {m.n - 1} /\ Thinking(m, s.blocks[m.n - 1])
  /\ m.pc = "block" /\ m.kind = "tool" =>
       t.kind = "tool" /\ m.n - 1 \in DOMAIN s.tool /\ s.tool[m.n - 1] + 1 = ToolsOf(m)
  /\ m.pc = "told" => m.why # "none" /\ s.why = StopToFinish(m.why)
ChatMade(m, s, t, include) ==
  /\ SameWords(t.c, m.c) /\ s.usage = m.usage /\ s.count = ToolsOf(m)
  /\ m.pc = "start" => t = Untold /\ m.usage = NoUsage
  /\ m.pc \notin Ended => ChatBeing(m, s, t)
  /\ m.pc \in Ended =>
       /\ t.pc = "closed" /\ m.why # "none" /\ t.why = StopToFinish(m.why)
       /\ t.usage = IF include /\ m.usage # NoUsage THEN Totals(m.usage) ELSE NoUsage
Listed(b) == [kind |-> b.kind, id |-> b.id, text |-> b.text]
ItemBeing(m, s, b) ==
  /\ b.i + 1 = m.n /\ b.kind = m.kind /\ (b.signed <=> m.marked) /\ (b.kind = "tool" => b.id # 0)
  /\ b.text = m.c.items[m.n].text /\ m.c.items = Append(s.items, Listed(b))
  /\ CallIds(m.c) = IF b.kind = "tool" THEN Append(s.ids, b.id) ELSE s.ids
ResponsesBeing(m, s, t) ==
  /\ s.thinking = m.signed
  /\ m.pc \notin {"start", "block"} => t.pc = "open"
  /\ m.pc = "block" =>
       t.pc = "block" /\ DOMAIN s.blocks = {m.n - 1} /\ ItemBeing(m, s, s.blocks[m.n - 1])
  /\ m.pc # "block" => DOMAIN s.blocks = {} /\ s.items = m.c.items /\ s.ids = CallIds(m.c)
ResponsesMade(m, s, t) ==
  /\ t.c = m.c /\ t.n = m.n /\ t.kind = m.kind /\ s.usage = m.usage /\ s.count = m.n
  /\ m.pc = "start" => t = Untold /\ m.usage = NoUsage
  /\ m.pc \notin Ended => ResponsesBeing(m, s, t)
  /\ m.pc \in Ended =>
       t.pc = "closed" /\ t.usage = IF m.usage = NoUsage THEN NoUsage ELSE Totals(m.usage)
Closed(t) == [t EXCEPT !.pc = IF @ = "over" THEN "closed" ELSE @]
SecondMakes(d, m, s, t, include) ==
  /\ d = "messages" => t = Closed(m)
  /\ d # "messages" /\ m.pc = "error" => t.pc \notin Ended \cup {"error"} /\ Beginning(t.c, m.c)
  /\ d = "chat" /\ m.pc # "error" => ChatMade(m, s, t, include)
  /\ d = "responses" /\ m.pc # "error" => ResponsesMade(m, s, t)

\* What the task has noted until then.
TakenDown(d, m) ==
  IF d = "messages" \/ m.pc \notin Ended \/ m.signed = <<>> \/ CallIds(m.c) = <<>> THEN NoCapture
  ELSE [thinking |-> m.signed, ids |-> CallIds(m.c)]
Noted(m, t) ==
  /\ pump.capture = TakenDown(route.client, m)
  /\ route.client = "messages" /\ t.pc # "error" => pump.usage = InUsage(t.usage)
  /\ route.client # "messages" /\ ((In("messages") /\ m.pc # "error") \/ m.pc \in {"told", "over"}) =>
       pump.usage = m.usage
PassedOn(t, v) ==
  /\ v = Closed(t) /\ pump.capture = NoCapture
  /\ t.pc = "start" => t = Untold
  /\ In("responses") /\ t.pc \notin Ended => t.usage = NoUsage
  /\ outward.usage = IF In("messages") THEN t.usage ELSE InUsage(t.usage)
  /\ pump.usage = IF t.pc = "over" THEN outward.usage ELSE NoUsage

\* What the client will have heard of the batch, t, and what has come of the rest on the way:
\* the upstream's tale is told to v, read to u; between the stages to n and m.
Flow(t, m, n, u, v) ==
  /\ Source(v)
  /\ Passthrough => PassedOn(u, t)
  /\ ~Passthrough =>
       /\ FirstMakes(route.up, u, inward, n)
       /\ SecondMakes(route.client, m, outward, t, route.include)
       /\ Noted(m, u)

LEMMA MsgParts ==
  ASSUME NEW ev \in Msg
  PROVE  /\ ev \in Event /\ ev \in Frame /\ ev.e \in EventName /\ ev.e # "Done" /\ ev.i \in Nat
         /\ ev.kind \in EventKind /\ ev.id \in Nat /\ ev.frag \in Nat /\ ev.signed \in BOOLEAN
         /\ ev.usage \in Usage /\ ev.why \in Reason /\ ev.items \in Seq(Item)
<1>1. ev \in Event /\ ev \in Frame /\ ev.e # "Done"
  BY DEF Msg, Frame, Proper
<1> QED BY <1>1 DEF Event

LEMMA AlongSeqs ==
  ASSUME NEW u, NEW d, NEW q \in Seq(Msg), NEW r \in Seq(Msg), NEW a, NEW b, NEW c,
         Along(u, d, a, q, b), Along(u, d, b, r, c)
  PROVE  q \o r \in Seq(Msg) /\ Along(u, d, a, q \o r, c)
BY AlongJoin, ConcatIsSeq

LEMMA AlongEvent ==
  ASSUME NEW u, NEW d, NEW f \in Msg, NEW a \in Tale, NEW c \in Tale, Goes(u, d, a, f, c)
  PROVE  <<f>> \in Seq(Msg) /\ Along(u, d, a, <<f>>, c)
BY AlongOne, TuplesAreSeqs

LEMMA AlongNothing ==
  ASSUME NEW u, NEW d, NEW a \in Tale
  PROVE  <<>> \in Seq(Msg) /\ Along(u, d, a, <<>>, a)
BY AlongNone

-----------------------------------------------------------------------------
(* The first stage, chat *)

LEMMA ChatStageParts ==
  ASSUME NEW t \in Tale, NEW s, NEW m, ChatStage(t, s, m), t.pc \in {"open", "told"}
  PROVE  /\ m.n = t.n /\ m.kind = t.kind /\ m.c = t.c /\ m.signed = <<>> /\ ~m.marked
         /\ t.signed = <<>> /\ (s.tool <=> (t.c.tools # <<>>))
         /\ ChatUnderWay(t, s, m)
         /\ s.started /\ s.usage = InUsage(t.usage) /\ m.usage = ZeroUsage
         /\ s.why = IF t.why = "none" THEN "none" ELSE FinishToStop(t.why)
BY DEF ChatStage, ChatUnderWay

\* A stage under way goes on when its parts do.
LEMMA ChatStageNext ==
  ASSUME NEW t \in Tale, NEW s, NEW m, t.pc \in {"open", "told"},
         m.n = t.n, m.kind = t.kind, m.c = t.c, m.signed = <<>>, ~m.marked, t.signed = <<>>,
         s.tool <=> (t.c.tools # <<>>),
         s.started, s.usage = InUsage(t.usage), m.usage = ZeroUsage,
         s.why = IF t.why = "none" THEN "none" ELSE FinishToStop(t.why),
         t.n = 0 => m.pc = "open" /\ s.open = NoBlock /\ s.index = 0,
         t.n # 0 => m.pc = "block" /\ s.index + 1 = t.n /\ s.open = ThisBlock(t)
  PROVE  ChatStage(t, s, m)
BY DEF ChatStage, ChatUnderWay, Ended

LEMMA InwardIs ==
  ASSUME NEW s \in Inward
  PROVE  /\ s.started \in BOOLEAN /\ s.index \in Nat /\ s.open \in OpenBlock /\ s.tool \in BOOLEAN
         /\ s.why \in Reason /\ s.usage \in Usage
         /\ s = [started |-> s.started, index |-> s.index, open |-> s.open, tool |-> s.tool,
                 why |-> s.why, usage |-> s.usage]
BY DEF Inward

\* What is pushed into a converter that has started.
LEMMA ChatPush ==
  ASSUME NEW s \in Inward, s.started, NEW ev, ev.e = "chunk"
  PROVE  LET y == ChatToMessages(s, ev)
         IN /\ ev.kind = "finish" =>
                 /\ y.out = <<>> /\ y.st = [s EXCEPT !.why = FinishToStop(ev.why)]
                 /\ y.usage = NoUsage /\ y.capture = NoCapture
            /\ ev.kind = "usage" =>
                 /\ y.out = <<>> /\ y.st = [s EXCEPT !.usage = Exclusive(ev.usage)]
                 /\ y.usage = Exclusive(ev.usage) /\ y.capture = NoCapture
            /\ ev.kind \in BlockKind =>
                 LET block == [kind |-> ev.kind, i |-> ev.i]
                     opened == Opened(s, block)
                     delta == IF ev.frag = 0 THEN <<>>
                              ELSE <<BlockDelta(opened.index, ev.kind, ev.frag)>>
                 IN /\ y.out = <<>> \o EnsureBlock(s, block, ev.id) \o delta
                    /\ y.st = [opened EXCEPT !.tool = opened.tool \/ ev.kind = "tool"]
                    /\ y.usage = NoUsage /\ y.capture = NoCapture
<1>1. [s EXCEPT !.started = TRUE] = s
  BY DEF Inward
<1>2. EnsureStarted(s) = <<>>
  BY DEF EnsureStarted
<1>3. CASE ev.kind = "finish"
  BY <1>1, <1>2, <1>3 DEF ChatToMessages, Yield, BlockKind
<1>4. CASE ev.kind = "usage"
  BY <1>1, <1>2, <1>4 DEF ChatToMessages, Yield, BlockKind
<1>5. CASE ev.kind \in BlockKind
  <2>1. ev.kind # "finish" /\ ev.kind # "usage"
    BY <1>5 DEF BlockKind
  <2> QED BY <1>1, <1>2, <1>5, <2>1 DEF ChatToMessages, Yield
<1> QED BY <1>3, <1>4, <1>5

\* The block before it is closed.
LEMMA ChatCloses ==
  ASSUME NEW t \in Tale, NEW s \in Inward, NEW m \in Tale, ChatStage(t, s, m),
         t.pc \in {"open", "told"}
  PROVE  /\ CloseBlock(s) \in Seq(Msg) /\ NextIndex(s) = t.n
         /\ \E v \in Tale :
              /\ Along("chat", "messages", m, CloseBlock(s), v)
              /\ v.pc = "open" /\ v.kind = m.kind /\ v.n = m.n /\ v.c = m.c /\ v.why = "none"
              /\ v.usage = m.usage /\ ~v.marked /\ v.signed = m.signed
<1>1. /\ m.n = t.n /\ m.kind = t.kind /\ ~m.marked /\ ChatUnderWay(t, s, m)
  BY ChatStageParts
<1>2. CASE t.n = 0
  <2>1. CloseBlock(s) = <<>> /\ NextIndex(s) = t.n /\ m.pc = "open"
    BY <1>1, <1>2 DEF CloseBlock, NextIndex, ChatUnderWay
  <2>2. m.why = "none"
    BY <2>1, TaleParts
  <2> QED BY <1>1, <2>1, <2>2, AlongNothing
<1>3. CASE t.n # 0
  <2>1. m.pc = "block" /\ s.index + 1 = t.n /\ s.open = ThisBlock(t)
    BY <1>1, <1>3 DEF ChatUnderWay
  <2>2. t.kind # "none"
    BY <1>3, TaleParts
  <2>3. s.open # NoBlock
    BY <2>1, <2>2 DEF ThisBlock, NoBlock
  <2>4. PICK i \in Nat : i = s.index
    BY InwardIs
  <2>5. CloseBlock(s) = <<BlockStop(i)>> /\ NextIndex(s) = t.n /\ i + 1 = m.n
    BY <1>1, <2>1, <2>3, <2>4 DEF CloseBlock, NextIndex
  <2>6. /\ BlockStop(i) \in Msg
        /\ \E v \in Tale :
             /\ Goes("chat", "messages", m, BlockStop(i), v)
             /\ v.pc = "open" /\ v.kind = m.kind /\ v.n = m.n /\ v.c = m.c /\ v.why = m.why
             /\ v.usage = m.usage /\ ~v.marked /\ v.signed = Signed(m, m.marked)
    BY <2>1, <2>5, TellersAre, BlockStopIs
  <2>7. m.why = "none" /\ Signed(m, m.marked) = m.signed
    BY <1>1, <2>1, TaleParts DEF Signed
  <2> QED BY <2>5, <2>6, <2>7, AlongEvent
<1> QED BY <1>2, <1>3

\* Another block begins.
LEMMA ChatOpens ==
  ASSUME NEW t \in Tale, NEW s \in Inward, NEW m \in Tale, ChatStage(t, s, m), t.pc = "open",
         NEW kind \in BlockKind, NEW id \in Nat, kind = "tool" => id # 0,
         NEW block, block.kind = kind, s.open # block
  PROVE  /\ EnsureBlock(s, block, id) \in Seq(Msg)
         /\ Opened(s, block).open = block /\ Opened(s, block).index = t.n
         /\ Opened(s, block).started = s.started /\ Opened(s, block).usage = s.usage
         /\ Opened(s, block).why = s.why /\ Opened(s, block).tool = s.tool
         /\ \E v \in Tale :
              /\ Along("chat", "messages", m, EnsureBlock(s, block, id), v)
              /\ v.pc = "block" /\ v.kind = kind /\ v.n = t.n + 1 /\ v.c = Begun(t.c, kind, id)
              /\ v.why = "none" /\ v.usage = m.usage /\ ~v.marked /\ v.signed = m.signed
<1>1. m.n = t.n /\ m.c = t.c
  BY ChatStageParts
<1>2. /\ CloseBlock(s) \in Seq(Msg) /\ NextIndex(s) = t.n
      /\ \E v \in Tale :
           /\ Along("chat", "messages", m, CloseBlock(s), v)
           /\ v.pc = "open" /\ v.kind = m.kind /\ v.n = m.n /\ v.c = m.c /\ v.why = "none"
           /\ v.usage = m.usage /\ ~v.marked /\ v.signed = m.signed
  BY ChatCloses
<1>3. PICK w \in Tale :
        /\ Along("chat", "messages", m, CloseBlock(s), w)
        /\ w.pc = "open" /\ w.n = t.n /\ w.c = t.c /\ w.why = "none"
        /\ w.usage = m.usage /\ ~w.marked /\ w.signed = m.signed
  BY <1>1, <1>2
<1>4. PICK n : n = t.n
  OBVIOUS
<1>5. /\ BlockStart(n, kind, id) \in Msg
      /\ \E v \in Tale :
           /\ Goes("chat", "messages", w, BlockStart(n, kind, id), v)
           /\ v.pc = "block" /\ v.kind = kind /\ v.n = w.n + 1 /\ v.c = Begun(w.c, kind, id)
           /\ v.why = w.why /\ v.usage = w.usage /\ v.marked = w.marked
           /\ v.signed = w.signed
  BY <1>3, <1>4, TellersAre, BlockStartIs
<1>6. PICK v \in Tale :
        /\ Goes("chat", "messages", w, BlockStart(n, kind, id), v)
        /\ v.pc = "block" /\ v.kind = kind /\ v.n = t.n + 1 /\ v.c = Begun(t.c, kind, id)
        /\ v.why = "none" /\ v.usage = m.usage /\ ~v.marked /\ v.signed = m.signed
  BY <1>3, <1>5
<1>7. EnsureBlock(s, block, id) = CloseBlock(s) \o <<BlockStart(n, kind, id)>>
  BY <1>2, <1>4 DEF EnsureBlock
<1>8. /\ Opened(s, block).open = block /\ Opened(s, block).index = t.n
      /\ Opened(s, block).started = s.started /\ Opened(s, block).usage = s.usage
      /\ Opened(s, block).why = s.why /\ Opened(s, block).tool = s.tool
  BY <1>2 DEF Opened, Inward
<1>9. PICK q \in Seq(Msg) :
        q = <<BlockStart(n, kind, id)>> /\ Along("chat", "messages", w, q, v)
  BY <1>5, <1>6, AlongEvent
<1>10. /\ EnsureBlock(s, block, id) \in Seq(Msg)
       /\ Along("chat", "messages", m, EnsureBlock(s, block, id), v)
  <2>1. PICK p \in Seq(Msg) : p = CloseBlock(s)
    BY <1>2
  <2>2. Along("chat", "messages", m, p, w)
    BY <1>3, <2>1
  <2>3. p \o q \in Seq(Msg) /\ Along("chat", "messages", m, p \o q, v)
    BY <1>9, <2>2, AlongSeqs
  <2> QED BY <1>7, <1>9, <2>1, <2>3
<1> QED BY <1>6, <1>8, <1>10

ChatGoesOn(t, s, m, ev) ==
  LET y == ChatToMessages(s, ev)
  IN /\ y.capture = NoCapture
     /\ \E v \in Tale :
          Along("chat", "messages", m, y.out, v) /\ ChatStage(Tell(t, ev), y.st, v)
     /\ InUsage(Tell(t, ev).usage) = IF y.usage = NoUsage THEN InUsage(t.usage) ELSE y.usage

LEMMA ChatGoes ==
  ASSUME NEW t, NEW s, NEW m, NEW ev, NEW v \in Tale, NEW b, NEW y,
         y = ChatToMessages(s, ev), y.capture = NoCapture, b = Tell(t, ev),
         Along("chat", "messages", m, y.out, v), ChatStage(b, y.st, v),
         InUsage(b.usage) = IF y.usage = NoUsage THEN InUsage(t.usage) ELSE y.usage
  PROVE  ChatGoesOn(t, s, m, ev)
BY DEF ChatGoesOn

LEMMA ChatFinishes ==
  ASSUME NEW t \in Tale, NEW s \in Inward, NEW m \in Tale, ChatStage(t, s, m), NEW ev \in Msg,
         ev.e = "chunk", ev.kind = "finish", t.pc = "open",
         ev.why \in {"stop", "tool_calls", "length", "content_filter"}, May("chat", "chat", t, ev)
  PROVE  ChatGoesOn(t, s, m, ev)
<1>1. PICK y : y = ChatToMessages(s, ev)
  OBVIOUS
<1>2. /\ m.n = t.n /\ m.kind = t.kind /\ m.c = t.c /\ m.signed = <<>> /\ ~m.marked
      /\ t.signed = <<>> /\ (s.tool <=> (t.c.tools # <<>>)) /\ ChatUnderWay(t, s, m)
      /\ s.started /\ s.usage = InUsage(t.usage) /\ m.usage = ZeroUsage
  BY ChatStageParts
<1>3. /\ y.out = <<>> /\ y.st = [s EXCEPT !.why = FinishToStop(ev.why)] /\ y.usage = NoUsage
      /\ y.capture = NoCapture
  BY <1>1, <1>2, ChatPush
<1>4. /\ y.st.started = s.started /\ y.st.index = s.index /\ y.st.open = s.open
      /\ y.st.tool = s.tool /\ y.st.usage = s.usage /\ y.st.why = FinishToStop(ev.why)
  BY <1>3 DEF Inward
<1>5. PICK v \in Tale : v = Tell(t, ev)
  BY TellTyped, MsgParts DEF Dialect
<1>6. v = [t EXCEPT !.pc = "told", !.why = ev.why]
  BY <1>5 DEF Tell, TellChunk, IsError
<1>7. /\ v.pc = "told" /\ v.n = t.n /\ v.kind = t.kind /\ v.c = t.c /\ v.why = ev.why
      /\ v.usage = t.usage /\ v.signed = t.signed
  BY <1>6, TaleIsRecord DEF TaleRecord
<1>8. ThisBlock(v) = ThisBlock(t)
  BY <1>7 DEF ThisBlock, ToolsOf
<1>9. /\ v.n = 0 => m.pc = "open" /\ y.st.open = NoBlock /\ y.st.index = 0
      /\ v.n # 0 => m.pc = "block" /\ y.st.index + 1 = v.n /\ y.st.open = ThisBlock(v)
  BY <1>2, <1>4, <1>7, <1>8 DEF ChatUnderWay
<1>10. ChatStage(v, y.st, m)
  <2>1. PICK z : z = y.st
    OBVIOUS
  <2>2. /\ z.started /\ (z.tool <=> (v.c.tools # <<>>)) /\ z.usage = InUsage(v.usage)
        /\ z.why = IF v.why = "none" THEN "none" ELSE FinishToStop(v.why)
    BY <1>2, <1>4, <1>7, <2>1
  <2> QED BY <1>2, <1>7, <1>9, <2>1, <2>2, ChatStageNext
<1>11. Along("chat", "messages", m, y.out, m)
  BY <1>3, AlongNone
<1> QED BY <1>1, <1>3, <1>5, <1>7, <1>10, <1>11, ChatGoes

LEMMA ChatReports ==
  ASSUME None \notin Nat,
         NEW t \in Tale, NEW s \in Inward, NEW m \in Tale, ChatStage(t, s, m), NEW ev \in Msg,
         ev.e = "chunk", ev.kind = "usage", t.pc \in {"open", "told"}, ev.usage # NoUsage,
         May("chat", "chat", t, ev)
  PROVE  ChatGoesOn(t, s, m, ev)
<1>1. PICK y : y = ChatToMessages(s, ev)
  OBVIOUS
<1>2. /\ m.n = t.n /\ m.kind = t.kind /\ m.c = t.c /\ m.signed = <<>> /\ ~m.marked
      /\ t.signed = <<>> /\ (s.tool <=> (t.c.tools # <<>>)) /\ ChatUnderWay(t, s, m)
      /\ s.started /\ m.usage = ZeroUsage
      /\ s.why = IF t.why = "none" THEN "none" ELSE FinishToStop(t.why)
  BY ChatStageParts
<1>3. /\ y.out = <<>> /\ y.st = [s EXCEPT !.usage = Exclusive(ev.usage)]
      /\ y.usage = Exclusive(ev.usage) /\ y.capture = NoCapture
  BY <1>1, <1>2, ChatPush
<1>4. /\ y.st.started = s.started /\ y.st.index = s.index /\ y.st.open = s.open
      /\ y.st.tool = s.tool /\ y.st.usage = Exclusive(ev.usage) /\ y.st.why = s.why
  BY <1>3 DEF Inward
<1>5. PICK v \in Tale : v = Tell(t, ev)
  BY TellTyped, MsgParts DEF Dialect
<1>6. v = [t EXCEPT !.usage = ev.usage]
  BY <1>5 DEF Tell, TellChunk, IsError
<1>7. /\ v.pc = t.pc /\ v.n = t.n /\ v.kind = t.kind /\ v.c = t.c /\ v.why = t.why
      /\ v.usage = ev.usage /\ v.signed = t.signed
  BY <1>6, TaleIsRecord DEF TaleRecord
<1>8. ThisBlock(v) = ThisBlock(t)
  BY <1>7 DEF ThisBlock, ToolsOf
<1>9. /\ v.n = 0 => m.pc = "open" /\ y.st.open = NoBlock /\ y.st.index = 0
      /\ v.n # 0 => m.pc = "block" /\ y.st.index + 1 = v.n /\ y.st.open = ThisBlock(v)
  BY <1>2, <1>4, <1>7, <1>8 DEF ChatUnderWay
<1>10. y.st.usage = InUsage(v.usage)
  BY <1>4, <1>7 DEF InUsage
<1>11. ChatStage(v, y.st, m)
  <2>1. PICK z : z = y.st
    OBVIOUS
  <2>2. /\ z.started /\ (z.tool <=> (v.c.tools # <<>>)) /\ z.usage = InUsage(v.usage)
        /\ z.why = IF v.why = "none" THEN "none" ELSE FinishToStop(v.why)
    BY <1>2, <1>4, <1>7, <1>10, <2>1
  <2> QED BY <1>2, <1>7, <1>9, <2>1, <2>2, ChatStageNext
<1>12. Along("chat", "messages", m, y.out, m)
  BY <1>3, AlongNone
<1>13. Exclusive(ev.usage) # NoUsage
  <2>1. Exclusive(ev.usage) \in Plain /\ "prompt" \in UsageField
    BY UsageIsNatural, MsgParts DEF UsageField
  <2> QED BY <2>1 DEF Plain, NoUsage
<1>14. InUsage(v.usage) = IF y.usage = NoUsage THEN InUsage(t.usage) ELSE y.usage
  BY <1>3, <1>4, <1>10, <1>13
<1> QED BY <1>1, <1>3, <1>5, <1>11, <1>12, <1>14, ChatGoes

LEMMA BegunTools ==
  ASSUME NEW t \in Tale, NEW kind \in BlockKind, NEW id \in Nat
  PROVE  /\ kind # "tool" => Begun(t.c, kind, id).tools = t.c.tools
         /\ kind = "tool" =>
              Begun(t.c, kind, id).tools = Append(t.c.tools, [id |-> id, text |-> <<>>])
         /\ kind = "tool" => /\ Begun(t.c, kind, id).tools # <<>>
                             /\ Len(Begun(t.c, kind, id).tools) = Len(t.c.tools) + 1
<1>1. PICK c \in Content : c = t.c
  BY TaleParts
<1>2. /\ kind # "tool" => Begun(c, kind, id).tools = c.tools
      /\ kind = "tool" => Begun(c, kind, id).tools = Append(c.tools, [id |-> id, text |-> <<>>])
  BY DEF Begun, Content
<1>3. [id |-> id, text |-> <<>>] \in ToolCalled /\ c.tools \in Seq(ToolCalled)
  BY TuplesAreSeqs, ContentParts DEF ToolCalled
<1>4. PICK x \in ToolCalled : x = [id |-> id, text |-> <<>>]
  BY <1>3
<1>5. Len(Append(c.tools, x)) = Len(c.tools) + 1 /\ Append(c.tools, x) # <<>>
  BY <1>3, AppendProperties
<1> QED BY <1>1, <1>2, <1>4, <1>5

LEMMA ChatPushesOnly ==
  ASSUME NEW s \in Inward, s.started, NEW ev \in Msg, ev.e = "chunk",
         NEW kind \in BlockKind, NEW id, ev.kind = kind, ev.id = id,
         NEW y, y = ChatToMessages(s, ev), NEW z, z = y.st, NEW block, block = Named(ev),
         EnsureBlock(s, block, id) \in Seq(Msg), ev.frag = 0
  PROVE  /\ y.out = <<>> \o EnsureBlock(s, block, id)
         /\ z.open = Opened(s, block).open /\ z.index = Opened(s, block).index
         /\ z.started /\ z.usage = s.usage /\ z.why = s.why
         /\ (z.tool <=> s.tool \/ kind = "tool")
         /\ y.usage = NoUsage /\ y.capture = NoCapture
<1>1. [s EXCEPT !.started = TRUE] = s
  BY DEF Inward
<1>2. EnsureStarted(s) = <<>>
  BY DEF EnsureStarted
<1>3. PICK o : o = Opened(s, block)
  OBVIOUS
<1>3b. PICK x : x = [o EXCEPT !.tool = o.tool \/ kind = "tool"]
  OBVIOUS
<1>3c. /\ x.open = o.open /\ x.index = o.index /\ x.started /\ x.usage = s.usage
       /\ x.why = s.why /\ (x.tool <=> s.tool \/ kind = "tool")
  BY <1>3, <1>3b DEF Opened, Inward
<1>4. PICK p \in Seq(Msg) : p = EnsureBlock(s, block, id)
  OBVIOUS
<1>5. ChatToMessages(s, ev) =
        Yield(x,
              <<>> \o p \o (IF ev.frag = 0 THEN <<>> ELSE <<BlockDelta(o.index, kind, ev.frag)>>))
  BY <1>1, <1>2, <1>3, <1>3b, <1>4 DEF ChatToMessages, BlockKind, Named
<1>6. /\ y.st = x /\ y.usage = NoUsage /\ y.capture = NoCapture
      /\ y.out = <<>> \o p \o (IF ev.frag = 0 THEN <<>> ELSE <<BlockDelta(o.index, kind, ev.frag)>>)
  BY <1>5 DEF Yield
<1>7. <<>> \o p \o <<>> = <<>> \o p
  OBVIOUS
<1>8. z = x
  BY <1>6
<1> QED BY <1>3, <1>3c, <1>4, <1>6, <1>7, <1>8

LEMMA ChatPushes ==
  ASSUME NEW s \in Inward, s.started, NEW ev \in Msg, ev.e = "chunk",
         NEW kind \in BlockKind, NEW id, ev.kind = kind, ev.id = id,
         NEW y, y = ChatToMessages(s, ev), NEW z, z = y.st, NEW block, block = Named(ev),
         EnsureBlock(s, block, id) \in Seq(Msg), ev.frag # 0
  PROVE  /\ y.out = <<>> \o EnsureBlock(s, block, id)
                                \o <<BlockDelta(Opened(s, block).index, kind, ev.frag)>>
         /\ z.open = Opened(s, block).open /\ z.index = Opened(s, block).index
         /\ z.started /\ z.usage = s.usage /\ z.why = s.why
         /\ (z.tool <=> s.tool \/ kind = "tool")
         /\ y.usage = NoUsage /\ y.capture = NoCapture
<1>1. [s EXCEPT !.started = TRUE] = s
  BY DEF Inward
<1>2. EnsureStarted(s) = <<>>
  BY DEF EnsureStarted
<1>3. PICK o : o = Opened(s, block)
  OBVIOUS
<1>3b. PICK x : x = [o EXCEPT !.tool = o.tool \/ kind = "tool"]
  OBVIOUS
<1>3c. /\ x.open = o.open /\ x.index = o.index /\ x.started /\ x.usage = s.usage
       /\ x.why = s.why /\ (x.tool <=> s.tool \/ kind = "tool")
  BY <1>3, <1>3b DEF Opened, Inward
<1>4. PICK p \in Seq(Msg) : p = EnsureBlock(s, block, id)
  OBVIOUS
<1>5. ChatToMessages(s, ev) =
        Yield(x,
              <<>> \o p \o (IF ev.frag = 0 THEN <<>> ELSE <<BlockDelta(o.index, kind, ev.frag)>>))
  BY <1>1, <1>2, <1>3, <1>3b, <1>4 DEF ChatToMessages, BlockKind, Named
<1>6. /\ y.st = x /\ y.usage = NoUsage /\ y.capture = NoCapture
      /\ y.out = <<>> \o p \o (IF ev.frag = 0 THEN <<>> ELSE <<BlockDelta(o.index, kind, ev.frag)>>)
  BY <1>5 DEF Yield
<1>7. <<>> \o p \o <<>> = <<>> \o p
  OBVIOUS
<1>8. z = x
  BY <1>6
<1> QED BY <1>3, <1>3c, <1>4, <1>6, <1>7, <1>8

LEMMA ChatMore ==
  ASSUME NEW t \in Tale, NEW s \in Inward, NEW m \in Tale, ChatStage(t, s, m), NEW ev \in Msg,
         ev.e = "chunk", NEW kind \in BlockKind, NEW j \in Nat, NEW id \in Nat, NEW frag \in Nat,
         ev.kind = kind, ev.i = j, ev.id = id, ev.frag = frag,
         t.pc = "open", t.kind = kind, frag # 0,
         kind = "tool" => id = 0 /\ j + 1 = ToolsOf(t), kind # "tool" => j = 0
  PROVE  ChatGoesOn(t, s, m, ev)
<1>1. PICK y : y = ChatToMessages(s, ev)
  OBVIOUS
<1>1z. PICK z : z = y.st
  OBVIOUS
<1>2. /\ m.n = t.n /\ m.kind = t.kind /\ m.c = t.c /\ m.signed = <<>> /\ ~m.marked
      /\ t.signed = <<>> /\ (s.tool <=> (t.c.tools # <<>>)) /\ ChatUnderWay(t, s, m)
      /\ s.started /\ s.usage = InUsage(t.usage) /\ m.usage = ZeroUsage
      /\ s.why = IF t.why = "none" THEN "none" ELSE FinishToStop(t.why)
  BY ChatStageParts
<1>3. /\ t.n # 0 /\ t.n \in Nat /\ ToolsOf(t) \in Nat
  BY TaleParts DEF ToolsOf, BlockKind
<1>4. m.pc = "block" /\ s.index + 1 = t.n /\ s.open = ThisBlock(t)
  BY <1>2, <1>3 DEF ChatUnderWay
<1>5a. PICK block : block = Named(ev)
  OBVIOUS
<1>5. block = [kind |-> kind, i |-> j]
  BY <1>5a DEF Named
<1>5b. block.kind = kind
  BY <1>5
<1>6. s.open = block
  BY <1>3, <1>4, <1>5 DEF ThisBlock
<1>7. PICK i \in Nat : i = s.index
  BY InwardIs
<1>8. Opened(s, block) = s /\ EnsureBlock(s, block, id) = <<>>
  BY <1>6 DEF Opened, EnsureBlock
<1>8b. EnsureBlock(s, block, id) \in Seq(Msg)
  BY <1>8, TuplesAreSeqs
<1>8a. /\ y.out = <<>> \o EnsureBlock(s, block, id)
                                    \o <<BlockDelta(Opened(s, block).index, kind, frag)>>
       /\ z.open = Opened(s, block).open /\ z.index = Opened(s, block).index
       /\ z.started /\ z.usage = s.usage /\ z.why = s.why
       /\ (z.tool <=> s.tool \/ kind = "tool")
       /\ y.usage = NoUsage /\ y.capture = NoCapture
  BY <1>1, <1>1z, <1>2, <1>5a, <1>8b, ChatPushes, SMTT(30)
<1>9. /\ y.out = <<>> \o <<>> \o <<BlockDelta(i, kind, frag)>> /\ y.usage = NoUsage
      /\ y.capture = NoCapture /\ z.open = s.open /\ z.index = s.index
      /\ z.started /\ z.usage = s.usage /\ z.why = s.why
      /\ (z.tool <=> s.tool \/ kind = "tool")
  BY <1>7, <1>8, <1>8a
<1>10. i + 1 = m.n /\ kind = m.kind /\ m.pc = "block"
  BY <1>2, <1>4, <1>7
<1>11. /\ BlockDelta(i, kind, frag) \in Msg
       /\ \E w \in Tale :
            /\ Goes("chat", "messages", m, BlockDelta(i, kind, frag), w)
            /\ w.pc = m.pc /\ w.kind = m.kind /\ w.n = m.n
            /\ w.c = MoreOfLast(m.c, kind, frag) /\ w.why = m.why /\ w.usage = m.usage
            /\ w.marked = m.marked /\ w.signed = m.signed
  BY <1>10, TellersAre, BlockDeltaIs, SMTT(30)
<1>12. PICK w \in Tale :
         /\ Goes("chat", "messages", m, BlockDelta(i, kind, frag), w)
         /\ w.pc = "block" /\ w.kind = t.kind /\ w.n = t.n
         /\ w.c = MoreOfLast(t.c, kind, frag) /\ w.usage = ZeroUsage
         /\ ~w.marked /\ w.signed = <<>>
  BY <1>2, <1>4, <1>11
<1>13. PICK v \in Tale : v = NextPiece(t, kind, frag)
  BY NextPieceIs
<1>14. /\ v.c = MoreOfLast(t.c, kind, frag) /\ v.pc = t.pc /\ v.kind = t.kind /\ v.n = t.n
       /\ v.why = t.why /\ v.usage = t.usage /\ v.signed = t.signed
       /\ Len(v.c.tools) = Len(t.c.tools) /\ ((v.c.tools = <<>>) <=> (t.c.tools = <<>>))
  BY <1>13, NextPieceIs
<1>15. v = Tell(t, ev)
  BY <1>13 DEF Tell, TellChunk, IsError, BlockKind
<1>16. ThisBlock(v) = ThisBlock(t)
  BY <1>14 DEF ThisBlock, ToolsOf
<1>17. t.kind = "tool" => t.c.tools # <<>>
  BY TaleParts
<1>19. /\ z.started /\ z.index = s.index /\ z.open = s.open /\ z.usage = s.usage
       /\ z.why = s.why /\ (z.tool <=> s.tool \/ kind = "tool")
  BY <1>9, <1>1z
<1>20. ChatStage(v, z, w)
  <2>1. /\ (z.tool <=> (v.c.tools # <<>>)) /\ z.usage = InUsage(v.usage)
        /\ z.why = IF v.why = "none" THEN "none" ELSE FinishToStop(v.why)
    BY <1>2, <1>14, <1>17, <1>19
  <2>2. v.n # 0 /\ w.pc = "block" /\ z.index + 1 = v.n /\ z.open = ThisBlock(v)
    BY <1>3, <1>4, <1>12, <1>14, <1>16, <1>19
  <2> QED BY <1>2, <1>12, <1>14, <1>19, <2>1, <2>2, ChatStageNext
<1>21. Along("chat", "messages", m, y.out, w)
  <2>1. PICK q \in Seq(Msg) :
          q = <<BlockDelta(i, kind, frag)>> /\ Along("chat", "messages", m, q, w)
    BY <1>11, <1>12, AlongEvent
  <2>2. <<>> \o <<>> \o q = q
    OBVIOUS
  <2> QED BY <1>9, <2>1, <2>2
<1> QED BY <1>1, <1>9, <1>14, <1>15, <1>1z, <1>20, <1>21, ChatGoes

LEMMA ChatBegins ==
  ASSUME NEW t \in Tale, NEW s \in Inward, NEW m \in Tale, ChatStage(t, s, m), NEW ev \in Msg,
         ev.e = "chunk", NEW kind \in BlockKind, NEW j \in Nat, NEW id \in Nat, NEW frag \in Nat,
         ev.kind = kind, ev.i = j, ev.id = id, ev.frag = frag,
         t.pc = "open", t.kind # kind, kind # "tool", id < 1, j < 1, frag # 0
  PROVE  ChatGoesOn(t, s, m, ev)
<1>1. PICK y : y = ChatToMessages(s, ev)
  OBVIOUS
<1>1z. PICK z : z = y.st
  OBVIOUS
<1>2. /\ m.signed = <<>> /\ t.signed = <<>> /\ (s.tool <=> (t.c.tools # <<>>))
      /\ ChatUnderWay(t, s, m)
      /\ s.started /\ s.usage = InUsage(t.usage) /\ m.usage = ZeroUsage
      /\ s.why = IF t.why = "none" THEN "none" ELSE FinishToStop(t.why)
  BY ChatStageParts
<1>3. t.n \in Nat /\ ~t.marked
  BY TaleParts
<1>4. id = 0 /\ j = 0
  OBVIOUS
<1>5a. PICK block : block = Named(ev)
  OBVIOUS
<1>5. block = [kind |-> kind, i |-> j]
  BY <1>5a, <1>4 DEF Named
<1>5b. block.kind = kind
  BY <1>5
<1>6. s.open # block
  BY <1>2, <1>3, <1>5 DEF ChatUnderWay, ThisBlock, NoBlock, BlockKind
<1>7. /\ EnsureBlock(s, block, id) \in Seq(Msg)
      /\ Opened(s, block).open = block /\ Opened(s, block).index = t.n
      /\ Opened(s, block).started = s.started /\ Opened(s, block).usage = s.usage
      /\ Opened(s, block).why = s.why /\ Opened(s, block).tool = s.tool
      /\ \E v \in Tale :
           /\ Along("chat", "messages", m, EnsureBlock(s, block, id), v)
           /\ v.pc = "block" /\ v.kind = kind /\ v.n = t.n + 1 /\ v.c = Begun(t.c, kind, id)
           /\ v.why = "none" /\ v.usage = m.usage /\ ~v.marked /\ v.signed = m.signed
  BY <1>5b, <1>6, ChatOpens
<1>7a. EnsureBlock(s, block, id) \in Seq(Msg)
  BY <1>7
<1>7b. s.started /\ ev.id = id
  BY <1>2, <1>4
<1>7c. /\ y.out = <<>> \o EnsureBlock(s, block, id)
                   \o <<BlockDelta(Opened(s, block).index, kind, frag)>>
       /\ z.open = Opened(s, block).open /\ z.index = Opened(s, block).index
       /\ z.started /\ z.usage = s.usage /\ z.why = s.why
       /\ (z.tool <=> s.tool \/ kind = "tool")
       /\ y.usage = NoUsage /\ y.capture = NoCapture
  BY <1>1, <1>1z, <1>5a, <1>7a, <1>7b, ChatPushes, SMTT(30)
<1>8. PICK i \in Nat : i = t.n
  BY <1>3
<1>9. PICK p \in Seq(Msg) : p = EnsureBlock(s, block, id)
  BY <1>7
<1>10. Opened(s, block).index = i
  BY <1>7, <1>8
<1>11. /\ y.out = <<>> \o p \o <<BlockDelta(i, kind, frag)>> /\ y.usage = NoUsage
       /\ y.capture = NoCapture
       /\ z.open = Opened(s, block).open /\ z.index = Opened(s, block).index
       /\ z.started /\ z.usage = s.usage /\ z.why = s.why
       /\ (z.tool <=> s.tool \/ kind = "tool")
  BY <1>7c, <1>9, <1>10
<1>12. PICK x \in Tale :
         /\ Along("chat", "messages", m, p, x)
         /\ x.pc = "block" /\ x.kind = kind /\ x.n = t.n + 1 /\ x.c = Begun(t.c, kind, id)
         /\ x.usage = ZeroUsage /\ ~x.marked /\ x.signed = <<>>
  BY <1>2, <1>7, <1>9
<1>13. i + 1 = x.n /\ kind = x.kind /\ x.pc = "block"
  BY <1>8, <1>12
<1>14. /\ BlockDelta(i, kind, frag) \in Msg
       /\ \E w \in Tale :
            /\ Goes("chat", "messages", x, BlockDelta(i, kind, frag), w)
            /\ w.pc = x.pc /\ w.kind = x.kind /\ w.n = x.n
            /\ w.c = MoreOfLast(x.c, kind, frag) /\ w.why = x.why /\ w.usage = x.usage
            /\ w.marked = x.marked /\ w.signed = x.signed
  BY <1>13, TellersAre, BlockDeltaIs, SMTT(30)
<1>15. PICK w \in Tale :
         /\ Goes("chat", "messages", x, BlockDelta(i, kind, frag), w)
         /\ w.pc = "block" /\ w.kind = kind /\ w.n = t.n + 1
         /\ w.c = MoreOfLast(Begun(t.c, kind, id), kind, frag) /\ w.usage = ZeroUsage
         /\ ~w.marked /\ w.signed = <<>>
  BY <1>12, <1>14
<1>16. PICK b \in Tale :
         /\ b = NextBlock(t, kind, id)
         /\ b.c = Begun(t.c, kind, id) /\ b.pc = t.pc /\ b.kind = kind /\ b.n = t.n + 1
         /\ b.why = t.why /\ b.usage = t.usage /\ b.signed = t.signed
  BY <1>3, NextBlockIs
<1>17. PICK v \in Tale : v = NextPiece(b, kind, frag)
  BY <1>16, NextPieceIs
<1>18. /\ v.c = MoreOfLast(b.c, kind, frag) /\ v.pc = b.pc /\ v.kind = b.kind /\ v.n = b.n
       /\ v.why = b.why /\ v.usage = b.usage /\ v.signed = b.signed
       /\ ((v.c.tools = <<>>) <=> (b.c.tools = <<>>))
  BY <1>16, <1>17, NextPieceIs
<1>19. v = Tell(t, ev)
  BY <1>4, <1>16, <1>17 DEF Tell, TellChunk, IsError, BlockKind
<1>20. b.c.tools = t.c.tools
  <2>1. Begun(t.c, kind, id).tools = t.c.tools
    BY BegunTools
  <2> QED BY <1>16, <2>1
<1>22. /\ z.started /\ z.index = t.n /\ z.open = block /\ z.usage = s.usage
       /\ z.why = s.why /\ (z.tool <=> s.tool)
  BY <1>7, <1>11, <1>1z
<1>23. ThisBlock(v) = block
  BY <1>4, <1>5, <1>16, <1>18 DEF ThisBlock
<1>24. ChatStage(v, z, w)
  <2>1. /\ (z.tool <=> (v.c.tools # <<>>)) /\ z.usage = InUsage(v.usage)
        /\ z.why = IF v.why = "none" THEN "none" ELSE FinishToStop(v.why)
    BY <1>2, <1>16, <1>18, <1>20, <1>22
  <2>2. v.n # 0 /\ w.pc = "block" /\ z.index + 1 = v.n /\ z.open = ThisBlock(v)
    BY <1>3, <1>15, <1>16, <1>18, <1>22, <1>23
  <2>3. v.pc = "open" /\ w.n = v.n /\ w.kind = v.kind /\ w.c = v.c /\ v.signed = <<>>
    BY <1>2, <1>15, <1>16, <1>18
  <2> QED BY <1>15, <1>22, <2>1, <2>2, <2>3, ChatStageNext
<1>25. Along("chat", "messages", m, y.out, w)
  <2>1. PICK q \in Seq(Msg) :
          q = <<BlockDelta(i, kind, frag)>> /\ Along("chat", "messages", x, q, w)
    BY <1>14, <1>15, AlongEvent
  <2>2. Along("chat", "messages", m, p \o q, w)
    BY <1>12, <2>1, AlongSeqs
  <2>3. <<>> \o p \o q = p \o q
    OBVIOUS
  <2> QED BY <1>11, <2>1, <2>2, <2>3
<1>26. v.usage = t.usage
  BY <1>16, <1>18
<1> QED BY <1>1, <1>11, <1>19, <1>1z, <1>24, <1>25, <1>26, ChatGoes

LEMMA ChatCalls ==
  ASSUME NEW t \in Tale, NEW s \in Inward, NEW m \in Tale, ChatStage(t, s, m), NEW ev \in Msg,
         ev.e = "chunk", NEW kind \in BlockKind, NEW j \in Nat, NEW id \in Nat, NEW frag \in Nat,
         ev.kind = kind, ev.i = j, ev.id = id, ev.frag = frag, t.pc = "open",
         kind \notin {"text", "thinking"}, id # 0, frag < 1, j = ToolsOf(t)
  PROVE  ChatGoesOn(t, s, m, ev)
<1>1. PICK y : y = ChatToMessages(s, ev)
  OBVIOUS
<1>1z. PICK z : z = y.st
  OBVIOUS
<1>2. /\ m.signed = <<>> /\ t.signed = <<>> /\ (s.tool <=> (t.c.tools # <<>>))
      /\ ChatUnderWay(t, s, m)
      /\ s.started /\ s.usage = InUsage(t.usage) /\ m.usage = ZeroUsage
      /\ s.why = IF t.why = "none" THEN "none" ELSE FinishToStop(t.why)
  BY ChatStageParts
<1>2a. s.started
  BY <1>2
<1>3. t.n \in Nat /\ ~t.marked /\ ToolsOf(t) \in Nat
  BY TaleParts DEF ToolsOf
<1>4. kind = "tool" /\ frag = 0
  BY DEF BlockKind
<1>4b. ev.frag = 0
  BY <1>4
<1>5a. PICK block : block = Named(ev)
  OBVIOUS
<1>5. block = [kind |-> kind, i |-> j]
  BY <1>4, <1>5a DEF Named
<1>5b. block.kind = kind
  BY <1>5
<1>6. s.open # block
  BY <1>2, <1>3, <1>4, <1>5 DEF ChatUnderWay, ThisBlock, NoBlock
<1>7. /\ EnsureBlock(s, block, id) \in Seq(Msg)
      /\ Opened(s, block).open = block /\ Opened(s, block).index = t.n
      /\ Opened(s, block).started = s.started /\ Opened(s, block).usage = s.usage
      /\ Opened(s, block).why = s.why /\ Opened(s, block).tool = s.tool
      /\ \E v \in Tale :
           /\ Along("chat", "messages", m, EnsureBlock(s, block, id), v)
           /\ v.pc = "block" /\ v.kind = kind /\ v.n = t.n + 1 /\ v.c = Begun(t.c, kind, id)
           /\ v.why = "none" /\ v.usage = m.usage /\ ~v.marked /\ v.signed = m.signed
  BY <1>5b, <1>6, ChatOpens
<1>7a. EnsureBlock(s, block, id) \in Seq(Msg)
  BY <1>7
<1>8. PICK p \in Seq(Msg) : p = EnsureBlock(s, block, id)
  BY <1>7
<1>8a. /\ y.out = <<>> \o EnsureBlock(s, block, id)
       /\ z.open = Opened(s, block).open /\ z.index = Opened(s, block).index
       /\ z.started /\ z.usage = s.usage /\ z.why = s.why
       /\ (z.tool <=> s.tool \/ kind = "tool")
       /\ y.usage = NoUsage /\ y.capture = NoCapture
  BY <1>1, <1>1z, <1>2a, <1>5a, <1>4b, <1>7a, ChatPushesOnly
<1>9. /\ y.out = <<>> \o p /\ y.usage = NoUsage /\ y.capture = NoCapture
      /\ z.open = Opened(s, block).open /\ z.index = Opened(s, block).index
      /\ z.started /\ z.usage = s.usage /\ z.why = s.why
      /\ (z.tool <=> s.tool \/ kind = "tool")
  BY <1>4, <1>8, <1>8a
<1>10. PICK w \in Tale :
         /\ Along("chat", "messages", m, p, w)
         /\ w.pc = "block" /\ w.kind = kind /\ w.n = t.n + 1 /\ w.c = Begun(t.c, kind, id)
         /\ w.usage = ZeroUsage /\ ~w.marked /\ w.signed = <<>>
  BY <1>2, <1>7, <1>8
<1>11. PICK v \in Tale :
         /\ v = NextBlock(t, kind, id)
         /\ v.c = Begun(t.c, kind, id) /\ v.pc = t.pc /\ v.kind = kind /\ v.n = t.n + 1
         /\ v.why = t.why /\ v.usage = t.usage /\ v.signed = t.signed
  BY <1>3, NextBlockIs
<1>12. v = Tell(t, ev)
  BY <1>4, <1>11 DEF Tell, TellChunk, IsError
<1>13. v.c.tools # <<>> /\ ToolsOf(v) = ToolsOf(t) + 1
  <2>1. /\ Begun(t.c, kind, id).tools # <<>>
        /\ Len(Begun(t.c, kind, id).tools) = Len(t.c.tools) + 1
    BY <1>4, BegunTools
  <2> QED BY <1>11, <2>1 DEF ToolsOf
<1>15. /\ z.started /\ z.index = t.n /\ z.open = block /\ z.usage = s.usage
       /\ z.why = s.why /\ z.tool
  BY <1>4, <1>7, <1>9, <1>1z
<1>16. ThisBlock(v) = block
  BY <1>3, <1>4, <1>5, <1>11, <1>13 DEF ThisBlock
<1>17. ChatStage(v, z, w)
  <2>1. /\ (z.tool <=> (v.c.tools # <<>>)) /\ z.usage = InUsage(v.usage)
        /\ z.why = IF v.why = "none" THEN "none" ELSE FinishToStop(v.why)
    BY <1>2, <1>11, <1>13, <1>15
  <2>2. v.n # 0 /\ w.pc = "block" /\ z.index + 1 = v.n /\ z.open = ThisBlock(v)
    BY <1>3, <1>10, <1>11, <1>15, <1>16
  <2>3. v.pc = "open" /\ w.n = v.n /\ w.kind = v.kind /\ w.c = v.c /\ v.signed = <<>>
    BY <1>2, <1>10, <1>11
  <2> QED BY <1>10, <1>15, <2>1, <2>2, <2>3, ChatStageNext
<1>18. Along("chat", "messages", m, y.out, w)
  <2>1. <<>> \o p = p
    OBVIOUS
  <2> QED BY <1>9, <1>10, <2>1
<1> QED BY <1>1, <1>9, <1>11, <1>12, <1>1z, <1>17, <1>18, ChatGoes

LEMMA FilledIs ==
  ASSUME None \notin Nat, NEW usage \in Usage
  PROVE  Filled(usage) \in Usage /\ Filled(usage) # NoUsage
<1>1. ZeroUsage \in Usage
  BY NoUsageIsUsage
<1>2. Filled(usage) \in Usage
  BY <1>1, MergedUsage DEF Filled
<1>3. "prompt" \in UsageField
  BY DEF UsageField
<1>4. Filled(usage)["prompt"] # None
  BY <1>3 DEF Filled, MergeUsage, ZeroUsage
<1>5. NoUsage["prompt"] = None
  BY <1>3 DEF NoUsage
<1> QED BY <1>2, <1>4, <1>5

\* The first chunk begins it.
LEMMA ChatStarts ==
  ASSUME NEW t \in Tale, NEW s \in Inward, NEW m \in Tale, ChatStage(t, s, m), NEW ev \in Msg,
         ev.e = "chunk", ev.kind = "role", t.pc = "start", May("chat", "chat", t, ev)
  PROVE  ChatGoesOn(t, s, m, ev)
<1>1. PICK y : y = ChatToMessages(s, ev)
  OBVIOUS
<1>2. PICK z : z = y.st
  OBVIOUS
<1>3. t = Untold /\ m = Untold /\ s = InwardInit
  BY DEF ChatStage
<1>4. /\ m.pc = "start" /\ m.n = 0 /\ m.kind = "none" /\ m.c = NoContent /\ m.signed = <<>>
      /\ ~m.marked /\ t.n = 0 /\ t.kind = "none" /\ t.c = NoContent /\ t.signed = <<>>
      /\ t.why = "none" /\ t.usage = NoUsage
  BY <1>3 DEF Untold
<1>5. /\ y.out = <<MessageStart(ZeroUsage)>> /\ y.usage = NoUsage /\ y.capture = NoCapture
      /\ y.st = [InwardInit EXCEPT !.started = TRUE]
  BY <1>1, <1>3 DEF ChatToMessages, Yield, EnsureStarted, InwardInit, BlockKind
<1>6. /\ z.started /\ z.index = 0 /\ z.open = NoBlock /\ ~z.tool /\ z.why = "none"
      /\ z.usage = NoUsage
  BY <1>2, <1>5 DEF InwardInit
<1>7. PICK v \in Tale :
        /\ v = Tell(t, ev)
        /\ v.pc = "open" /\ v.kind = t.kind /\ v.n = t.n /\ v.c = t.c /\ v.why = t.why
        /\ v.usage = t.usage /\ v.signed = t.signed
  <2>1. Tell(t, ev) = [t EXCEPT !.pc = "open"]
    BY DEF Tell, TellChunk, IsError
  <2>2. PICK v : v = [t EXCEPT !.pc = "open"]
    OBVIOUS
  <2>3. /\ v.pc = "open" /\ v.kind = t.kind /\ v.n = t.n /\ v.c = t.c /\ v.why = t.why
        /\ v.usage = t.usage /\ v.signed = t.signed
    BY <2>2, TaleIsRecord DEF TaleRecord
  <2>4. Tell(t, ev) \in Tale
    BY TellTyped, MsgParts DEF Dialect
  <2> QED BY <2>1, <2>2, <2>3, <2>4
<1>8. ZeroUsage \in Usage
  BY NoUsageIsUsage
<1>9. /\ MessageStart(ZeroUsage) \in Msg
      /\ \E w \in Tale :
           /\ Goes("chat", "messages", m, MessageStart(ZeroUsage), w)
           /\ w.pc = "open" /\ w.kind = m.kind /\ w.n = m.n /\ w.c = m.c /\ w.why = m.why
           /\ w.usage = ZeroUsage /\ w.marked = m.marked /\ w.signed = m.signed
  BY <1>4, <1>8, TellersAre, StartIs
<1>10. PICK w \in Tale :
         /\ Goes("chat", "messages", m, MessageStart(ZeroUsage), w)
         /\ w.pc = "open" /\ w.kind = m.kind /\ w.n = m.n /\ w.c = m.c
         /\ w.usage = ZeroUsage /\ w.marked = m.marked /\ w.signed = m.signed
  BY <1>9
<1>11. Along("chat", "messages", m, y.out, w)
  BY <1>5, <1>9, <1>10, AlongEvent
<1>12. InUsage(v.usage) = NoUsage /\ InUsage(t.usage) = NoUsage
  BY <1>4, <1>7 DEF InUsage
<1>13. ChatStage(v, z, w)
  <2>1. v.c.tools = <<>>
    BY <1>4, <1>7 DEF NoContent
  <2> QED BY <1>4, <1>6, <1>7, <1>10, <1>12, <2>1, ChatStageNext
<1> QED BY <1>1, <1>2, <1>5, <1>7, <1>11, <1>12, <1>13, ChatGoes

\* [DONE] ends it.
LEMMA ChatIsDone ==
  ASSUME None \notin Nat,
         NEW t \in Tale, NEW s \in Inward, NEW m \in Tale, ChatStage(t, s, m), NEW ev \in Msg,
         ev.e = "[DONE]", t.pc \in {"open", "told"}
  PROVE  ChatGoesOn(t, s, m, ev)
<1>1. PICK y : y = ChatToMessages(s, ev)
  OBVIOUS
<1>2. PICK z : z = y.st
  OBVIOUS
<1>3. /\ m.n = t.n /\ m.kind = t.kind /\ m.c = t.c /\ m.signed = <<>> /\ ~m.marked
      /\ t.signed = <<>> /\ (s.tool <=> (t.c.tools # <<>>))
      /\ s.started /\ s.usage = InUsage(t.usage) /\ m.usage = ZeroUsage
      /\ s.why = IF t.why = "none" THEN "none" ELSE FinishToStop(t.why)
  BY ChatStageParts
<1>4. PICK why : why = IF s.why # "none" THEN s.why ELSE IF s.tool THEN "tool_use" ELSE "end_turn"
  OBVIOUS
<1>5. /\ why = IF t.why # "none" THEN FinishToStop(t.why) ELSE ToolsOrEnd(t)
      /\ why \in {"end_turn", "tool_use", "max_tokens", "refusal"}
  <2>1. FinishToStop(t.why) \in {"end_turn", "tool_use", "max_tokens", "refusal"}
    BY DEF FinishToStop
  <2> QED BY <1>3, <1>4, <2>1 DEF ToolsOrEnd
<1>6. InUsage(t.usage) \in Usage
  BY TaleParts, ExclusiveIsUsage, NoUsageIsUsage DEF InUsage
<1>7. PICK usage \in Usage : usage = Filled(s.usage)
  BY <1>3, <1>6, FilledIs
<1>7a. usage # NoUsage
  BY <1>3, <1>6, <1>7, FilledIs
<1>8. PICK p : p = CloseBlock(s)
  OBVIOUS
<1>9a. [s EXCEPT !.started = TRUE] = s /\ EnsureStarted(s) = <<>>
  BY <1>3 DEF Inward, EnsureStarted
<1>9b. PICK x : x = [s EXCEPT !.open = NoBlock, !.index = NextIndex(s)]
  OBVIOUS
<1>9c. usage = MergeUsage(ZeroUsage, s.usage)
  BY <1>7 DEF Filled
<1>9d. CloseBlock(s) = p
  BY <1>8
<1>9e. ChatToMessages(s, ev) = Yield(x, <<>> \o p \o <<MessageDelta(why, usage), MessageStop>>)
  <2>1. ChatToMessages(s, ev) =
          Yield([[s EXCEPT !.started = TRUE] EXCEPT !.open = NoBlock, !.index = NextIndex(s)],
                EnsureStarted(s) \o CloseBlock(s)
                  \o <<MessageDelta(IF s.why # "none" THEN s.why
                                    ELSE IF s.tool THEN "tool_use" ELSE "end_turn",
                                    MergeUsage(ZeroUsage, s.usage)), MessageStop>>)
    BY DEF ChatToMessages, Msg, Proper, BlockKind
  <2> QED BY <1>4, <1>9a, <1>9b, <1>9c, <1>9d, <2>1, Zenon
<1>9. /\ y.out = <<>> \o p \o <<MessageDelta(why, usage), MessageStop>>
      /\ y.usage = NoUsage /\ y.capture = NoCapture /\ y.st = x
  BY <1>1, <1>9e DEF Yield
<1>10. z.tool = s.tool
  BY <1>2, <1>9, <1>9b DEF Inward
<1>11. /\ CloseBlock(s) \in Seq(Msg) /\ NextIndex(s) = t.n
       /\ \E v \in Tale :
            /\ Along("chat", "messages", m, CloseBlock(s), v)
            /\ v.pc = "open" /\ v.kind = m.kind /\ v.n = m.n /\ v.c = m.c /\ v.why = "none"
            /\ v.usage = m.usage /\ ~v.marked /\ v.signed = m.signed
  BY ChatCloses
<1>12. PICK a \in Tale :
         /\ Along("chat", "messages", m, p, a)
         /\ a.pc = "open" /\ a.kind = t.kind /\ a.n = t.n /\ a.c = t.c
         /\ a.usage = ZeroUsage /\ ~a.marked /\ a.signed = <<>>
  BY <1>3, <1>8, <1>11
<1>13. /\ MessageDelta(why, usage) \in Msg
       /\ \E v \in Tale :
            /\ Goes("chat", "messages", a, MessageDelta(why, usage), v)
            /\ v.pc = "told" /\ v.kind = a.kind /\ v.n = a.n /\ v.c = a.c /\ v.why = why
            /\ v.usage = MergeUsage(a.usage, usage) /\ v.marked = a.marked
            /\ v.signed = a.signed
  <2>1. a.pc = "open"
    BY <1>12
  <2> QED BY <1>5, <1>7a, <2>1, TellersAre, MessageDeltaIs
<1>14. PICK b \in Tale :
         /\ Goes("chat", "messages", a, MessageDelta(why, usage), b)
         /\ b.pc = "told" /\ b.kind = t.kind /\ b.n = t.n /\ b.c = t.c /\ b.why = why
         /\ b.usage = Filled(usage) /\ ~b.marked /\ b.signed = <<>>
  BY <1>12, <1>13 DEF Filled
<1>15. /\ MessageStop \in Msg
       /\ \E v \in Tale :
            /\ Goes("chat", "messages", b, MessageStop, v)
            /\ v.pc = "over" /\ v.kind = b.kind /\ v.n = b.n /\ v.c = b.c /\ v.why = b.why
            /\ v.usage = b.usage /\ v.marked = b.marked /\ v.signed = b.signed
  <2>1. b.pc = "told"
    BY <1>14
  <2> QED BY <2>1, TellersAre, MessageStopIs
<1>16. PICK w \in Tale :
         /\ Goes("chat", "messages", b, MessageStop, w)
         /\ w.pc = "over" /\ w.kind = t.kind /\ w.n = t.n /\ w.c = t.c /\ w.why = why
         /\ w.usage = Filled(usage) /\ ~w.marked /\ w.signed = <<>>
  BY <1>14, <1>15
<1>17. Along("chat", "messages", m, y.out, w)
  <2>1. PICK q \in Seq(Msg) :
          q = <<MessageDelta(why, usage)>> /\ Along("chat", "messages", a, q, b)
    BY <1>13, <1>14, AlongEvent
  <2>2. PICK r \in Seq(Msg) : r = <<MessageStop>> /\ Along("chat", "messages", b, r, w)
    BY <1>15, <1>16, AlongEvent
  <2>3. q \o r \in Seq(Msg) /\ Along("chat", "messages", a, q \o r, w)
    BY <2>1, <2>2, AlongSeqs
  <2>4. q \o r = <<MessageDelta(why, usage), MessageStop>>
    <3>1. q = <<MessageDelta(why, usage)>> /\ r = <<MessageStop>>
      BY <2>1, <2>2
    <3> QED BY <3>1, PairJoined
  <2>5. PICK e \in Seq(Msg) : e = q \o r
    BY <2>3
  <2>6. p \in Seq(Msg)
    BY <1>8, <1>11
  <2>7. Along("chat", "messages", m, p \o e, w)
    BY <1>12, <2>3, <2>5, <2>6, AlongSeqs
  <2>8. <<>> \o p \o e = p \o e
    BY <2>6
  <2> QED BY <1>9, <2>4, <2>5, <2>7, <2>8
<1>18. PICK v \in Tale :
         /\ v = Tell(t, ev)
         /\ v.pc = "over" /\ v.kind = t.kind /\ v.n = t.n /\ v.c = t.c /\ v.why = t.why
         /\ v.usage = t.usage /\ v.signed = t.signed
  <2>1. Tell(t, ev) = [t EXCEPT !.pc = "over"]
    BY DEF Tell, IsError
  <2>2. PICK v : v = [t EXCEPT !.pc = "over"]
    OBVIOUS
  <2>3. /\ v.pc = "over" /\ v.kind = t.kind /\ v.n = t.n /\ v.c = t.c /\ v.why = t.why
        /\ v.usage = t.usage /\ v.signed = t.signed
    BY <2>2, TaleIsRecord DEF TaleRecord
  <2>4. May("chat", "chat", t, ev)
    BY DEF May, ChatMay
  <2>5. Tell(t, ev) \in Tale
    BY <2>4, TellTyped, MsgParts DEF Dialect
  <2> QED BY <2>1, <2>2, <2>3, <2>5
<1>19. ChatStage(v, z, w)
  <2>1. AllFilled(v, w)
    BY <1>3, <1>7, <1>16, <1>18 DEF AllFilled
  <2>2. w.why = IF v.why # "none" THEN FinishToStop(v.why) ELSE ToolsOrEnd(v)
    BY <1>5, <1>16, <1>18 DEF ToolsOrEnd
  <2>3. /\ w.n = v.n /\ w.kind = v.kind /\ w.c = v.c /\ w.signed = <<>> /\ ~w.marked
        /\ v.signed = <<>> /\ (z.tool <=> (v.c.tools # <<>>)) /\ v.pc = "over"
    BY <1>3, <1>10, <1>16, <1>18
  <2> QED BY <2>1, <2>2, <2>3 DEF ChatStage
<1> QED BY <1>1, <1>2, <1>9, <1>17, <1>18, <1>19, ChatGoes

LEMMA MessagesChatResponses ==
  "messages" \in Dialect /\ "chat" \in Dialect /\ "responses" \in Dialect
BY DEF Dialect

\* What the first stage makes of a tale that has not ended has not ended either.
LEMMA FirstUnderWay ==
  ASSUME NEW u \in {"chat", "responses"}, NEW t \in Tale, NEW s, NEW m \in Tale,
         FirstMakes(u, t, s, m), t.pc \notin Ended
  PROVE  m.pc \notin {"told", "over", "closed"} /\ Beginning(m.c, t.c)
<1>1. CASE t.pc = "error"
  BY <1>1 DEF FirstMakes
<1>2. CASE t.pc # "error" /\ u = "chat"
  <2>1. ChatStage(t, s, m)
    BY <1>2 DEF FirstMakes
  <2>2. m.c = t.c /\ t.pc \notin {"block", "parted"}
    BY <2>1 DEF ChatStage
  <2>3. t.pc \in {"start", "open", "told"}
    BY <1>2, <2>2, TaleIsRecord DEF TaleRecord, Ended
  <2>4. t.pc = "start" => m.pc = "start"
    BY <2>1 DEF ChatStage, Untold
  <2>5. t.pc # "start" => m.pc \in {"open", "block"}
    BY <2>1, <2>3 DEF ChatStage, ChatUnderWay
  <2> QED BY <2>2, <2>4, <2>5, TaleParts, BeginningItself
<1>3. CASE t.pc # "error" /\ u = "responses"
  <2>1. ResponsesStage(t, s, m)
    BY <1>3 DEF FirstMakes
  <2>2. m.c = t.c /\ t.pc # "told"
    BY <2>1 DEF ResponsesStage
  <2>3. t.pc \in {"start", "open", "block", "parted"}
    BY <1>3, <2>2, TaleIsRecord DEF TaleRecord, Ended
  <2>4. t.pc = "start" => m.pc = "start"
    BY <2>1 DEF ResponsesStage, Untold
  <2>5. t.pc # "start" => m.pc \in {"open", "block"}
    BY <2>1, <2>3 DEF ResponsesStage
  <2> QED BY <2>2, <2>4, <2>5, TaleParts, BeginningItself
<1> QED BY <1>1, <1>2, <1>3

\* An error is passed on.
LEMMA FirstFails ==
  ASSUME NEW u \in {"chat", "responses"}, NEW t \in Tale, NEW s, NEW m \in Tale,
         FirstMakes(u, t, s, m), t.pc \notin Ended,
         NEW ev \in Msg, IsError(ev), ev.e = "response.failed" => u = "responses",
         NEW f \in Msg, f.e = "error", NEW z
  PROVE  \E v \in Tale :
           /\ Along(u, "messages", m, <<f>>, v) /\ FirstMakes(u, Tell(t, ev), z, v)
           /\ Tell(t, ev).pc = "error"
<1>1. m.pc \notin Ended /\ Beginning(m.c, t.c)
  BY FirstUnderWay DEF Ended
<1>1a. u \in Teller /\ u \in Dialect
  BY DEF Teller, Dialect
<1>2. IsError(f) /\ f.e # "response.failed" /\ f \in Frame /\ ev \in Frame
  BY MsgParts DEF IsError
<1>3. \E v \in Tale :
        /\ Goes(u, "messages", m, f, v)
        /\ v.pc = "error" /\ v.kind = m.kind /\ v.n = m.n /\ v.c = m.c /\ v.why = m.why
        /\ v.usage = m.usage /\ v.marked = m.marked /\ v.signed = m.signed
  BY <1>1, <1>1a, <1>2, FailureIs, MessagesChatResponses
<1>4. PICK v \in Tale : Goes(u, "messages", m, f, v) /\ v.pc = "error" /\ v.c = m.c
  BY <1>3
<1>5. Along(u, "messages", m, <<f>>, v)
  BY <1>4, AlongEvent
<1>7. \E b \in Tale :
        /\ Goes(u, u, t, ev, b)
        /\ b.pc = "error" /\ b.kind = t.kind /\ b.n = t.n /\ b.c = t.c /\ b.why = t.why
        /\ b.usage = t.usage /\ b.marked = t.marked /\ b.signed = t.signed
  BY <1>1a, <1>2, FailureIs
<1>8. PICK b \in Tale : Goes(u, u, t, ev, b) /\ b.pc = "error" /\ b.c = t.c
  BY <1>7
<1>9. b = Tell(t, ev)
  BY <1>8 DEF Goes
<1>10. FirstMakes(u, b, z, v)
  BY <1>1, <1>4, <1>8 DEF FirstMakes
<1> QED BY <1>4, <1>5, <1>8, <1>9, <1>10

\* ChatToMessagesStream, push_event.
LEMMA ChatGoesAlways ==
  ASSUME None \notin Nat,
         NEW t \in Tale, NEW s \in Inward, NEW m \in Tale, ChatStage(t, s, m), NEW ev \in Msg,
         May("chat", "chat", t, ev), ~IsError(ev)
  PROVE  ChatGoesOn(t, s, m, ev)
<1>1. ChatMay("chat", t, ev)
  BY MsgParts DEF May
<1>1a. ev.i \in Nat /\ ev.id \in Nat /\ ev.frag \in Nat
  BY MsgParts
<1>2a. PICK kind : kind = ev.kind
  OBVIOUS
<1>2b. PICK j \in Nat : j = ev.i
  BY <1>1a
<1>2c. PICK id \in Nat : id = ev.id
  BY <1>1a
<1>2d. PICK frag \in Nat : frag = ev.frag
  BY <1>1a
<1>2. ev.kind = kind /\ ev.i = j /\ ev.id = id /\ ev.frag = frag
  BY <1>2a, <1>2b, <1>2c, <1>2d
<1>3. CASE ev.e = "chunk" /\ kind = "role" /\ t.pc = "start"
  BY <1>2, <1>3, ChatStarts
<1>4. CASE /\ ev.e = "chunk" /\ kind \in {"text", "thinking"} /\ t.pc = "open" /\ frag # 0
           /\ j = 0 /\ id = 0
  <2>1. kind \in BlockKind /\ kind # "tool" /\ id < 1 /\ j < 1
    BY <1>4 DEF BlockKind
  <2>2. CASE t.kind = kind
    BY <1>2, <1>4, <2>1, <2>2, ChatMore
  <2>3. CASE t.kind # kind
    BY <1>2, <1>4, <2>1, <2>3, ChatBegins
  <2> QED BY <2>2, <2>3
<1>5. CASE ev.e = "chunk" /\ kind = "tool" /\ t.pc = "open" /\ id # 0 /\ frag = 0 /\ j = ToolsOf(t)
  <2>1. kind \in BlockKind /\ kind \notin {"text", "thinking"} /\ frag < 1
    BY <1>5 DEF BlockKind
  <2> QED BY <1>2, <1>5, <2>1, ChatCalls
<1>6. CASE /\ ev.e = "chunk" /\ kind = "tool" /\ t.pc = "open" /\ id = 0 /\ frag # 0
           /\ t.kind = "tool" /\ j + 1 = ToolsOf(t)
  <2>1. kind \in BlockKind /\ t.kind = kind
    BY <1>6 DEF BlockKind
  <2> QED BY <1>2, <1>6, <2>1, ChatMore
<1>7. CASE /\ ev.e = "chunk" /\ kind = "finish" /\ t.pc = "open"
           /\ ev.why \in {"stop", "tool_calls", "length", "content_filter"}
  BY <1>2, <1>7, ChatFinishes
<1>8. CASE ev.e = "chunk" /\ kind = "usage" /\ t.pc \in {"open", "told"} /\ ev.usage # NoUsage
  BY <1>2, <1>8, ChatReports
<1>9. CASE ev.e = "[DONE]" /\ t.pc \in {"open", "told"}
  BY <1>9, ChatIsDone
<1> QED BY <1>1, <1>2, <1>3, <1>4, <1>5, <1>6, <1>7, <1>8, <1>9 DEF ChatMay, ToolsOf

-----------------------------------------------------------------------------
(* What single events tell *)

\* What each event adds to a tale.
LEMMA TellOpens ==
  ASSUME NEW t \in Tale, NEW ev, ev.e \in {"message_start", "response.created"}
  PROVE  /\ Tell(t, ev).pc = "open" /\ Tell(t, ev).kind = t.kind
         /\ Tell(t, ev).n = t.n /\ Tell(t, ev).c = t.c
         /\ Tell(t, ev).why = t.why /\ Tell(t, ev).usage = ev.usage
         /\ Tell(t, ev).marked = t.marked /\ Tell(t, ev).signed = t.signed
<1>1. Tell(t, ev) = [t EXCEPT !.pc = "open", !.usage = ev.usage]
  BY DEF Tell, IsError
<1> QED BY <1>1, TaleIsRecord DEF TaleRecord

LEMMA TellBlock ==
  ASSUME NEW t \in Tale, NEW ev, ev.e \in {"content_block_start", "response.output_item.added"}
  PROVE  /\ Tell(t, ev).pc = "block" /\ Tell(t, ev).kind = ev.kind
         /\ Tell(t, ev).n = t.n + 1 /\ Tell(t, ev).c = Begun(t.c, ev.kind, ev.id)
         /\ Tell(t, ev).why = t.why /\ Tell(t, ev).usage = t.usage
         /\ Tell(t, ev).marked = t.marked /\ Tell(t, ev).signed = t.signed
<1>1. Tell(t, ev) = [NextBlock(t, ev.kind, ev.id) EXCEPT !.pc = "block"]
  BY DEF Tell, IsError
<1> QED BY <1>1, TaleIsRecord DEF TaleRecord, NextBlock

LEMMA TellPiece ==
  ASSUME NEW t \in Tale, NEW ev, ev.e \in {"content_block_delta", "response.delta"},
         ev.kind # "signature"
  PROVE  /\ Tell(t, ev).pc = t.pc /\ Tell(t, ev).kind = t.kind
         /\ Tell(t, ev).n = t.n /\ Tell(t, ev).c = MoreOfLast(t.c, ev.kind, ev.frag)
         /\ Tell(t, ev).why = t.why /\ Tell(t, ev).usage = t.usage
         /\ Tell(t, ev).marked = t.marked /\ Tell(t, ev).signed = t.signed
<1>1. Tell(t, ev) = NextPiece(t, ev.kind, ev.frag)
  BY DEF Tell, IsError
<1> QED BY <1>1, TaleIsRecord DEF TaleRecord, NextPiece

LEMMA TellMark ==
  ASSUME NEW t \in Tale, NEW ev, ev.e = "content_block_delta",
         ev.kind = "signature"
  PROVE  /\ Tell(t, ev).pc = t.pc /\ Tell(t, ev).kind = t.kind
         /\ Tell(t, ev).n = t.n /\ Tell(t, ev).c = t.c
         /\ Tell(t, ev).why = t.why /\ Tell(t, ev).usage = t.usage
         /\ Tell(t, ev).marked /\ Tell(t, ev).signed = t.signed
<1>1. Tell(t, ev) = [t EXCEPT !.marked = TRUE]
  BY DEF Tell, IsError
<1> QED BY <1>1, TaleIsRecord DEF TaleRecord

LEMMA TellStop ==
  ASSUME NEW t \in Tale, NEW ev, ev.e = "content_block_stop"
  PROVE  /\ Tell(t, ev).pc = "open" /\ Tell(t, ev).kind = t.kind
         /\ Tell(t, ev).n = t.n /\ Tell(t, ev).c = t.c
         /\ Tell(t, ev).why = t.why /\ Tell(t, ev).usage = t.usage
         /\ ~Tell(t, ev).marked /\ Tell(t, ev).signed = Signed(t, t.marked)
<1>1. Tell(t, ev) = [t EXCEPT !.pc = "open", !.marked = FALSE, !.signed = Signed(t, t.marked)]
  BY DEF Tell, IsError
<1> QED BY <1>1, TaleIsRecord DEF TaleRecord

LEMMA TellPart ==
  ASSUME NEW t \in Tale, NEW ev, ev.e = "response.done"
  PROVE  /\ Tell(t, ev).pc = "parted" /\ Tell(t, ev).kind = t.kind
         /\ Tell(t, ev).n = t.n /\ Tell(t, ev).c = t.c
         /\ Tell(t, ev).why = t.why /\ Tell(t, ev).usage = t.usage
         /\ Tell(t, ev).marked = t.marked /\ Tell(t, ev).signed = t.signed
<1>1. Tell(t, ev) = [t EXCEPT !.pc = "parted"]
  BY DEF Tell, IsError
<1> QED BY <1>1, TaleIsRecord DEF TaleRecord

LEMMA TellItem ==
  ASSUME NEW t \in Tale, NEW ev, ev.e = "response.output_item.done"
  PROVE  /\ Tell(t, ev).pc = "open" /\ Tell(t, ev).kind = t.kind
         /\ Tell(t, ev).n = t.n /\ Tell(t, ev).c = t.c
         /\ Tell(t, ev).why = t.why /\ Tell(t, ev).usage = t.usage
         /\ ~Tell(t, ev).marked /\ Tell(t, ev).signed = Signed(t, ev.signed)
<1>1. Tell(t, ev) = [t EXCEPT !.pc = "open", !.marked = FALSE, !.signed = Signed(t, ev.signed)]
  BY DEF Tell, IsError
<1> QED BY <1>1, TaleIsRecord DEF TaleRecord

LEMMA TellDelta ==
  ASSUME NEW t \in Tale, NEW ev, ev.e = "message_delta"
  PROVE  /\ Tell(t, ev).pc = "told" /\ Tell(t, ev).kind = t.kind
         /\ Tell(t, ev).n = t.n /\ Tell(t, ev).c = t.c
         /\ Tell(t, ev).why = ev.why /\ Tell(t, ev).usage = MergeUsage(t.usage, ev.usage)
         /\ Tell(t, ev).marked = t.marked /\ Tell(t, ev).signed = t.signed
<1>1. Tell(t, ev) = [t EXCEPT !.pc = "told", !.why = ev.why, !.usage = MergeUsage(t.usage, ev.usage)]
  BY DEF Tell, IsError
<1> QED BY <1>1, TaleIsRecord DEF TaleRecord

LEMMA TellOver ==
  ASSUME NEW t \in Tale, NEW ev, ev.e \in {"message_stop", "[DONE]"}
  PROVE  /\ Tell(t, ev).pc = "over" /\ Tell(t, ev).kind = t.kind
         /\ Tell(t, ev).n = t.n /\ Tell(t, ev).c = t.c
         /\ Tell(t, ev).why = t.why /\ Tell(t, ev).usage = t.usage
         /\ Tell(t, ev).marked = t.marked /\ Tell(t, ev).signed = t.signed
<1>1. Tell(t, ev) = [t EXCEPT !.pc = "over"]
  BY DEF Tell, IsError
<1> QED BY <1>1, TaleIsRecord DEF TaleRecord

LEMMA TellCompleted ==
  ASSUME NEW t \in Tale, NEW ev, ev.e = "response.completed"
  PROVE  /\ Tell(t, ev).pc = "over" /\ Tell(t, ev).kind = t.kind
         /\ Tell(t, ev).n = t.n /\ Tell(t, ev).c = t.c
         /\ Tell(t, ev).why = t.why /\ Tell(t, ev).usage = ev.usage
         /\ Tell(t, ev).marked = t.marked /\ Tell(t, ev).signed = t.signed
<1>1. Tell(t, ev) = [t EXCEPT !.pc = "over", !.usage = ev.usage]
  BY DEF Tell, IsError
<1> QED BY <1>1, TaleIsRecord DEF TaleRecord

LEMMA TellNothing ==
  ASSUME NEW t \in Tale, NEW ev, ev.e \in {"ping", "response.in_progress"}
  PROVE  Tell(t, ev) = t
BY DEF Tell, IsError

LEMMA TellIsTale ==
  ASSUME NEW u, NEW d \in Dialect, NEW t \in Tale, NEW ev \in Msg, May(u, d, t, ev)
  PROVE  Tell(t, ev) \in Tale
BY TellTyped, MsgParts

-----------------------------------------------------------------------------
(* The first stage, responses *)

ResponsesGoesOn(t, s, m, ev) ==
  LET y == ResponsesToMessages(s, ev)
  IN /\ y.capture = NoCapture
     /\ \E v \in Tale :
          Along("responses", "messages", m, y.out, v) /\ ResponsesStage(Tell(t, ev), y.st, v)
     /\ InUsage(Tell(t, ev).usage) = IF y.usage = NoUsage THEN InUsage(t.usage) ELSE y.usage

LEMMA ResponsesGoes ==
  ASSUME NEW t, NEW s, NEW m, NEW ev, NEW v \in Tale, NEW b, NEW y, NEW z,
         y = ResponsesToMessages(s, ev), z = y.st, y.capture = NoCapture, b = Tell(t, ev),
         Along("responses", "messages", m, y.out, v), ResponsesStage(b, z, v),
         InUsage(b.usage) = IF y.usage = NoUsage THEN InUsage(t.usage) ELSE y.usage
  PROVE  ResponsesGoesOn(t, s, m, ev)
BY DEF ResponsesGoesOn

LEMMA ResponsesStageParts ==
  ASSUME NEW t \in Tale, NEW s, NEW m, ResponsesStage(t, s, m), t.pc \notin Ended
  PROVE  /\ m.n = t.n /\ m.kind = t.kind /\ m.c = t.c /\ m.signed = t.signed
         /\ (s.tool <=> (t.c.tools # <<>>)) /\ t.pc # "told"
         /\ (t.pc # "block" => s.index = t.n)
         /\ (t.pc = "start" => m = Untold)
         /\ t.usage = NoUsage /\ InUsage(t.usage) = NoUsage
         /\ (t.pc \in {"open", "parted"} => m.pc = "open" /\ m.usage = ZeroUsage)
         /\ (t.pc = "block" => m.pc = "block" /\ ~m.marked /\ m.usage = ZeroUsage
                               /\ s.index + 1 = t.n)
BY DEF ResponsesStage, InUsage

LEMMA ResponsesStageNext ==
  ASSUME NEW t, NEW s, NEW m, t.pc \in {"open", "block", "parted"},
         m.n = t.n, m.kind = t.kind, m.c = t.c, m.signed = t.signed,
         s.tool <=> (t.c.tools # <<>>), t.usage = NoUsage, m.usage = ZeroUsage,
         t.pc # "block" => s.index = t.n /\ m.pc = "open",
         t.pc = "block" => m.pc = "block" /\ ~m.marked /\ s.index + 1 = t.n
  PROVE  ResponsesStage(t, s, m) /\ InUsage(t.usage) = NoUsage
BY DEF ResponsesStage, InUsage, Ended

\* response.created
LEMMA ResponsesStarts ==
  ASSUME NEW t \in Tale, NEW s \in Inward, NEW m \in Tale, ResponsesStage(t, s, m),
         NEW ev \in Msg, May("responses", "responses", t, ev),
         ev.e = "response.created", t.pc = "start", ev.usage = NoUsage
  PROVE  ResponsesGoesOn(t, s, m, ev)
<1>1. PICK y : y = ResponsesToMessages(s, ev)
  OBVIOUS
<1>2. PICK z : z = y.st
  OBVIOUS
<1>3. /\ m.n = t.n /\ m.kind = t.kind /\ m.c = t.c /\ m.signed = t.signed
      /\ (s.tool <=> (t.c.tools # <<>>)) /\ s.index = t.n /\ m = Untold
      /\ t.usage = NoUsage /\ InUsage(t.usage) = NoUsage
  BY ResponsesStageParts DEF Ended
<1>4. m.pc = "start"
  BY <1>3 DEF Untold
<1>5. /\ y.out = <<MessageStart(ZeroUsage)>> /\ y.usage = NoUsage /\ y.capture = NoCapture
      /\ z = s
  BY <1>1, <1>2 DEF ResponsesToMessages, Yield
<1>6. PICK b \in Tale : b = Tell(t, ev)
  BY TellIsTale, MessagesChatResponses
<1>7. /\ b.pc = "open" /\ b.kind = t.kind /\ b.n = t.n /\ b.c = t.c
      /\ b.usage = NoUsage /\ b.signed = t.signed
  BY <1>6, TellOpens
<1>8. ZeroUsage \in Usage
  BY NoUsageIsUsage
<1>9. /\ MessageStart(ZeroUsage) \in Msg
      /\ \E w \in Tale :
           /\ Goes("responses", "messages", m, MessageStart(ZeroUsage), w)
           /\ w.pc = "open" /\ w.kind = m.kind /\ w.n = m.n /\ w.c = m.c /\ w.why = m.why
           /\ w.usage = ZeroUsage /\ w.marked = m.marked /\ w.signed = m.signed
  BY <1>4, <1>8, TellersAre, StartIs
<1>10. PICK w \in Tale :
         /\ Goes("responses", "messages", m, MessageStart(ZeroUsage), w)
         /\ w.pc = "open" /\ w.kind = m.kind /\ w.n = m.n /\ w.c = m.c
         /\ w.usage = ZeroUsage /\ w.signed = m.signed
  BY <1>9
<1>11. Along("responses", "messages", m, y.out, w)
  BY <1>5, <1>9, <1>10, AlongEvent
<1>12. ResponsesStage(b, z, w) /\ InUsage(b.usage) = NoUsage
  BY <1>3, <1>5, <1>7, <1>10, ResponsesStageNext
<1> QED BY <1>1, <1>2, <1>3, <1>5, <1>6, <1>11, <1>12, ResponsesGoes

\* response.in_progress
LEMMA ResponsesWaits ==
  ASSUME NEW t \in Tale, NEW s \in Inward, NEW m \in Tale, ResponsesStage(t, s, m),
         NEW ev \in Msg, ev.e = "response.in_progress", t.pc = "open"
  PROVE  ResponsesGoesOn(t, s, m, ev)
<1>1. PICK y : y = ResponsesToMessages(s, ev)
  OBVIOUS
<1>2. PICK z : z = y.st
  OBVIOUS
<1>3. m.pc = "open" /\ InUsage(t.usage) = NoUsage
  BY ResponsesStageParts DEF Ended
<1>4. /\ y.out = <<Bare("ping")>> /\ y.usage = NoUsage /\ y.capture = NoCapture /\ z = s
  BY <1>1, <1>2 DEF ResponsesToMessages, Yield
<1>5. t = Tell(t, ev)
  BY TellNothing
<1>6. m.pc \notin Ended \cup {"error"}
  BY <1>3 DEF Ended
<1>7. Bare("ping") \in Msg /\ Goes("responses", "messages", m, Bare("ping"), m)
  BY <1>6, TellersAre, PingIs
<1>8. Along("responses", "messages", m, y.out, m)
  BY <1>4, <1>7, AlongEvent
<1>9. ResponsesStage(t, z, m)
  BY <1>4
<1> QED BY <1>1, <1>2, <1>3, <1>4, <1>5, <1>8, <1>9, ResponsesGoes

\* response.output_item.added
LEMMA ResponsesAdds ==
  ASSUME NEW t \in Tale, NEW s \in Inward, NEW m \in Tale, ResponsesStage(t, s, m),
         NEW ev \in Msg, May("responses", "responses", t, ev),
         ev.e = "response.output_item.added", t.pc = "open", IdFits(ev)
  PROVE  ResponsesGoesOn(t, s, m, ev)
<1>1. PICK y : y = ResponsesToMessages(s, ev)
  OBVIOUS
<1>2. PICK z : z = y.st
  OBVIOUS
<1>3. /\ m.n = t.n /\ m.kind = t.kind /\ m.c = t.c /\ m.signed = t.signed
      /\ (s.tool <=> (t.c.tools # <<>>)) /\ s.index = t.n
      /\ t.usage = NoUsage /\ InUsage(t.usage) = NoUsage /\ m.pc = "open" /\ m.usage = ZeroUsage
  BY ResponsesStageParts DEF Ended
<1>4. m.marked = FALSE
  BY <1>3, TaleParts
<1>5a. ev.kind \in BlockKind /\ (ev.kind = "tool" => ev.id # 0) /\ ev.id \in Nat
  BY MsgParts DEF IdFits
<1>5b. PICK kind \in BlockKind : kind = ev.kind
  BY <1>5a
<1>5c. PICK id \in Nat : id = ev.id /\ (kind = "tool" => id # 0)
  BY <1>5a, <1>5b
<1>6. /\ y.out = <<BlockStart(s.index, kind, id)>> /\ y.usage = NoUsage /\ y.capture = NoCapture
      /\ y.st = [s EXCEPT !.tool = @ \/ kind = "tool"]
  BY <1>1, <1>5b, <1>5c DEF ResponsesToMessages, Yield
<1>7. z.index = s.index /\ (z.tool <=> s.tool \/ kind = "tool")
  BY <1>2, <1>6, InwardIs DEF Inward
<1>8. PICK b \in Tale : b = Tell(t, ev)
  BY TellIsTale, MessagesChatResponses
<1>9. /\ b.pc = "block" /\ b.kind = kind /\ b.n = t.n + 1 /\ b.c = Begun(t.c, kind, id)
      /\ b.usage = NoUsage /\ b.signed = t.signed
  BY <1>3, <1>5b, <1>5c, <1>8, TellBlock
<1>10. m.pc = "open" /\ s.index = m.n /\ (kind = "tool" => id # 0)
  BY <1>3, <1>5c
<1>11. /\ BlockStart(s.index, kind, id) \in Msg
       /\ \E v \in Tale :
            /\ Goes("responses", "messages", m, BlockStart(s.index, kind, id), v)
            /\ v.pc = "block" /\ v.kind = kind /\ v.n = m.n + 1 /\ v.c = Begun(m.c, kind, id)
            /\ v.why = m.why /\ v.usage = m.usage /\ v.marked = m.marked
            /\ v.signed = m.signed
  BY <1>10, TellersAre, BlockStartIs
<1>12. PICK w \in Tale :
         /\ Goes("responses", "messages", m, BlockStart(s.index, kind, id), w)
         /\ w.pc = "block" /\ w.kind = kind /\ w.n = t.n + 1 /\ w.c = Begun(t.c, kind, id)
         /\ w.usage = ZeroUsage /\ ~w.marked /\ w.signed = t.signed
  BY <1>3, <1>4, <1>11
<1>13. Along("responses", "messages", m, y.out, w)
  BY <1>6, <1>11, <1>12, AlongEvent
<1>14. z.tool <=> (b.c.tools # <<>>)
  <2>1. (Begun(t.c, kind, id).tools # <<>>) <=> (t.c.tools # <<>> \/ kind = "tool")
    BY BegunTools
  <2>2. b.c = Begun(t.c, kind, id)
    BY <1>9
  <2>3. s.tool <=> (t.c.tools # <<>>)
    BY <1>3
  <2>4. z.tool <=> s.tool \/ kind = "tool"
    BY <1>7
  <2> QED BY <2>1, <2>2, <2>3, <2>4, Zenon
<1>15. ResponsesStage(b, z, w) /\ InUsage(b.usage) = NoUsage
  BY <1>3, <1>7, <1>9, <1>12, <1>14, ResponsesStageNext
<1> QED BY <1>1, <1>2, <1>3, <1>6, <1>8, <1>13, <1>15, ResponsesGoes

\* response.output_text.delta, response.reasoning_summary_text.delta and
\* response.function_call_arguments.delta
LEMMA ResponsesMore ==
  ASSUME NEW t \in Tale, NEW s \in Inward, NEW m \in Tale, ResponsesStage(t, s, m),
         NEW ev \in Msg, May("responses", "responses", t, ev),
         ev.e = "response.delta", NEW kind \in BlockKind, NEW frag \in Nat, ev.kind = kind,
         ev.frag = frag, t.pc = "block", t.kind = kind, frag # 0
  PROVE  ResponsesGoesOn(t, s, m, ev)
<1>1. PICK y : y = ResponsesToMessages(s, ev)
  OBVIOUS
<1>2. PICK z : z = y.st
  OBVIOUS
<1>3. /\ m.n = t.n /\ m.kind = t.kind /\ m.c = t.c /\ m.signed = t.signed /\ ~m.marked
      /\ (s.tool <=> (t.c.tools # <<>>)) /\ s.index + 1 = t.n
      /\ t.usage = NoUsage /\ InUsage(t.usage) = NoUsage /\ m.pc = "block" /\ m.usage = ZeroUsage
  BY ResponsesStageParts DEF Ended
<1>5a. s.index \in Nat
  BY InwardIs
<1>5d. PICK j \in Nat : j = s.index
  BY <1>5a
<1>6. /\ y.out = <<BlockDelta(j, kind, frag)>> /\ y.usage = NoUsage
      /\ y.capture = NoCapture /\ z = s
  BY <1>1, <1>2, <1>5d DEF ResponsesToMessages, Yield
<1>8. PICK b \in Tale : b = Tell(t, ev)
  BY TellIsTale, MessagesChatResponses
<1>8a. kind # "signature"
  BY DEF BlockKind
<1>9. /\ b.pc = "block" /\ b.kind = kind /\ b.n = t.n /\ b.c = MoreOfLast(t.c, kind, frag)
      /\ b.usage = NoUsage /\ b.signed = t.signed
  BY <1>3, <1>8, <1>8a, TellPiece
<1>10. m.pc = "block" /\ j + 1 = m.n /\ kind = m.kind
  BY <1>3, <1>5d
<1>11. /\ BlockDelta(j, kind, frag) \in Msg
       /\ \E v \in Tale :
            /\ Goes("responses", "messages", m, BlockDelta(j, kind, frag), v)
            /\ v.pc = m.pc /\ v.kind = m.kind /\ v.n = m.n
            /\ v.c = MoreOfLast(m.c, kind, frag) /\ v.why = m.why /\ v.usage = m.usage
            /\ v.marked = m.marked /\ v.signed = m.signed
  BY <1>10, TellersAre, BlockDeltaIs
<1>12. PICK w \in Tale :
         /\ Goes("responses", "messages", m, BlockDelta(j, kind, frag), w)
         /\ w.pc = "block" /\ w.kind = kind /\ w.n = t.n /\ w.c = MoreOfLast(t.c, kind, frag)
         /\ w.usage = ZeroUsage /\ ~w.marked /\ w.signed = t.signed
  BY <1>3, <1>11
<1>13. Along("responses", "messages", m, y.out, w)
  BY <1>6, <1>11, <1>12, AlongEvent
<1>14. z.tool <=> (b.c.tools # <<>>)
  <2>1. b.c = NextPiece(t, kind, frag).c
    BY <1>9 DEF NextPiece, Tale, TaleRecord
  <2>2. (NextPiece(t, kind, frag).c.tools = <<>>) <=> (t.c.tools = <<>>)
    BY NextPieceIs
  <2> QED BY <1>3, <1>6, <2>1, <2>2
<1>15. ResponsesStage(b, z, w) /\ InUsage(b.usage) = NoUsage
  BY <1>3, <1>6, <1>9, <1>12, <1>14, ResponsesStageNext
<1> QED BY <1>1, <1>2, <1>3, <1>6, <1>8, <1>13, <1>15, ResponsesGoes

\* response.output_text.done and response.function_call_arguments.done
LEMMA ResponsesParts ==
  ASSUME NEW t \in Tale, NEW s \in Inward, NEW m \in Tale, ResponsesStage(t, s, m),
         NEW ev \in Msg, May("responses", "responses", t, ev),
         ev.e = "response.done", t.pc = "block", t.kind # "thinking"
  PROVE  ResponsesGoesOn(t, s, m, ev)
<1>1. PICK y : y = ResponsesToMessages(s, ev)
  OBVIOUS
<1>2. PICK z : z = y.st
  OBVIOUS
<1>3. /\ m.n = t.n /\ m.kind = t.kind /\ m.c = t.c /\ m.signed = t.signed /\ ~m.marked
      /\ (s.tool <=> (t.c.tools # <<>>)) /\ s.index + 1 = t.n
      /\ t.usage = NoUsage /\ InUsage(t.usage) = NoUsage /\ m.pc = "block" /\ m.usage = ZeroUsage
  BY ResponsesStageParts DEF Ended
<1>4. s.index \in Nat
  BY InwardIs
<1>5. PICK j \in Nat : j = s.index
  BY <1>4
<1>6. /\ y.out = <<BlockStop(j)>> /\ y.usage = NoUsage /\ y.capture = NoCapture
      /\ y.st = [s EXCEPT !.index = @ + 1]
  BY <1>1, <1>5 DEF ResponsesToMessages, Yield
<1>7. z.index = s.index + 1 /\ (z.tool <=> s.tool)
  BY <1>2, <1>6, InwardIs DEF Inward
<1>8. PICK b \in Tale : b = Tell(t, ev)
  BY TellIsTale, MessagesChatResponses
<1>9. /\ b.pc = "parted" /\ b.kind = t.kind /\ b.n = t.n /\ b.c = t.c
      /\ b.usage = NoUsage /\ b.signed = t.signed
  BY <1>3, <1>8, TellPart
<1>10. m.pc = "block" /\ j + 1 = m.n
  BY <1>3, <1>5
<1>11. /\ BlockStop(j) \in Msg
       /\ \E v \in Tale :
            /\ Goes("responses", "messages", m, BlockStop(j), v)
            /\ v.pc = "open" /\ v.kind = m.kind /\ v.n = m.n /\ v.c = m.c /\ v.why = m.why
            /\ v.usage = m.usage /\ ~v.marked /\ v.signed = Signed(m, m.marked)
  BY <1>10, TellersAre, BlockStopIs
<1>12. Signed(m, m.marked) = m.signed
  BY <1>3 DEF Signed
<1>13. PICK w \in Tale :
         /\ Goes("responses", "messages", m, BlockStop(j), w)
         /\ w.pc = "open" /\ w.kind = t.kind /\ w.n = t.n /\ w.c = t.c
         /\ w.usage = ZeroUsage /\ w.signed = t.signed
  BY <1>3, <1>11, <1>12
<1>14. Along("responses", "messages", m, y.out, w)
  BY <1>6, <1>11, <1>13, AlongEvent
<1>15. ResponsesStage(b, z, w) /\ InUsage(b.usage) = NoUsage
  BY <1>3, <1>7, <1>9, <1>13, ResponsesStageNext
<1> QED BY <1>1, <1>2, <1>3, <1>6, <1>8, <1>14, <1>15, ResponsesGoes

\* response.output_item.done of text and of a call: its block has ended with its part.
LEMMA ResponsesLeaves ==
  ASSUME NEW t \in Tale, NEW s \in Inward, NEW m \in Tale, ResponsesStage(t, s, m),
         NEW ev \in Msg, May("responses", "responses", t, ev),
         ev.e = "response.output_item.done", t.pc = "parted", ev.kind = t.kind,
         t.kind # "thinking", ~ev.signed
  PROVE  ResponsesGoesOn(t, s, m, ev)
<1>1. PICK y : y = ResponsesToMessages(s, ev)
  OBVIOUS
<1>2. PICK z : z = y.st
  OBVIOUS
<1>3. /\ m.n = t.n /\ m.kind = t.kind /\ m.c = t.c /\ m.signed = t.signed
      /\ (s.tool <=> (t.c.tools # <<>>)) /\ s.index = t.n
      /\ t.usage = NoUsage /\ InUsage(t.usage) = NoUsage /\ m.pc = "open" /\ m.usage = ZeroUsage
  BY ResponsesStageParts DEF Ended
<1>6. y.out = <<>> /\ y.usage = NoUsage /\ y.capture = NoCapture /\ z = s
  BY <1>1, <1>2 DEF ResponsesToMessages, Yield
<1>8. PICK b \in Tale : b = Tell(t, ev)
  BY TellIsTale, MessagesChatResponses
<1>8a. Signed(t, ev.signed) = t.signed
  BY DEF Signed
<1>9. /\ b.pc = "open" /\ b.kind = t.kind /\ b.n = t.n /\ b.c = t.c
      /\ b.usage = NoUsage /\ b.signed = t.signed
  BY <1>3, <1>8, <1>8a, TellItem
<1>14. Along("responses", "messages", m, y.out, m)
  BY <1>6, AlongNothing
<1>15. ResponsesStage(b, z, m) /\ InUsage(b.usage) = NoUsage
  BY <1>3, <1>6, <1>9, ResponsesStageNext
<1> QED BY <1>1, <1>2, <1>3, <1>6, <1>8, <1>14, <1>15, ResponsesGoes

\* response.output_item.done of thinking: its signature, if it has one, and its end.
LEMMA ResponsesThinks ==
  ASSUME NEW t \in Tale, NEW s \in Inward, NEW m \in Tale, ResponsesStage(t, s, m),
         NEW ev \in Msg, May("responses", "responses", t, ev),
         ev.e = "response.output_item.done", t.pc = "block", ev.kind = t.kind,
         t.kind = "thinking"
  PROVE  ResponsesGoesOn(t, s, m, ev)
<1>1. PICK y : y = ResponsesToMessages(s, ev)
  OBVIOUS
<1>2. PICK z : z = y.st
  OBVIOUS
<1>3. /\ m.n = t.n /\ m.kind = t.kind /\ m.c = t.c /\ m.signed = t.signed /\ ~m.marked
      /\ (s.tool <=> (t.c.tools # <<>>)) /\ s.index + 1 = t.n
      /\ t.usage = NoUsage /\ InUsage(t.usage) = NoUsage /\ m.pc = "block" /\ m.usage = ZeroUsage
  BY ResponsesStageParts DEF Ended
<1>4. s.index \in Nat /\ ev.signed \in BOOLEAN
  BY InwardIs, MsgParts
<1>5. PICK j \in Nat : j = s.index
  BY <1>4
<1>6. /\ y.out = Signature(s, ev) /\ y.usage = NoUsage /\ y.capture = NoCapture
      /\ y.st = [s EXCEPT !.index = @ + 1]
  BY <1>1 DEF ResponsesToMessages, Yield
<1>7. z.index = s.index + 1 /\ (z.tool <=> s.tool)
  BY <1>2, <1>6, InwardIs DEF Inward
<1>8. PICK b \in Tale : b = Tell(t, ev)
  BY TellIsTale, MessagesChatResponses
<1>9. /\ b.pc = "open" /\ b.kind = t.kind /\ b.n = t.n /\ b.c = t.c
      /\ b.usage = NoUsage /\ b.signed = Signed(t, ev.signed)
  BY <1>3, <1>8, TellItem
<1>10. \E a \in Tale, p \in Seq(Msg) :
         /\ p = (IF ev.signed THEN <<BlockDelta(j, "signature", 0)>> ELSE <<>>)
         /\ Along("responses", "messages", m, p, a)
         /\ a.pc = "block" /\ a.kind = t.kind /\ a.n = t.n /\ a.c = t.c
         /\ a.usage = ZeroUsage /\ a.signed = t.signed /\ (a.marked <=> ev.signed)
  <2>1. CASE ev.signed
    <3>1. m.pc = "block" /\ j + 1 = m.n /\ m.kind = "thinking"
      BY <1>3, <1>5
    <3>2. /\ BlockDelta(j, "signature", 0) \in Msg
          /\ \E v \in Tale :
               /\ Goes("responses", "messages", m, BlockDelta(j, "signature", 0), v)
               /\ v.pc = m.pc /\ v.kind = m.kind /\ v.n = m.n /\ v.c = m.c /\ v.why = m.why
               /\ v.usage = m.usage /\ v.marked /\ v.signed = m.signed
      BY <3>1, TellersAre, SignatureIs, SMTT(30)
    <3>3. PICK a \in Tale :
            /\ Goes("responses", "messages", m, BlockDelta(j, "signature", 0), a)
            /\ a.pc = m.pc /\ a.kind = m.kind /\ a.n = m.n /\ a.c = m.c
            /\ a.usage = m.usage /\ a.marked /\ a.signed = m.signed
      BY <3>2
    <3>4. /\ <<BlockDelta(j, "signature", 0)>> \in Seq(Msg)
          /\ Along("responses", "messages", m, <<BlockDelta(j, "signature", 0)>>, a)
      BY <3>2, <3>3, AlongEvent
    <3>5. PICK p \in Seq(Msg) :
            /\ p = <<BlockDelta(j, "signature", 0)>>
            /\ Along("responses", "messages", m, p, a)
      BY <3>4
    <3>6. p = (IF ev.signed THEN <<BlockDelta(j, "signature", 0)>> ELSE <<>>)
      BY <2>1, <3>5
    <3>7. /\ a.pc = "block" /\ a.kind = t.kind /\ a.n = t.n /\ a.c = t.c
          /\ a.usage = ZeroUsage /\ a.signed = t.signed /\ (a.marked <=> ev.signed)
      BY <1>3, <2>1, <3>3
    <3> QED BY <3>5, <3>6, <3>7
  <2>2. CASE ~ev.signed
    <3>1. PICK p \in Seq(Msg) : p = <<>> /\ Along("responses", "messages", m, p, m)
      BY AlongNothing
    <3>2. p = (IF ev.signed THEN <<BlockDelta(j, "signature", 0)>> ELSE <<>>)
      BY <2>2, <3>1
    <3>3. m.marked <=> ev.signed
      BY <1>3, <2>2
    <3> QED BY <1>3, <3>1, <3>2, <3>3
  <2> QED BY <2>1, <2>2
<1>11. PICK a \in Tale, p \in Seq(Msg) :
         /\ p = (IF ev.signed THEN <<BlockDelta(j, "signature", 0)>> ELSE <<>>)
         /\ Along("responses", "messages", m, p, a)
         /\ a.pc = "block" /\ a.kind = t.kind /\ a.n = t.n /\ a.c = t.c
         /\ a.usage = ZeroUsage /\ a.signed = t.signed /\ (a.marked <=> ev.signed)
  BY <1>10
<1>12. a.pc = "block" /\ j + 1 = a.n
  BY <1>3, <1>5, <1>11
<1>13. /\ BlockStop(j) \in Msg
       /\ \E v \in Tale :
            /\ Goes("responses", "messages", a, BlockStop(j), v)
            /\ v.pc = "open" /\ v.kind = a.kind /\ v.n = a.n /\ v.c = a.c /\ v.why = a.why
            /\ v.usage = a.usage /\ ~v.marked /\ v.signed = Signed(a, a.marked)
  BY <1>12, TellersAre, BlockStopIs
<1>14. Signed(a, a.marked) = Signed(t, ev.signed)
  <2>1. a.c = t.c /\ a.n = t.n /\ a.signed = t.signed /\ (a.marked <=> ev.signed)
    BY <1>11
  <2> QED BY <2>1 DEF Signed
<1>15. PICK w \in Tale :
         /\ Goes("responses", "messages", a, BlockStop(j), w)
         /\ w.pc = "open" /\ w.kind = t.kind /\ w.n = t.n /\ w.c = t.c
         /\ w.usage = ZeroUsage /\ w.signed = Signed(t, ev.signed)
  <2>1. a.kind = t.kind /\ a.n = t.n /\ a.c = t.c /\ a.usage = ZeroUsage
    BY <1>11
  <2> QED BY <1>13, <1>14, <2>1
<1>16. Along("responses", "messages", m, y.out, w)
  <2>1. PICK q \in Seq(Msg) : q = <<BlockStop(j)>> /\ Along("responses", "messages", a, q, w)
    BY <1>13, <1>15, AlongEvent
  <2>2. Along("responses", "messages", m, p, a)
    BY <1>11
  <2>3. Along("responses", "messages", m, p \o q, w)
    BY <2>1, <2>2, AlongSeqs
  <2>4. p = (IF ev.signed THEN <<BlockDelta(j, "signature", 0)>> ELSE <<>>)
    BY <1>11
  <2>5. y.out = p \o q
    BY <1>5, <1>6, <2>1, <2>4 DEF Signature
  <2> QED BY <2>3, <2>5
<1>17. ResponsesStage(b, z, w) /\ InUsage(b.usage) = NoUsage
  <2>1. z.index = t.n /\ (z.tool <=> (b.c.tools # <<>>))
    BY <1>3, <1>7, <1>9
  <2> QED BY <1>9, <1>15, <2>1, ResponsesStageNext
<1> QED BY <1>1, <1>2, <1>3, <1>6, <1>8, <1>16, <1>17, ResponsesGoes

LEMMA AlongTwo ==
  ASSUME NEW u, NEW d, NEW f \in Msg, NEW g \in Msg, NEW a \in Tale, NEW b \in Tale,
         NEW c \in Tale, Goes(u, d, a, f, b), Goes(u, d, b, g, c)
  PROVE  <<f, g>> \in Seq(Msg) /\ Along(u, d, a, <<f, g>>, c)
<1>1. <<f>> \in Seq(Msg) /\ Along(u, d, a, <<f>>, b)
  BY AlongEvent
<1>2. <<g>> \in Seq(Msg) /\ Along(u, d, b, <<g>>, c)
  BY AlongEvent
<1>3. <<f>> \o <<g>> \in Seq(Msg) /\ Along(u, d, a, <<f>> \o <<g>>, c)
  BY <1>1, <1>2, AlongSeqs
<1> QED BY <1>3, PairJoined

\* response.completed
LEMMA ResponsesIsDone ==
  ASSUME None \notin Nat,
         NEW t \in Tale, NEW s \in Inward, NEW m \in Tale, ResponsesStage(t, s, m),
         NEW ev \in Msg, May("responses", "responses", t, ev),
         ev.e = "response.completed", t.pc = "open", ev.items = t.c.items
  PROVE  ResponsesGoesOn(t, s, m, ev)
<1>1. PICK y : y = ResponsesToMessages(s, ev)
  OBVIOUS
<1>2. PICK z : z = y.st
  OBVIOUS
<1>3. /\ m.n = t.n /\ m.kind = t.kind /\ m.c = t.c /\ m.signed = t.signed
      /\ (s.tool <=> (t.c.tools # <<>>)) /\ s.index = t.n
      /\ t.usage = NoUsage /\ InUsage(t.usage) = NoUsage /\ m.pc = "open" /\ m.usage = ZeroUsage
  BY ResponsesStageParts DEF Ended
<1>4. (s.tool \/ \E k \in DOMAIN ev.items : ev.items[k].kind = "tool") <=> (t.c.tools # <<>>)
  <2>1. \A k \in DOMAIN t.c.items : t.c.items[k].kind = "tool" => t.c.tools # <<>>
    BY TaleParts DEF Sound
  <2> QED BY <1>3, <2>1
<1>5. PICK why : why = IF s.tool \/ \E k \in DOMAIN ev.items : ev.items[k].kind = "tool"
                       THEN "tool_use" ELSE "end_turn"
  OBVIOUS
<1>6. why = ToolsOrEnd(t) /\ why \in {"end_turn", "tool_use", "max_tokens", "refusal"}
  BY <1>4, <1>5 DEF ToolsOrEnd
<1>7. ev.usage \in Usage
  BY MsgParts
<1>8. InUsage(ev.usage) \in Usage
  BY <1>7, ExclusiveIsUsage, NoUsageIsUsage DEF InUsage
<1>9. PICK usage \in Usage : usage = Filled(InUsage(ev.usage))
  BY <1>8, FilledIs
<1>10. usage # NoUsage
  BY <1>8, <1>9, FilledIs
<1>11. usage = MergeUsage(ZeroUsage, IF ev.usage = NoUsage THEN NoUsage ELSE Exclusive(ev.usage))
  BY <1>9 DEF Filled, InUsage
<1>12. y = [Yield(s, <<MessageDelta(why, usage), MessageStop>>)
              EXCEPT !.usage = IF ev.usage = NoUsage THEN NoUsage ELSE Exclusive(ev.usage)]
  BY <1>1, <1>5, <1>11 DEF ResponsesToMessages
<1>13. /\ y.out = <<MessageDelta(why, usage), MessageStop>> /\ y.usage = InUsage(ev.usage)
       /\ y.capture = NoCapture /\ z = s
  BY <1>2, <1>12 DEF Yield, InUsage
<1>14. PICK b \in Tale : b = Tell(t, ev)
  BY TellIsTale, MessagesChatResponses
<1>15. /\ b.pc = "over" /\ b.kind = t.kind /\ b.n = t.n /\ b.c = t.c
       /\ b.usage = ev.usage /\ b.signed = t.signed
  BY <1>14, TellCompleted
<1>16. /\ MessageDelta(why, usage) \in Msg
       /\ \E v \in Tale :
            /\ Goes("responses", "messages", m, MessageDelta(why, usage), v)
            /\ v.pc = "told" /\ v.kind = m.kind /\ v.n = m.n /\ v.c = m.c /\ v.why = why
            /\ v.usage = MergeUsage(m.usage, usage) /\ v.marked = m.marked
            /\ v.signed = m.signed
  <2>1. m.pc = "open"
    BY <1>3
  <2> QED BY <1>6, <1>10, <2>1, TellersAre, MessageDeltaIs
<1>17. PICK a \in Tale :
         /\ Goes("responses", "messages", m, MessageDelta(why, usage), a)
         /\ a.pc = "told" /\ a.kind = t.kind /\ a.n = t.n /\ a.c = t.c /\ a.why = why
         /\ a.usage = Filled(usage) /\ a.signed = t.signed
  BY <1>3, <1>16 DEF Filled
<1>18. /\ MessageStop \in Msg
       /\ \E v \in Tale :
            /\ Goes("responses", "messages", a, MessageStop, v)
            /\ v.pc = "over" /\ v.kind = a.kind /\ v.n = a.n /\ v.c = a.c /\ v.why = a.why
            /\ v.usage = a.usage /\ v.marked = a.marked /\ v.signed = a.signed
  <2>1. a.pc = "told"
    BY <1>17
  <2> QED BY <2>1, TellersAre, MessageStopIs
<1>19. PICK w \in Tale :
         /\ Goes("responses", "messages", a, MessageStop, w)
         /\ w.pc = "over" /\ w.kind = t.kind /\ w.n = t.n /\ w.c = t.c /\ w.why = why
         /\ w.usage = Filled(usage) /\ w.signed = t.signed
  BY <1>17, <1>18
<1>20. Along("responses", "messages", m, y.out, w)
  BY <1>13, <1>16, <1>17, <1>18, <1>19, AlongTwo
<1>21. ResponsesStage(b, z, w)
  <2>1. AllFilled(b, w)
    BY <1>9, <1>15, <1>19 DEF AllFilled
  <2>2. w.why = ToolsOrEnd(b)
    BY <1>6, <1>15, <1>19 DEF ToolsOrEnd
  <2> QED BY <1>3, <1>13, <1>15, <1>19, <2>1, <2>2 DEF ResponsesStage, Ended
<1>22. InUsage(b.usage) = IF y.usage = NoUsage THEN InUsage(t.usage) ELSE y.usage
  BY <1>3, <1>13, <1>15
<1> QED BY <1>1, <1>2, <1>13, <1>14, <1>20, <1>21, <1>22, ResponsesGoes

\* ResponsesToMessagesStream, push_event.
LEMMA ResponsesGoesAlways ==
  ASSUME None \notin Nat,
         NEW t \in Tale, NEW s \in Inward, NEW m \in Tale, ResponsesStage(t, s, m),
         NEW ev \in Msg, May("responses", "responses", t, ev), ~IsError(ev)
  PROVE  ResponsesGoesOn(t, s, m, ev)
<1>1. ResponsesMay(t, ev)
  BY MsgParts DEF May
<1>2. CASE ev.e = "response.created" /\ t.pc = "start" /\ ev.usage = NoUsage
  BY <1>2, ResponsesStarts
<1>3. CASE ev.e = "response.in_progress" /\ t.pc = "open"
  BY <1>3, ResponsesWaits
<1>4. CASE ev.e = "response.output_item.added" /\ t.pc = "open" /\ IdFits(ev)
  BY <1>4, ResponsesAdds
<1>5. CASE ev.e = "response.delta" /\ t.pc = "block" /\ ev.kind = t.kind /\ ev.frag # 0
  <2>1. t.kind \in BlockKind /\ ev.frag \in Nat
    BY <1>5, TaleParts, MsgParts
  <2>2. PICK kind \in BlockKind : kind = t.kind
    BY <2>1
  <2>3. PICK frag \in Nat : frag = ev.frag
    BY <2>1
  <2>4. ev.kind = kind /\ ev.frag = frag /\ t.kind = kind /\ frag # 0
    BY <1>5, <2>2, <2>3
  <2>5. ev.e = "response.delta" /\ t.pc = "block"
    BY <1>5
  <2> QED BY <2>4, <2>5, ResponsesMore
<1>6. CASE ev.e = "response.done" /\ t.pc = "block" /\ t.kind # "thinking"
  BY <1>6, ResponsesParts
<1>7. CASE /\ ev.e = "response.output_item.done" /\ ev.kind = t.kind
           /\ t.pc = IF t.kind = "thinking" THEN "block" ELSE "parted"
           /\ ev.signed => t.kind = "thinking"
  <2>1. CASE t.kind = "thinking"
    BY <1>7, <2>1, ResponsesThinks
  <2>2. CASE t.kind # "thinking"
    <3>1. ~ev.signed /\ t.pc = "parted" /\ ev.kind = t.kind /\ ev.e = "response.output_item.done"
      BY <1>7, <2>2
    <3> QED BY <2>2, <3>1, ResponsesLeaves
  <2> QED BY <2>1, <2>2
<1>8. CASE ev.e = "response.completed" /\ t.pc = "open" /\ ev.items = t.c.items
  BY <1>8, ResponsesIsDone
<1>9. ev.e # "Done"
  BY MsgParts
<1> QED BY <1>1, <1>2, <1>3, <1>4, <1>5, <1>6, <1>7, <1>8, <1>9 DEF ResponsesMay

-----------------------------------------------------------------------------
(* The first stage, whichever it is *)

\* After an error nothing but errors comes; nothing comes after the end.
LEMMA MayParts ==
  ASSUME NEW u \in Dialect, NEW d \in Dialect, NEW t \in Tale, NEW ev \in Msg, May(u, d, t, ev)
  PROVE  /\ t.pc \notin Ended
         /\ ~IsError(ev) => t.pc # "error"
         /\ IsError(ev) /\ ev.e = "response.failed" => d = "responses"
<1>1. ev.e # "Done" /\ u # "gateway"
  BY MsgParts DEF Dialect
<1>2. t.pc \notin Ended
  BY <1>1 DEF May, MessagesMay, ChatMay, ResponsesMay, Ended
<1>3. ~IsError(ev) => t.pc # "error"
  BY <1>1 DEF May, MessagesMay, ChatMay, ResponsesMay, Ended
<1>4. IsError(ev) /\ ev.e = "response.failed" => d = "responses"
  BY <1>1 DEF May, MessagesMay, ChatMay, ResponsesMay
<1> QED BY <1>2, <1>3, <1>4

\* What one push of the first stage adds.
FirstOn(t, m, ev, y) ==
  /\ y.capture = NoCapture
  /\ \E v \in Tale :
       Along(route.up, "messages", m, y.out, v) /\ FirstMakes(route.up, Tell(t, ev), y.st, v)
  /\ In("messages") => y.usage = NoUsage
  /\ ~In("messages") =>
       /\ m.pc \notin {"told", "over", "closed"}
       /\ Tell(t, ev).pc # "error" =>
            InUsage(Tell(t, ev).usage) = IF y.usage = NoUsage THEN InUsage(t.usage) ELSE y.usage

LEMMA ErrorsTell ==
  ASSUME NEW t \in Tale, NEW ev \in Msg, IsError(ev)
  PROVE  Tell(t, ev).pc = "error"
<1>1. Tell(t, ev) = [t EXCEPT !.pc = "error"]
  BY DEF Tell, IsError
<1> QED BY <1>1, TaleIsRecord DEF TaleRecord

\* Where a tale is after an event that is neither an error nor the end, and the usage it tells.
LEMMA TellGoesOn ==
  ASSUME NEW t \in Tale, NEW ev \in Msg, ~IsError(ev), ~Ends(ev)
  PROVE  /\ Tell(t, ev).pc \in {t.pc, "open", "block", "parted", "told"}
         /\ \/ Tell(t, ev).usage = t.usage
            \/ ev.e \in {"message_start", "response.created", "message_delta"}
            \/ ev.e = "chunk" /\ ev.kind = "usage"
<1>0. t \in TaleRecord
  BY TaleIsRecord
<1>1. CASE ev.e = "chunk"
  <2>1. \A kind, frag : NextPiece(t, kind, frag).pc = t.pc /\ NextPiece(t, kind, frag).usage = t.usage
    BY <1>0 DEF NextPiece, TaleRecord
  <2>2. \A kind, id : NextBlock(t, kind, id).pc = t.pc /\ NextBlock(t, kind, id).usage = t.usage
    BY <1>0 DEF NextBlock, TaleRecord
  <2>3. \A kind, frag, id : /\ NextPiece(NextBlock(t, kind, id), kind, frag).pc = t.pc
                            /\ NextPiece(NextBlock(t, kind, id), kind, frag).usage = t.usage
    BY <1>0 DEF NextPiece, NextBlock, TaleRecord
  <2>4. Tell(t, ev) = TellChunk(t, ev)
    BY <1>1 DEF Tell, IsError
  <2>5. CASE ev.kind \in {"text", "thinking"}
    <3>1. Tell(t, ev) = NextPiece(IF t.kind = ev.kind THEN t ELSE NextBlock(t, ev.kind, 0), ev.kind,
                                  ev.frag)
      BY <2>4, <2>5 DEF TellChunk
    <3> QED BY <2>1, <2>3, <3>1
  <2>6. CASE ev.kind = "tool"
    BY <2>1, <2>2, <2>4, <2>6 DEF TellChunk
  <2>7. CASE ev.kind = "role"
    <3>1. Tell(t, ev) = [t EXCEPT !.pc = "open"]
      BY <2>4, <2>7 DEF TellChunk
    <3> QED BY <1>0, <3>1 DEF TaleRecord
  <2>8. CASE ev.kind = "finish"
    <3>1. Tell(t, ev) = [t EXCEPT !.pc = "told", !.why = ev.why]
      BY <2>4, <2>8 DEF TellChunk
    <3> QED BY <1>0, <3>1 DEF TaleRecord
  <2>9. CASE ev.kind = "usage"
    <3>1. Tell(t, ev) = [t EXCEPT !.usage = ev.usage]
      BY <2>4, <2>9 DEF TellChunk
    <3> QED BY <1>0, <1>1, <2>9, <3>1 DEF TaleRecord
  <2>10. CASE ev.kind \notin {"text", "thinking", "tool", "role", "finish", "usage"}
    <3>1. Tell(t, ev) = t
      BY <2>4, <2>10 DEF TellChunk
    <3> QED BY <1>0, <3>1
  <2> QED BY <2>5, <2>6, <2>7, <2>8, <2>9, <2>10
<1>2. CASE ev.e \in {"message_start", "response.created"}
  BY <1>2, TellOpens
<1>3. CASE ev.e \in {"content_block_start", "response.output_item.added"}
  BY <1>3, TellBlock
<1>4. CASE ev.e \in {"content_block_delta", "response.delta"}
  <2>1. CASE ev.kind # "signature"
    BY <1>4, <2>1, TellPiece
  <2>2. CASE ev.kind = "signature"
    <3>1. Tell(t, ev) = [t EXCEPT !.marked = TRUE]
      BY <1>4, <2>2 DEF Tell, IsError
    <3> QED BY <1>0, <3>1 DEF TaleRecord
  <2> QED BY <2>1, <2>2
<1>5. CASE ev.e = "content_block_stop"
  BY <1>5, TellStop
<1>6. CASE ev.e = "response.done"
  BY <1>6, TellPart
<1>7. CASE ev.e = "response.output_item.done"
  BY <1>7, TellItem
<1>8. CASE ev.e = "message_delta"
  BY <1>8, TellDelta
<1>9. CASE ev.e \in {"ping", "response.in_progress"}
  BY <1>9, TellNothing
<1>10. /\ ev.e \in EventName /\ ev.e # "Done" /\ ev.e # "error" /\ ev.e # "response.failed"
       /\ ev.e \notin {"[DONE]", "message_stop", "response.completed"}
  BY MsgParts DEF IsError, Ends
<1> QED BY <1>1, <1>2, <1>3, <1>4, <1>5, <1>6, <1>7, <1>8, <1>9, <1>10 DEF EventName

LEMMA CalmlyTells ==
  ASSUME NEW t \in Tale, NEW ev \in Msg, ~IsError(ev), t.pc # "error"
  PROVE  Tell(t, ev).pc # "error"
<1>1. CASE ~Ends(ev)
  BY <1>1, TellGoesOn
<1>2. CASE ev.e \in {"message_stop", "[DONE]"}
  BY <1>2, TellOver
<1>3. CASE ev.e = "response.completed"
  BY <1>3, TellCompleted
<1> QED BY <1>1, <1>2, <1>3 DEF Ends, IsError

LEMMA FirstGoes ==
  ASSUME TypeInv, NEW t \in Tale, NEW m \in Tale, FirstMakes(route.up, t, inward, m),
         NEW ev \in Msg, May(route.up, route.up, t, ev)
  PROVE  FirstOn(t, m, ev, FirstStage(ev))
<1>1. /\ route.up \in Dialect /\ None \notin Nat /\ inward \in Inward
      /\ (route.up = "chat" \/ route.up = "messages" \/ route.up = "responses")
  BY SourceParts, TaskParts
<1>2. PICK y : y = FirstStage(ev)
  OBVIOUS
<1>3. CASE route.up = "messages"
  <2>1. y.out = <<ev>> /\ y.usage = NoUsage /\ y.capture = NoCapture
    BY <1>2, <1>3 DEF FirstStage, In, Yield
  <2>2. m = t
    BY <1>3 DEF FirstMakes
  <2>3. PICK v \in Tale : v = Tell(t, ev) /\ Goes("messages", "messages", t, ev, v)
    BY <1>1, <1>3, TellsOne, MsgParts
  <2>4. Along("messages", "messages", m, y.out, v)
    BY <2>1, <2>2, <2>3, AlongEvent
  <2>5. FirstMakes("messages", v, y.st, v)
    BY DEF FirstMakes
  <2> QED BY <1>2, <1>3, <2>1, <2>3, <2>4, <2>5 DEF FirstOn, In
<1>4. CASE route.up \in {"chat", "responses"} /\ IsError(ev)
  <2>1. t.pc \notin Ended /\ (ev.e = "response.failed" => route.up = "responses")
    BY <1>1, <1>4, MayParts
  <2>2. PICK f \in Msg : f.e = "error" /\ y.out = <<f>> /\ y.capture = NoCapture
    <3>1. CASE route.up = "chat"
      <4>1. ev.e = "error"
        BY <1>4, <2>1, <3>1 DEF IsError
      <4>2. y = ChatToMessages(inward, ev)
        BY <1>2, <3>1 DEF FirstStage, In
      <4>3. y = [Yield(inward, <<ev>>) EXCEPT !.error = TRUE]
        BY <4>1, <4>2 DEF ChatToMessages, Msg, Proper, BlockKind
      <4> QED BY <4>1, <4>3 DEF Yield
    <3>2. CASE route.up = "responses"
      <4>1. ev.e \in {"error", "response.failed"}
        BY <1>4 DEF IsError
      <4>2. y = ResponsesToMessages(inward, ev)
        BY <1>2, <3>2 DEF FirstStage, In
      <4>3. y = [Yield(inward, <<Bare("error")>>) EXCEPT !.error = TRUE]
        BY <4>1, <4>2 DEF ResponsesToMessages
      <4>4. PICK f \in Msg : f = Bare("error")
        BY BareIsMsg DEF EventName
      <4>5. f.e = "error"
        BY <4>4 DEF Bare
      <4> QED BY <4>3, <4>4, <4>5 DEF Yield
    <3> QED BY <1>4, <3>1, <3>2
  <2>3. \E v \in Tale :
          /\ Along(route.up, "messages", m, <<f>>, v) /\ FirstMakes(route.up, Tell(t, ev), y.st, v)
          /\ Tell(t, ev).pc = "error"
    BY <1>4, <2>1, <2>2, FirstFails
  <2>4. m.pc \notin {"told", "over", "closed"}
    BY <1>4, <2>1, FirstUnderWay
  <2> QED BY <1>2, <1>4, <2>2, <2>3, <2>4 DEF FirstOn, In
<1>5. CASE route.up = "chat" /\ ~IsError(ev)
  <2>1. t.pc # "error" /\ t.pc \notin Ended
    BY <1>1, <1>5, MayParts
  <2>2. ChatStage(t, inward, m) /\ May("chat", "chat", t, ev)
    BY <1>5, <2>1 DEF FirstMakes
  <2>3. ChatGoesOn(t, inward, m, ev)
    BY <1>1, <1>5, <2>2, ChatGoesAlways
  <2>4. y = ChatToMessages(inward, ev)
    BY <1>2, <1>5 DEF FirstStage, In
  <2>5. PICK v \in Tale :
          Along("chat", "messages", m, y.out, v) /\ ChatStage(Tell(t, ev), y.st, v)
    BY <2>3, <2>4 DEF ChatGoesOn
  <2>6. /\ y.capture = NoCapture
        /\ InUsage(Tell(t, ev).usage) = IF y.usage = NoUsage THEN InUsage(t.usage) ELSE y.usage
    BY <2>3, <2>4 DEF ChatGoesOn
  <2>7. m.pc \notin {"told", "over", "closed"}
    BY <1>5, <2>1, FirstUnderWay
  <2>8. Tell(t, ev).pc # "error"
    BY <1>5, <2>1, CalmlyTells
  <2>9. FirstMakes("chat", Tell(t, ev), y.st, v)
    BY <2>5, <2>8 DEF FirstMakes
  <2> QED BY <1>2, <1>5, <2>5, <2>6, <2>7, <2>9 DEF FirstOn, In
<1>6. CASE route.up = "responses" /\ ~IsError(ev)
  <2>1. t.pc # "error" /\ t.pc \notin Ended
    BY <1>1, <1>6, MayParts
  <2>2. ResponsesStage(t, inward, m) /\ May("responses", "responses", t, ev)
    BY <1>6, <2>1 DEF FirstMakes
  <2>3. ResponsesGoesOn(t, inward, m, ev)
    BY <1>1, <1>6, <2>2, ResponsesGoesAlways
  <2>4. y = ResponsesToMessages(inward, ev)
    BY <1>2, <1>6 DEF FirstStage, In
  <2>5. PICK v \in Tale :
          Along("responses", "messages", m, y.out, v) /\ ResponsesStage(Tell(t, ev), y.st, v)
    BY <2>3, <2>4 DEF ResponsesGoesOn
  <2>6. /\ y.capture = NoCapture
        /\ InUsage(Tell(t, ev).usage) = IF y.usage = NoUsage THEN InUsage(t.usage) ELSE y.usage
    BY <2>3, <2>4 DEF ResponsesGoesOn
  <2>7. m.pc \notin {"told", "over", "closed"}
    BY <1>6, <2>1, FirstUnderWay
  <2>8. Tell(t, ev).pc # "error"
    BY <1>6, <2>1, CalmlyTells
  <2>9. FirstMakes("responses", Tell(t, ev), y.st, v)
    BY <2>5, <2>8 DEF FirstMakes
  <2> QED BY <1>2, <1>6, <2>5, <2>6, <2>7, <2>9 DEF FirstOn, In
<1> QED BY <1>1, <1>3, <1>4, <1>5, <1>6

-----------------------------------------------------------------------------
(* What the second stage remembers *)

LEMMA MergeNothing ==
  ASSUME NEW u \in Usage
  PROVE  MergeUsage(u, NoUsage) = u
BY DEF MergeUsage, NoUsage, Usage

LEMMA MergeSomething ==
  ASSUME NEW u \in Usage, NEW v \in Usage, v # NoUsage
  PROVE  MergeUsage(u, v) # NoUsage
<1>1. PICK f \in UsageField : v[f] # None
  <2>1. (\A f \in UsageField : v[f] = None) => v = NoUsage
    BY DEF Usage, NoUsage
  <2> QED BY <2>1
<1>2. MergeUsage(u, v)[f] = v[f] /\ NoUsage[f] = None
  BY <1>1 DEF MergeUsage, NoUsage
<1> QED BY <1>1, <1>2

LEMMA TotalsAreSomething ==
  ASSUME None \notin Nat, NEW u \in Usage
  PROVE  Totals(u) \in Usage /\ Totals(u) # NoUsage
<1>1. Totals(u) \in Plain /\ Totals(u) \in Usage
  BY UsageIsNatural, ExclusiveIsUsage
<1>2. "prompt" \in UsageField
  BY DEF UsageField
<1>3. NoUsage["prompt"] = None
  BY <1>2 DEF NoUsage
<1>4. Totals(u)["prompt"] \in Nat
  BY <1>1, <1>2 DEF Plain
<1> QED BY <1>1, <1>3, <1>4

LEMMA SameWordsBoth ==
  ASSUME NEW a \in Content, NEW b \in Content, SameWords(a, b)
  PROVE  SameWords(b, a) /\ a.tools = b.tools /\ Beginning(a, b)
<1>1. SameWords(b, a) /\ a.tools = b.tools
  BY DEF SameWords
<1> QED BY <1>1, BeginningItself, SameWordsBegin

LEMMA SameWordsGoOn ==
  ASSUME NEW a \in Content, NEW b \in Content, SameWords(a, b), NEW kind \in BlockKind,
         NEW frag \in Nat, a.items # <<>>, b.items # <<>>, kind = "tool" => b.tools # <<>>
  PROVE  SameWords(MoreOfLast(a, kind, frag), MoreOfLast(b, kind, frag))
<1>1. a.text = b.text /\ a.thinking = b.thinking /\ a.tools = b.tools
  BY DEF SameWords
<1>2. PICK x : x = MoreOfLast(a, kind, frag)
  OBVIOUS
<1>3. PICK y : y = MoreOfLast(b, kind, frag)
  OBVIOUS
<1>4. /\ x.text = IF kind = "text" THEN Append(a.text, frag) ELSE a.text
      /\ x.thinking = IF kind = "thinking" THEN Append(a.thinking, frag) ELSE a.thinking
      /\ x.tools = IF kind = "tool" THEN MoreAt(a.tools, Len(a.tools), frag) ELSE a.tools
  BY <1>1, <1>2, MoreOfLastIs
<1>5. /\ y.text = IF kind = "text" THEN Append(b.text, frag) ELSE b.text
      /\ y.thinking = IF kind = "thinking" THEN Append(b.thinking, frag) ELSE b.thinking
      /\ y.tools = IF kind = "tool" THEN MoreAt(b.tools, Len(b.tools), frag) ELSE b.tools
  BY <1>3, MoreOfLastIs
<1>6. x.text = y.text /\ x.thinking = y.thinking /\ x.tools = y.tools
  BY <1>1, <1>4, <1>5
<1> QED BY <1>2, <1>3, <1>6 DEF SameWords

\* A chat answer begins a block of text or thinking with its first piece.
LEMMA SameWordsLate ==
  ASSUME NEW a \in Content, NEW b \in Content, SameWords(a, b),
         NEW kind \in BlockKind, kind # "tool", NEW frag \in Nat, b.items # <<>>
  PROVE  SameWords(MoreOfLast(Begun(a, kind, 0), kind, frag), MoreOfLast(b, kind, frag))
<1>1. PICK c \in Content : c = Begun(a, kind, 0) /\ c.items # <<>>
  <2>1. Begun(a, kind, 0) \in Content /\ Len(Begun(a, kind, 0).items) = Len(a.items) + 1
    BY BegunIsContent
  <2>2. Len(a.items) \in Nat
    BY ContentParts
  <2>3. Len(<<>>) = 0
    OBVIOUS
  <2> QED BY <2>1, <2>2, <2>3
<1>2. SameWords(b, a)
  BY SameWordsBoth
<1>3. SameWords(b, c)
  BY <1>1, <1>2, SameWordsBegun
<1>4. SameWords(c, b)
  BY <1>3, SameWordsBoth
<1>5. SameWords(MoreOfLast(c, kind, frag), MoreOfLast(b, kind, frag))
  BY <1>1, <1>4, SameWordsGoOn
<1> QED BY <1>1, <1>5

LEMMA CallIdsAre ==
  ASSUME NEW c \in Content
  PROVE  CallIds(c) \in Seq(Nat) /\ Len(CallIds(c)) = Len(c.tools)
<1>1. /\ DOMAIN c.tools = 1 .. Len(c.tools) /\ Len(c.tools) \in Nat
      /\ \A k \in DOMAIN c.tools : c.tools[k].id \in Nat
  BY ContentParts
<1>2. CallIds(c) \in [1 .. Len(c.tools) -> Nat]
  BY <1>1 DEF CallIds
<1> QED BY <1>1, <1>2

LEMMA CallIdsBegun ==
  ASSUME NEW c \in Content, NEW kind \in BlockKind, NEW id \in Nat
  PROVE  /\ kind = "tool" => CallIds(Begun(c, kind, id)) = Append(CallIds(c), id)
         /\ kind # "tool" => CallIds(Begun(c, kind, id)) = CallIds(c)
<1>1. PICK d : d = Begun(c, kind, id)
  OBVIOUS
<1>2. d.tools = IF kind = "tool" THEN Append(c.tools, [id |-> id, text |-> <<>>]) ELSE c.tools
  BY <1>1, BegunIs
<1>3. CASE kind # "tool"
  BY <1>1, <1>2, <1>3 DEF CallIds
<1>4. CASE kind = "tool"
  <2>1. PICK e : e = [id |-> id, text |-> <<>>]
    OBVIOUS
  <2>2. e.id = id
    BY <2>1
  <2>3. c.tools \in Seq(ToolCalled) /\ Len(c.tools) \in Nat
    BY ContentParts
  <2>4. d.tools = Append(c.tools, e)
    BY <1>2, <1>4, <2>1
  <2>5. PICK n \in Nat : n = Len(c.tools)
    BY <2>3
  <2>6. DOMAIN d.tools = 1 .. n + 1 /\ DOMAIN c.tools = 1 .. n
    BY <2>3, <2>4, <2>5
  <2>7. d.tools[n + 1] = e /\ \A k \in 1 .. n : d.tools[k] = c.tools[k]
    BY <2>3, <2>4, <2>5
  <2>8. CallIds(d) = [k \in 1 .. n + 1 |-> d.tools[k].id]
    BY <2>6 DEF CallIds
  <2>9. PICK ids \in Seq(Nat) : ids = CallIds(c) /\ Len(ids) = n
    BY <2>5, CallIdsAre
  <2>10. \A k \in 1 .. n : ids[k] = c.tools[k].id
    BY <2>6, <2>9 DEF CallIds
  <2>11. Append(ids, id) = [k \in 1 .. n + 1 |-> IF k = n + 1 THEN id ELSE ids[k]]
    <3>1. ids \in Seq(Nat) /\ Len(ids) = n
      BY <2>9
    <3>2. /\ Append(ids, id) \in Seq(Nat) /\ Len(Append(ids, id)) = n + 1
          /\ \A k \in 1 .. n + 1 : Append(ids, id)[k] = IF k = n + 1 THEN id ELSE ids[k]
      BY <3>1
    <3>3. PICK x \in Seq(Nat) : /\ x = Append(ids, id) /\ Len(x) = n + 1
                               /\ \A k \in 1 .. n + 1 : x[k] = IF k = n + 1 THEN id ELSE ids[k]
      BY <3>2
    <3>4. Len(x) = n + 1
      BY <3>3
    <3>5. x = [k \in 1 .. n + 1 |-> x[k]]
      BY <3>4
    <3>6. \A k \in 1 .. n + 1 : x[k] = IF k = n + 1 THEN id ELSE ids[k]
      BY <3>3
    <3>7. x = [k \in 1 .. n + 1 |-> IF k = n + 1 THEN id ELSE ids[k]]
      BY <3>5, <3>6
    <3> QED BY <3>3, <3>7
  <2>12. \A k \in 1 .. n + 1 : d.tools[k].id = IF k = n + 1 THEN id ELSE ids[k]
    <3> TAKE k \in 1 .. n + 1
    <3>1. CASE k = n + 1
      BY <2>2, <2>7, <3>1
    <3>2. CASE k # n + 1
      <4>1. k \in 1 .. n
        BY <3>2
      <4> QED BY <2>7, <2>10, <3>2, <4>1
    <3> QED BY <3>1, <3>2
  <2>13. CallIds(d) = Append(ids, id)
    BY <2>8, <2>11, <2>12
  <2>14. CallIds(Begun(c, kind, id)) = Append(CallIds(c), id)
    <3>1. d = Begun(c, kind, id) /\ ids = CallIds(c)
      BY <1>1, <2>9
    <3> QED BY <2>13, <3>1
  <2> QED BY <1>4, <2>14
<1> QED BY <1>3, <1>4

LEMMA CallIdsMore ==
  ASSUME NEW c \in Content, NEW kind \in BlockKind, NEW frag \in Nat, c.items # <<>>,
         kind = "tool" => c.tools # <<>>
  PROVE  CallIds(MoreOfLast(c, kind, frag)) = CallIds(c)
<1>1. PICK d : d = MoreOfLast(c, kind, frag)
  OBVIOUS
<1>2. d.tools = IF kind = "tool" THEN MoreAt(c.tools, Len(c.tools), frag) ELSE c.tools
  BY <1>1, MoreOfLastIs
<1>3. CASE kind # "tool"
  BY <1>1, <1>2, <1>3 DEF CallIds
<1>4. CASE kind = "tool"
  <2>1. c.tools \in Seq(ToolCalled) /\ Len(c.tools) \in DOMAIN c.tools
    BY <1>4, ContentParts
  <2>2. PICK n \in DOMAIN c.tools : n = Len(c.tools)
    BY <2>1
  <2>3. PICK x : x = MoreAt(c.tools, n, frag)
    OBVIOUS
  <2>4. DOMAIN x = DOMAIN c.tools /\ \A k \in DOMAIN c.tools : x[k].id = c.tools[k].id
    BY <2>1, <2>2, <2>3, MoreToolsIs
  <2>5. d.tools = x
    BY <1>2, <1>4, <2>2, <2>3
  <2>6. CallIds(d) = CallIds(c)
    BY <2>4, <2>5 DEF CallIds
  <2> QED BY <1>1, <2>6
<1> QED BY <1>3, <1>4

LEMMA TextOfBegun ==
  ASSUME NEW c \in Content, NEW kind \in BlockKind, NEW id \in Nat
  PROVE  Begun(c, kind, id).items[Len(c.items) + 1].text = <<>>
<1>1. Begun(c, kind, id).items = Append(c.items, [kind |-> kind, id |-> id, text |-> <<>>])
  BY BegunIs
<1>2. c.items \in Seq(Item)
  BY ContentParts
<1>3. PICK e : e = [kind |-> kind, id |-> id, text |-> <<>>]
  OBVIOUS
<1>4. Append(c.items, e)[Len(c.items) + 1] = e
  BY <1>2
<1>5. e.text = <<>>
  BY <1>3
<1> QED BY <1>1, <1>3, <1>4, <1>5

LEMMA TextOfMore ==
  ASSUME NEW c \in Content, NEW kind \in BlockKind, NEW frag \in Nat, c.items # <<>>,
         kind = "tool" => c.tools # <<>>, NEW n, n = Len(c.items)
  PROVE  MoreOfLast(c, kind, frag).items[n].text = Append(c.items[n].text, frag)
BY MoreOfLastIs

LEMMA StopReasons ==
  ASSUME NEW why
  PROVE  StopToFinish(why) \in {"stop", "tool_calls", "length", "content_filter"}
BY DEF StopToFinish

-----------------------------------------------------------------------------
(* The second stage, chat *)

ChatTells(m, s, t, ev, include) ==
  LET y == MessagesToChat(s, ev, include)
  IN /\ y.capture = TakenDown("chat", Tell(m, ev))
     /\ Tell(m, ev).usage = IF y.usage = NoUsage THEN m.usage ELSE y.usage
     /\ ev.e = "message_delta" /\ ev.usage # NoUsage => y.usage # NoUsage
     /\ \E v \in Tale :
          Along("gateway", "chat", t, y.out, v) /\ ChatMade(Tell(m, ev), y.st, v, include)

LEMMA ChatTellsBy ==
  ASSUME NEW m, NEW s, NEW t, NEW ev, NEW include, NEW b, NEW y, NEW z, NEW v \in Tale,
         y = MessagesToChat(s, ev, include), z = y.st, b = Tell(m, ev), b.pc \notin Ended,
         y.capture = NoCapture, b.usage = IF y.usage = NoUsage THEN m.usage ELSE y.usage,
         ev.e = "message_delta" /\ ev.usage # NoUsage => y.usage # NoUsage,
         Along("gateway", "chat", t, y.out, v), ChatMade(b, z, v, include)
  PROVE  ChatTells(m, s, t, ev, include)
<1>1. TakenDown("chat", b) = NoCapture
  BY DEF TakenDown
<1> QED BY <1>1 DEF ChatTells

LEMMA ChatMadeWords ==
  ASSUME NEW m \in Tale, NEW s, NEW t \in Tale, NEW include, ChatMade(m, s, t, include),
         m.pc \notin Ended
  PROVE  /\ SameWords(t.c, m.c) /\ s.usage = m.usage /\ s.count = ToolsOf(m)
         /\ s.thinking = m.signed /\ s.ids = CallIds(m.c) /\ t.usage = NoUsage
         /\ (m.pc # "start" => t.pc = "open")
         /\ t.c.tools = m.c.tools /\ ToolsOf(t) = ToolsOf(m) /\ s.count = ToolsOf(t)
<1>1. SameWords(t.c, m.c) /\ s.usage = m.usage /\ s.count = ToolsOf(m) /\ ChatBeing(m, s, t)
  BY DEF ChatMade
<1>2. t.c.tools = m.c.tools /\ ToolsOf(t) = ToolsOf(m)
  BY <1>1 DEF SameWords, ToolsOf
<1> QED BY <1>1, <1>2 DEF ChatBeing

LEMMA ChatMadeAtFirst ==
  ASSUME NEW m \in Tale, NEW s, NEW t \in Tale, NEW include, ChatMade(m, s, t, include),
         m.pc = "start"
  PROVE  /\ SameWords(t.c, m.c) /\ s.usage = m.usage /\ s.count = ToolsOf(m)
         /\ s.thinking = m.signed /\ s.ids = CallIds(m.c) /\ t.usage = NoUsage
         /\ t = Untold /\ m.usage = NoUsage /\ DOMAIN s.blocks = {}
BY DEF ChatMade, ChatBeing, Ended, Thinks

LEMMA ChatMadeBlocks ==
  ASSUME NEW m \in Tale, NEW s, NEW t \in Tale, NEW include, ChatMade(m, s, t, include),
         m.pc \in {"start", "open", "told", "block"}
  PROVE  /\ ~Thinks(m) => DOMAIN s.blocks = {}
         /\ Thinks(m) => DOMAIN s.blocks = {m.n - 1} /\ Thinking(m, s.blocks[m.n - 1])
<1>1. ChatBeing(m, s, t)
  BY DEF ChatMade, Ended
<1> QED BY <1>1 DEF ChatBeing

LEMMA ChatMadeTool ==
  ASSUME NEW m \in Tale, NEW s, NEW t \in Tale, NEW include, ChatMade(m, s, t, include),
         m.pc = "block", m.kind = "tool"
  PROVE  t.kind = "tool" /\ m.n - 1 \in DOMAIN s.tool /\ s.tool[m.n - 1] + 1 = ToolsOf(m)
<1>1. ChatBeing(m, s, t)
  BY DEF ChatMade, Ended
<1> QED BY <1>1 DEF ChatBeing

LEMMA ChatMadeTold ==
  ASSUME NEW m \in Tale, NEW s, NEW t \in Tale, NEW include, ChatMade(m, s, t, include),
         m.pc = "told"
  PROVE  m.why # "none" /\ s.why = StopToFinish(m.why)
<1>1. ChatBeing(m, s, t)
  BY DEF ChatMade, Ended
<1> QED BY <1>1 DEF ChatBeing

LEMMA ChatMadeNext ==
  ASSUME NEW b, NEW z, NEW v, NEW include, b.pc \in {"open", "block", "told"},
         SameWords(v.c, b.c), z.usage = b.usage, z.count = ToolsOf(b), z.thinking = b.signed,
         z.ids = CallIds(b.c), v.usage = NoUsage, v.pc = "open",
         b.pc = "block" /\ b.kind = "thinking" =>
           DOMAIN z.blocks = {b.n - 1} /\ Thinking(b, z.blocks[b.n - 1]),
         b.pc # "block" \/ b.kind # "thinking" => DOMAIN z.blocks = {},
         b.pc = "block" /\ b.kind = "tool" =>
           v.kind = "tool" /\ b.n - 1 \in DOMAIN z.tool /\ z.tool[b.n - 1] + 1 = ToolsOf(b),
         b.pc = "told" => b.why # "none" /\ z.why = StopToFinish(b.why)
  PROVE  ChatMade(b, z, v, include) /\ b.pc \notin Ended
BY DEF ChatMade, ChatBeing, Thinks, Ended

\* What the converters do with their record.
LEMMA OutwardChanged ==
  ASSUME NEW s, IsOutward(s), NEW x, NEW x2, NEW x3, NEW x4
  PROVE  /\ LET z == [s EXCEPT !.usage = x]
            IN /\ z.usage = x /\ z.blocks = s.blocks /\ z.tool = s.tool /\ z.count = s.count
               /\ z.thinking = s.thinking /\ z.ids = s.ids /\ z.items = s.items /\ z.why = s.why
         /\ LET z == [s EXCEPT !.blocks = x]
            IN /\ z.blocks = x /\ z.usage = s.usage /\ z.tool = s.tool /\ z.count = s.count
               /\ z.thinking = s.thinking /\ z.ids = s.ids /\ z.items = s.items /\ z.why = s.why
         /\ LET z == [s EXCEPT !.why = x]
            IN /\ z.why = x /\ z.usage = s.usage /\ z.tool = s.tool /\ z.count = s.count
               /\ z.thinking = s.thinking /\ z.ids = s.ids /\ z.items = s.items
               /\ z.blocks = s.blocks
         /\ LET z == [s EXCEPT !.blocks = x, !.thinking = x2]
            IN /\ z.blocks = x /\ z.thinking = x2 /\ z.usage = s.usage /\ z.tool = s.tool
               /\ z.count = s.count /\ z.ids = s.ids /\ z.items = s.items /\ z.why = s.why
         /\ LET z == [s EXCEPT !.tool = x, !.count = x2, !.ids = x3]
            IN /\ z.tool = x /\ z.count = x2 /\ z.ids = x3 /\ z.usage = s.usage
               /\ z.blocks = s.blocks /\ z.thinking = s.thinking /\ z.items = s.items
               /\ z.why = s.why
         /\ LET z == [s EXCEPT !.blocks = x, !.count = x2]
            IN /\ z.blocks = x /\ z.count = x2 /\ z.usage = s.usage /\ z.tool = s.tool
               /\ z.thinking = s.thinking /\ z.ids = s.ids /\ z.items = s.items /\ z.why = s.why
         /\ LET z == [s EXCEPT !.blocks = x, !.thinking = x2, !.ids = x3, !.items = x4]
            IN /\ z.blocks = x /\ z.thinking = x2 /\ z.ids = x3 /\ z.items = x4
               /\ z.usage = s.usage /\ z.tool = s.tool /\ z.count = s.count /\ z.why = s.why
BY DEF IsOutward

LEMMA OutwardParts ==
  ASSUME NEW s, IsOutward(s)
  PROVE  /\ s.blocks \in [DOMAIN s.blocks -> BlockState] /\ s.tool \in [DOMAIN s.tool -> Nat]
         /\ s.count \in Nat /\ s.thinking \in Seq(Seq(Nat)) /\ s.ids \in Seq(Nat)
         /\ s.items \in Seq(Item) /\ s.usage \in Usage /\ s.why \in Reason
BY DEF IsOutward

\* message_start
LEMMA ChatHearsStart ==
  ASSUME NEW m \in Tale, NEW s, IsOutward(s), NEW t \in Tale, NEW include,
         ChatMade(m, s, t, include), NEW ev \in Msg, NEW b \in Tale, b = Tell(m, ev),
         ev.e = "message_start", m.pc = "start"
  PROVE  ChatTells(m, s, t, ev, include)
<1>1. PICK y : y = MessagesToChat(s, ev, include)
  OBVIOUS
<1>2. PICK z : z = y.st
  OBVIOUS
<1>3. /\ SameWords(t.c, m.c) /\ s.usage = m.usage /\ s.count = ToolsOf(m)
      /\ s.thinking = m.signed /\ s.ids = CallIds(m.c) /\ t.usage = NoUsage
      /\ t = Untold /\ m.usage = NoUsage /\ DOMAIN s.blocks = {}
  BY ChatMadeAtFirst
<1>4. y = Reports(Yield(Seeded(s, ev), <<Chunk("role")>>), ev.usage, ev)
  BY <1>1 DEF MessagesToChat
<1>5. /\ y.out = <<Chunk("role")>> /\ y.capture = NoCapture /\ z = Seeded(s, ev)
      /\ y.usage = ev.usage
  BY <1>2, <1>4 DEF Reports, Yield
<1>6. /\ z.usage = ev.usage /\ z.count = s.count /\ z.thinking = s.thinking /\ z.ids = s.ids
      /\ z.blocks = s.blocks
  <2>1. CASE ev.usage = NoUsage
    BY <1>3, <1>5, <2>1 DEF Seeded
  <2>2. CASE ev.usage # NoUsage
    <3>1. z = [s EXCEPT !.usage = ev.usage]
      BY <1>5, <2>2 DEF Seeded
    <3> QED BY <3>1, OutwardChanged
  <2> QED BY <2>1, <2>2
<1>7. b.pc = "open" /\ b.usage = ev.usage /\ b.c = m.c /\ b.signed = m.signed
  BY TellOpens
<1>8. t.pc = "start"
  BY <1>3 DEF Untold
<1>9. /\ Chunk("role") \in Msg
      /\ \E v \in Tale :
           /\ Goes("gateway", "chat", t, Chunk("role"), v)
           /\ v.pc = "open" /\ v.kind = t.kind /\ v.n = t.n /\ v.c = t.c /\ v.why = t.why
           /\ v.usage = t.usage /\ v.marked = t.marked /\ v.signed = t.signed
  BY <1>8, TellersAre, RoleIs
<1>10. PICK v \in Tale :
         Goes("gateway", "chat", t, Chunk("role"), v) /\ v.pc = "open" /\ v.c = t.c
         /\ v.usage = NoUsage
  BY <1>3, <1>9
<1>11. Along("gateway", "chat", t, y.out, v)
  BY <1>5, <1>9, <1>10, AlongEvent
<1>12. ToolsOf(b) = ToolsOf(m)
  BY <1>7 DEF ToolsOf
<1>13. ChatMade(b, z, v, include) /\ b.pc \notin Ended
  BY <1>3, <1>6, <1>7, <1>10, <1>12, ChatMadeNext
<1>14. b.usage = IF y.usage = NoUsage THEN m.usage ELSE y.usage
  BY <1>3, <1>5, <1>7
<1> QED BY <1>1, <1>2, <1>5, <1>11, <1>13, <1>14, ChatTellsBy

\* ping
LEMMA ChatHearsPing ==
  ASSUME NEW m \in Tale, NEW s, IsOutward(s), NEW t \in Tale, NEW include,
         ChatMade(m, s, t, include), NEW ev \in Msg, ev.e = "ping", m.pc \notin Ended
  PROVE  ChatTells(m, s, t, ev, include)
<1>1. PICK y : y = MessagesToChat(s, ev, include)
  OBVIOUS
<1>2. y.out = <<>> /\ y.capture = NoCapture /\ y.usage = NoUsage /\ y.st = s
  BY <1>1 DEF MessagesToChat, Yield
<1>3. m = Tell(m, ev)
  BY TellNothing
<1>4. Along("gateway", "chat", t, y.out, t)
  BY <1>2, AlongNothing
<1> QED BY <1>1, <1>2, <1>3, <1>4, ChatTellsBy

\* content_block_start of a text: nothing.
LEMMA ChatHearsText ==
  ASSUME NEW m \in Tale, NEW s, IsOutward(s), NEW t \in Tale, NEW include,
         ChatMade(m, s, t, include), NEW ev \in Msg, NEW b \in Tale, b = Tell(m, ev),
         ev.e = "content_block_start", m.pc = "open", ev.kind = "text"
  PROVE  ChatTells(m, s, t, ev, include)
<1>1. PICK y : y = MessagesToChat(s, ev, include)
  OBVIOUS
<1>2. PICK z : z = y.st
  OBVIOUS
<1>3. /\ SameWords(t.c, m.c) /\ s.usage = m.usage /\ s.count = ToolsOf(m)
      /\ s.thinking = m.signed /\ s.ids = CallIds(m.c) /\ t.usage = NoUsage
      /\ t.pc = "open" /\ DOMAIN s.blocks = {}
  <2>1. m.pc \notin Ended
    BY DEF Ended
  <2>2. /\ SameWords(t.c, m.c) /\ s.usage = m.usage /\ s.count = ToolsOf(m)
        /\ s.thinking = m.signed /\ s.ids = CallIds(m.c) /\ t.usage = NoUsage
        /\ (m.pc # "start" => t.pc = "open")
    BY <2>1, ChatMadeWords
  <2>3. DOMAIN s.blocks = {}
    <3>1. ~Thinks(m)
      BY DEF Thinks
    <3> QED BY <3>1, ChatMadeBlocks
  <2> QED BY <2>2, <2>3
<1>4. y.out = <<>> /\ y.capture = NoCapture /\ y.usage = NoUsage /\ z = s
  BY <1>1, <1>2 DEF MessagesToChat, Yield
<1>5. PICK kind \in BlockKind : kind = ev.kind /\ kind # "tool" /\ kind # "thinking"
  BY DEF BlockKind
<1>6. PICK id \in Nat : id = ev.id
  BY MsgParts
<1>7. /\ b.pc = "block" /\ b.kind = kind /\ b.c = Begun(m.c, kind, id) /\ b.usage = m.usage
      /\ b.signed = m.signed
  BY <1>5, <1>6, TellBlock
<1>8. m.c \in Content /\ t.c \in Content
  BY TaleParts
<1>9. SameWords(t.c, b.c)
  BY <1>3, <1>5, <1>7, <1>8, SameWordsBegun
<1>10. CallIds(b.c) = CallIds(m.c)
  BY <1>5, <1>7, <1>8, CallIdsBegun
<1>11. ToolsOf(b) = ToolsOf(m)
  BY <1>5, <1>7, BegunTools DEF ToolsOf
<1>12. Along("gateway", "chat", t, y.out, t)
  BY <1>4, AlongNothing
<1>13. ChatMade(b, z, t, include) /\ b.pc \notin Ended
  BY <1>3, <1>4, <1>5, <1>7, <1>9, <1>10, <1>11, ChatMadeNext
<1> QED BY <1>1, <1>2, <1>4, <1>7, <1>12, <1>13, ChatTellsBy

LEMMA PutIs ==
  ASSUME NEW f, NEW k, NEW v, NEW g, g = Put(f, k, v)
  PROVE  DOMAIN g = DOMAIN f \cup {k} /\ g[k] = v /\ k \in DOMAIN g
BY DEF Put

LEMMA DropIs ==
  ASSUME NEW f, NEW k, NEW g, g = Drop(f, k)
  PROVE  DOMAIN g = DOMAIN f \ {k}
BY DEF Drop, Restrict

\* content_block_start of thinking
LEMMA ChatHearsThinking ==
  ASSUME NEW m \in Tale, NEW s, IsOutward(s), NEW t \in Tale, NEW include,
         ChatMade(m, s, t, include), NEW ev \in Msg, NEW b \in Tale, b = Tell(m, ev),
         ev.e = "content_block_start", m.pc = "open", ev.i = m.n, ev.kind = "thinking"
  PROVE  ChatTells(m, s, t, ev, include)
<1>1. PICK y : y = MessagesToChat(s, ev, include)
  OBVIOUS
<1>2. PICK z : z = y.st
  OBVIOUS
<1>3. /\ SameWords(t.c, m.c) /\ s.usage = m.usage /\ s.count = ToolsOf(m)
      /\ s.thinking = m.signed /\ s.ids = CallIds(m.c) /\ t.usage = NoUsage
      /\ t.pc = "open" /\ DOMAIN s.blocks = {}
  <2>1. m.pc \notin Ended
    BY DEF Ended
  <2>2. /\ SameWords(t.c, m.c) /\ s.usage = m.usage /\ s.count = ToolsOf(m)
        /\ s.thinking = m.signed /\ s.ids = CallIds(m.c) /\ t.usage = NoUsage
        /\ (m.pc # "start" => t.pc = "open")
    BY <2>1, ChatMadeWords
  <2>3. DOMAIN s.blocks = {}
    <3>1. ~Thinks(m)
      BY DEF Thinks
    <3> QED BY <3>1, ChatMadeBlocks
  <2> QED BY <2>2, <2>3
<1>4. y = Yield([s EXCEPT !.blocks = Put(s.blocks, ev.i, Block("thinking", 0, 0))], <<>>)
  BY <1>1 DEF MessagesToChat
<1>5. PICK blocks : blocks = Put(s.blocks, ev.i, Block("thinking", 0, 0))
  OBVIOUS
<1>6. /\ y.out = <<>> /\ y.capture = NoCapture /\ z = [s EXCEPT !.blocks = blocks]
      /\ y.usage = NoUsage
  BY <1>2, <1>4, <1>5 DEF Yield
<1>7. /\ z.blocks = blocks /\ z.usage = s.usage /\ z.count = s.count /\ z.thinking = s.thinking
      /\ z.ids = s.ids
  BY <1>6, OutwardChanged
<1>8. DOMAIN blocks = {ev.i} /\ blocks[ev.i] = Block("thinking", 0, 0)
  <2>1. DOMAIN blocks = DOMAIN s.blocks \cup {ev.i} /\ blocks[ev.i] = Block("thinking", 0, 0)
    BY <1>5 DEF Put
  <2> QED BY <1>3, <2>1
<1>9. PICK kind \in BlockKind : kind = ev.kind /\ kind # "tool" /\ kind \notin {"text", "tool"}
  BY DEF BlockKind
<1>10. PICK id \in Nat : id = ev.id
  BY MsgParts
<1>11. /\ b.pc = "block" /\ b.kind = kind /\ b.c = Begun(m.c, kind, id) /\ b.usage = m.usage
       /\ b.signed = m.signed /\ b.marked = m.marked /\ b.n = m.n + 1
  BY <1>9, <1>10, TellBlock
<1>12. m.c \in Content /\ t.c \in Content /\ ~m.marked /\ m.n = Len(m.c.items) /\ m.n \in Nat
  BY TaleParts
<1>13. SameWords(t.c, b.c)
  BY <1>3, <1>9, <1>11, <1>12, SameWordsBegun
<1>14. CallIds(b.c) = CallIds(m.c)
  BY <1>9, <1>11, <1>12, CallIdsBegun
<1>15. ToolsOf(b) = ToolsOf(m)
  BY <1>9, <1>11, BegunTools DEF ToolsOf
<1>16. b.n - 1 = ev.i
  BY <1>11, <1>12
<1>17. Thinking(b, blocks[ev.i])
  <2>1. b.c.items[b.n].text = <<>>
    BY <1>9, <1>10, <1>11, <1>12, TextOfBegun
  <2>2. /\ blocks[ev.i].kind = "thinking" /\ blocks[ev.i].text = <<>> /\ ~blocks[ev.i].signed
    BY <1>8 DEF Block
  <2> QED BY <2>1, <2>2, <1>11, <1>12 DEF Thinking
<1>18. Along("gateway", "chat", t, y.out, t)
  BY <1>6, AlongNothing
<1>19. DOMAIN z.blocks = {b.n - 1} /\ Thinking(b, z.blocks[b.n - 1])
  BY <1>7, <1>8, <1>16, <1>17
<1>20. b.kind = "thinking" /\ b.pc \in {"open", "block", "told"}
  BY <1>9, <1>11
<1>21. ChatMade(b, z, t, include) /\ b.pc \notin Ended
  BY <1>3, <1>7, <1>11, <1>13, <1>14, <1>15, <1>19, <1>20, ChatMadeNext
<1> QED BY <1>1, <1>2, <1>6, <1>11, <1>18, <1>21, ChatTellsBy

\* content_block_start of a tool call
LEMMA ChatHearsTool ==
  ASSUME NEW m \in Tale, NEW s, IsOutward(s), NEW t \in Tale, NEW include,
         ChatMade(m, s, t, include), NEW ev \in Msg, NEW b \in Tale, b = Tell(m, ev),
         ev.e = "content_block_start", m.pc = "open", ev.i = m.n, ev.kind = "tool", ev.id # 0
  PROVE  ChatTells(m, s, t, ev, include)
<1>1. PICK y : y = MessagesToChat(s, ev, include)
  OBVIOUS
<1>2. PICK z : z = y.st
  OBVIOUS
<1>3. /\ SameWords(t.c, m.c) /\ s.usage = m.usage /\ s.count = ToolsOf(m)
      /\ s.thinking = m.signed /\ s.ids = CallIds(m.c) /\ t.usage = NoUsage
      /\ t.pc = "open" /\ DOMAIN s.blocks = {} /\ s.count = ToolsOf(t)
  <2>1. m.pc \notin Ended
    BY DEF Ended
  <2>2. /\ SameWords(t.c, m.c) /\ s.usage = m.usage /\ s.count = ToolsOf(m)
        /\ s.thinking = m.signed /\ s.ids = CallIds(m.c) /\ t.usage = NoUsage
        /\ (m.pc # "start" => t.pc = "open") /\ s.count = ToolsOf(t)
    BY <2>1, ChatMadeWords
  <2>3. DOMAIN s.blocks = {}
    <3>1. ~Thinks(m)
      BY DEF Thinks
    <3> QED BY <3>1, ChatMadeBlocks
  <2> QED BY <2>2, <2>3
<1>4. y = Yield([s EXCEPT !.tool = Put(s.tool, ev.i, s.count), !.count = s.count + 1,
                          !.ids = Ids(s, ev.id)], <<ToolChunk(s.count, ev.id, 0)>>)
  BY <1>1 DEF MessagesToChat
<1>5. PICK tool, count, ids : /\ tool = Put(s.tool, ev.i, s.count) /\ count = s.count + 1
                              /\ ids = Ids(s, ev.id)
  OBVIOUS
<1>6. /\ y.out = <<ToolChunk(s.count, ev.id, 0)>> /\ y.capture = NoCapture
      /\ z = [s EXCEPT !.tool = tool, !.count = count, !.ids = ids] /\ y.usage = NoUsage
  BY <1>2, <1>4, <1>5 DEF Yield
<1>7. /\ z.blocks = s.blocks /\ z.usage = s.usage /\ z.count = count /\ z.thinking = s.thinking
      /\ z.ids = ids /\ z.tool = tool
  BY <1>6, OutwardChanged
<1>8. ev.i \in DOMAIN tool /\ tool[ev.i] = s.count
  <2>1. tool = Put(s.tool, ev.i, s.count)
    BY <1>5
  <2> QED BY <2>1 DEF Put
<1>9. PICK kind \in BlockKind : kind = ev.kind /\ kind = "tool"
  BY DEF BlockKind
<1>10. PICK id \in Nat : id = ev.id /\ id # 0
  BY MsgParts
<1>11. /\ b.pc = "block" /\ b.kind = kind /\ b.c = Begun(m.c, kind, id) /\ b.usage = m.usage
       /\ b.signed = m.signed /\ b.marked = m.marked /\ b.n = m.n + 1
  BY <1>9, <1>10, TellBlock
<1>12. m.c \in Content /\ t.c \in Content /\ m.n \in Nat /\ Len(m.c.tools) \in Nat
  BY TaleParts
<1>13. PICK i : i = s.count /\ i = ToolsOf(t)
  BY <1>3
<1>14. /\ ToolChunk(i, id, 0) \in Msg
       /\ \E v \in Tale :
            /\ Goes("gateway", "chat", t, ToolChunk(i, id, 0), v)
            /\ v.pc = t.pc /\ v.kind = "tool" /\ v.n = t.n + 1 /\ v.c = Begun(t.c, "tool", id)
            /\ v.why = t.why /\ v.usage = t.usage /\ v.marked = t.marked
            /\ v.signed = t.signed
  BY <1>3, <1>10, <1>13, ToolChunkIs, TellersAre
<1>15. PICK v \in Tale :
         /\ Goes("gateway", "chat", t, ToolChunk(i, id, 0), v)
         /\ v.pc = t.pc /\ v.kind = "tool" /\ v.c = Begun(t.c, "tool", id) /\ v.usage = t.usage
  BY <1>14
<1>16. Along("gateway", "chat", t, y.out, v)
  BY <1>6, <1>10, <1>13, <1>14, <1>15, AlongEvent
<1>17. SameWords(v.c, b.c)
  BY <1>3, <1>9, <1>11, <1>12, <1>15, SameWordsBegun
<1>18. CallIds(b.c) = Append(CallIds(m.c), id)
  BY <1>9, <1>11, <1>12, CallIdsBegun
<1>19. ids = Append(s.ids, id)
  BY <1>5, <1>10 DEF Ids
<1>20. b.c.tools = Append(m.c.tools, [id |-> id, text |-> <<>>])
  BY <1>9, <1>11, BegunTools
<1>21. ToolsOf(b) = ToolsOf(m) + 1
  <2>1. m.c.tools \in Seq(ToolCalled)
    BY <1>12, ContentParts
  <2> QED BY <2>1, <1>12, <1>20 DEF ToolsOf
<1>22. b.n - 1 = ev.i
  BY <1>11, <1>12
<1>23. b.n - 1 \in DOMAIN z.tool /\ z.tool[b.n - 1] + 1 = ToolsOf(b)
  BY <1>3, <1>7, <1>8, <1>21, <1>22
<1>24. ChatMade(b, z, v, include) /\ b.pc \notin Ended
  <2>1. b.kind = "tool" /\ v.usage = NoUsage /\ v.pc = "open"
    BY <1>3, <1>9, <1>11, <1>15
  <2>2. z.count = ToolsOf(b) /\ z.ids = CallIds(b.c)
    BY <1>3, <1>5, <1>7, <1>18, <1>19, <1>21
  <2> QED BY <1>3, <1>7, <1>11, <1>15, <1>17, <1>23, <2>1, <2>2, ChatMadeNext
<1> QED BY <1>1, <1>2, <1>6, <1>11, <1>16, <1>24, ChatTellsBy

\* What is common to the cases of a block that is open.
LEMMA ChatMadeInBlock ==
  ASSUME NEW m \in Tale, NEW s, NEW t \in Tale, NEW include, ChatMade(m, s, t, include),
         m.pc = "block"
  PROVE  /\ SameWords(t.c, m.c) /\ s.usage = m.usage /\ s.count = ToolsOf(m)
         /\ s.thinking = m.signed /\ s.ids = CallIds(m.c) /\ t.usage = NoUsage /\ t.pc = "open"
         /\ ToolsOf(t) = ToolsOf(m)
         /\ (m.kind # "thinking" => DOMAIN s.blocks = {})
         /\ (m.kind = "thinking" =>
               DOMAIN s.blocks = {m.n - 1} /\ Thinking(m, s.blocks[m.n - 1]))
<1>1. m.pc \notin Ended /\ m.pc # "start" /\ (Thinks(m) <=> m.kind = "thinking")
  BY DEF Ended, Thinks
<1>2. /\ SameWords(t.c, m.c) /\ s.usage = m.usage /\ s.count = ToolsOf(m)
      /\ s.thinking = m.signed /\ s.ids = CallIds(m.c) /\ t.usage = NoUsage
      /\ (m.pc # "start" => t.pc = "open") /\ ToolsOf(t) = ToolsOf(m)
  BY <1>1, ChatMadeWords
<1>3. /\ ~Thinks(m) => DOMAIN s.blocks = {}
      /\ Thinks(m) => DOMAIN s.blocks = {m.n - 1} /\ Thinking(m, s.blocks[m.n - 1])
  BY ChatMadeBlocks
<1> QED BY <1>1, <1>2, <1>3, Zenon

\* A piece of text or of thinking, for a client that may not have heard of the block.
LEMMA ChatWordsGo ==
  ASSUME NEW m \in Tale, NEW t \in Tale, SameWords(t.c, m.c), t.pc = "open", m.pc = "block",
         NEW kind \in {"text", "thinking"}, NEW frag \in Nat, frag # 0, kind = m.kind
  PROVE  /\ TextChunk(kind, frag) \in Msg
         /\ \E v \in Tale :
              /\ Goes("gateway", "chat", t, TextChunk(kind, frag), v)
              /\ v.pc = "open" /\ v.usage = t.usage
              /\ SameWords(v.c, MoreOfLast(m.c, kind, frag))
<1>1. /\ m.c \in Content /\ t.c \in Content /\ m.c.items # <<>> /\ kind \in BlockKind
      /\ kind # "tool"
  BY TaleParts DEF BlockKind
<1>2. CASE t.kind = kind
  <2>1. /\ TextChunk(kind, frag) \in Msg
        /\ \E v \in Tale :
              /\ Goes("gateway", "chat", t, TextChunk(kind, frag), v)
              /\ v.pc = t.pc /\ v.kind = kind /\ v.n = t.n /\ v.c = MoreOfLast(t.c, kind, frag)
              /\ v.why = t.why /\ v.usage = t.usage /\ v.marked = t.marked
              /\ v.signed = t.signed
    BY <1>2, TextMoreIs, TellersAre
  <2>2. PICK v \in Tale :
          /\ Goes("gateway", "chat", t, TextChunk(kind, frag), v)
          /\ v.pc = t.pc /\ v.c = MoreOfLast(t.c, kind, frag) /\ v.usage = t.usage
    BY <2>1
  <2>3. t.c.items # <<>>
    <3>1. t.kind # "none" /\ t.n # 0
      BY <1>1, <1>2, TaleParts DEF BlockKind
    <3> QED BY <3>1, TaleParts
  <2>4. SameWords(MoreOfLast(t.c, kind, frag), MoreOfLast(m.c, kind, frag))
    BY <1>1, <2>3, SameWordsGoOn
  <2> QED BY <2>1, <2>2, <2>4
<1>3. CASE t.kind # kind
  <2>1. /\ TextChunk(kind, frag) \in Msg
        /\ \E v \in Tale :
              /\ Goes("gateway", "chat", t, TextChunk(kind, frag), v)
              /\ v.pc = t.pc /\ v.kind = kind /\ v.n = t.n + 1
              /\ v.c = MoreOfLast(Begun(t.c, kind, 0), kind, frag) /\ v.why = t.why
              /\ v.usage = t.usage /\ v.marked = t.marked /\ v.signed = t.signed
    BY <1>3, TextBeginsIs, TellersAre, SMTT(30)
  <2>2. PICK v \in Tale :
          /\ Goes("gateway", "chat", t, TextChunk(kind, frag), v)
          /\ v.pc = t.pc /\ v.c = MoreOfLast(Begun(t.c, kind, 0), kind, frag)
          /\ v.usage = t.usage
    BY <2>1
  <2>3. SameWords(MoreOfLast(Begun(t.c, kind, 0), kind, frag), MoreOfLast(m.c, kind, frag))
    BY <1>1, SameWordsLate
  <2> QED BY <2>1, <2>2, <2>3
<1> QED BY <1>2, <1>3

\* The delta of a block that is known.
LEMMA AccumulateIs ==
  ASSUME NEW s, IsOutward(s), NEW ev \in Msg, NEW j \in DOMAIN s.blocks, ev.i = j,
         NEW z, z = Accumulate(s, ev)
  PROVE  /\ z.usage = s.usage /\ z.tool = s.tool /\ z.count = s.count
         /\ z.thinking = s.thinking /\ z.ids = s.ids /\ z.items = s.items /\ z.why = s.why
         /\ DOMAIN z.blocks = DOMAIN s.blocks
         /\ z.blocks[j].kind = s.blocks[j].kind /\ z.blocks[j].i = s.blocks[j].i
         /\ z.blocks[j].id = s.blocks[j].id
         /\ ev.kind = "signature" =>
              z.blocks[j].signed /\ z.blocks[j].text = s.blocks[j].text
         /\ ev.kind # "signature" =>
              /\ z.blocks[j].signed = s.blocks[j].signed
              /\ z.blocks[j].text = Append(s.blocks[j].text, ev.frag)
<1>1. s.blocks \in [DOMAIN s.blocks -> BlockState] /\ s.blocks[j] \in BlockState
  BY DEF IsOutward
<1>2. CASE ev.kind = "signature"
  <2>1. PICK blocks : blocks = [s.blocks EXCEPT ![j].signed = TRUE]
    OBVIOUS
  <2>2. z = [s EXCEPT !.blocks = blocks]
    BY <1>2, <2>1 DEF Accumulate
  <2>3. /\ DOMAIN blocks = DOMAIN s.blocks /\ blocks[j] = [s.blocks[j] EXCEPT !.signed = TRUE]
    BY <1>1, <2>1
  <2>4. /\ blocks[j].kind = s.blocks[j].kind /\ blocks[j].i = s.blocks[j].i
        /\ blocks[j].id = s.blocks[j].id /\ blocks[j].signed
        /\ blocks[j].text = s.blocks[j].text
    BY <1>1, <2>3 DEF BlockState
  <2>5. /\ z.blocks = blocks /\ z.usage = s.usage /\ z.tool = s.tool /\ z.count = s.count
        /\ z.thinking = s.thinking /\ z.ids = s.ids /\ z.items = s.items /\ z.why = s.why
    BY <2>2, OutwardChanged
  <2> QED BY <1>2, <2>3, <2>4, <2>5
<1>3. CASE ev.kind # "signature"
  <2>1. PICK blocks : blocks = [s.blocks EXCEPT ![j].text = Append(s.blocks[j].text, ev.frag)]
    OBVIOUS
  <2>2. z = [s EXCEPT !.blocks = blocks]
    BY <1>3, <2>1 DEF Accumulate
  <2>3. /\ DOMAIN blocks = DOMAIN s.blocks
        /\ blocks[j] = [s.blocks[j] EXCEPT !.text = Append(s.blocks[j].text, ev.frag)]
    BY <1>1, <2>1
  <2>4. /\ blocks[j].kind = s.blocks[j].kind /\ blocks[j].i = s.blocks[j].i
        /\ blocks[j].id = s.blocks[j].id /\ blocks[j].signed = s.blocks[j].signed
        /\ blocks[j].text = Append(s.blocks[j].text, ev.frag)
    BY <1>1, <2>3 DEF BlockState
  <2>5. /\ z.blocks = blocks /\ z.usage = s.usage /\ z.tool = s.tool /\ z.count = s.count
        /\ z.thinking = s.thinking /\ z.ids = s.ids /\ z.items = s.items /\ z.why = s.why
    BY <2>2, OutwardChanged
  <2> QED BY <1>3, <2>3, <2>4, <2>5
<1> QED BY <1>2, <1>3

\* content_block_delta of text
LEMMA ChatHearsMoreText ==
  ASSUME NEW m \in Tale, NEW s, IsOutward(s), NEW t \in Tale, NEW include,
         ChatMade(m, s, t, include), NEW ev \in Msg, NEW b \in Tale, b = Tell(m, ev),
         ev.e = "content_block_delta", m.pc = "block", ev.kind = "text", m.kind = "text",
         ev.frag # 0
  PROVE  ChatTells(m, s, t, ev, include)
<1>1. PICK y : y = MessagesToChat(s, ev, include)
  OBVIOUS
<1>2. PICK z : z = y.st
  OBVIOUS
<1>3. /\ SameWords(t.c, m.c) /\ s.usage = m.usage /\ s.count = ToolsOf(m)
      /\ s.thinking = m.signed /\ s.ids = CallIds(m.c) /\ t.usage = NoUsage /\ t.pc = "open"
      /\ (m.kind # "thinking" => DOMAIN s.blocks = {})
  BY ChatMadeInBlock
<1>4. y = Yield(s, <<TextChunk("text", ev.frag)>>)
  BY <1>1 DEF MessagesToChat
<1>5. y.out = <<TextChunk("text", ev.frag)>> /\ y.capture = NoCapture /\ y.usage = NoUsage /\ z = s
  BY <1>2, <1>4 DEF Yield
<1>6. PICK kind \in {"text", "thinking"} : kind = m.kind /\ kind = ev.kind /\ kind = "text"
  OBVIOUS
<1>7. PICK frag \in Nat : frag = ev.frag /\ frag # 0
  BY MsgParts
<1>8. /\ TextChunk(kind, frag) \in Msg
      /\ \E v \in Tale :
           /\ Goes("gateway", "chat", t, TextChunk(kind, frag), v)
           /\ v.pc = "open" /\ v.usage = t.usage
           /\ SameWords(v.c, MoreOfLast(m.c, kind, frag))
  <2>1. kind = m.kind /\ frag # 0 /\ SameWords(t.c, m.c) /\ t.pc = "open"
    BY <1>3, <1>6, <1>7
  <2> QED BY <2>1, ChatWordsGo
<1>9. PICK v \in Tale :
        /\ Goes("gateway", "chat", t, TextChunk(kind, frag), v)
        /\ v.pc = "open" /\ v.usage = t.usage /\ SameWords(v.c, MoreOfLast(m.c, kind, frag))
  BY <1>8
<1>10. Along("gateway", "chat", t, y.out, v)
  BY <1>5, <1>6, <1>7, <1>8, <1>9, AlongEvent
<1>11. ev.kind # "signature"
  OBVIOUS
<1>12. /\ b.pc = m.pc /\ b.kind = m.kind /\ b.n = m.n /\ b.c = MoreOfLast(m.c, kind, frag)
       /\ b.usage = m.usage /\ b.signed = m.signed
  BY <1>6, <1>7, <1>11, TellPiece
<1>13. m.c \in Content /\ m.c.items # <<>> /\ kind \in BlockKind /\ kind # "tool"
  BY <1>6, TaleParts DEF BlockKind
<1>14. CallIds(b.c) = CallIds(m.c)
  BY <1>12, <1>13, CallIdsMore
<1>15. ToolsOf(b) = ToolsOf(m)
  BY <1>12, <1>13, MoreOfLastIs DEF ToolsOf
<1>16. b.pc \in {"open", "block", "told"} /\ b.kind # "thinking" /\ b.kind # "tool" /\ b.pc # "told"
  BY <1>12
<1>17. ChatMade(b, z, v, include) /\ b.pc \notin Ended
  BY <1>3, <1>5, <1>9, <1>12, <1>14, <1>15, <1>16, ChatMadeNext
<1> QED BY <1>1, <1>2, <1>5, <1>10, <1>12, <1>17, ChatTellsBy

\* content_block_delta of thinking
LEMMA ChatHearsMoreThinking ==
  ASSUME NEW m \in Tale, NEW s, IsOutward(s), NEW t \in Tale, NEW include,
         ChatMade(m, s, t, include), NEW ev \in Msg, NEW b \in Tale, b = Tell(m, ev),
         ev.e = "content_block_delta", m.pc = "block", ev.kind = "thinking",
         m.kind = "thinking", ev.frag # 0, ev.i + 1 = m.n
  PROVE  ChatTells(m, s, t, ev, include)
<1>1. PICK y : y = MessagesToChat(s, ev, include)
  OBVIOUS
<1>2. PICK z : z = y.st
  OBVIOUS
<1>3. /\ SameWords(t.c, m.c) /\ s.usage = m.usage /\ s.count = ToolsOf(m)
      /\ s.thinking = m.signed /\ s.ids = CallIds(m.c) /\ t.usage = NoUsage /\ t.pc = "open"
      /\ (m.kind = "thinking" =>
            DOMAIN s.blocks = {m.n - 1} /\ Thinking(m, s.blocks[m.n - 1]))
  BY ChatMadeInBlock
<1>4. y = Yield(Accumulate(s, ev), <<TextChunk("thinking", ev.frag)>>)
  BY <1>1 DEF MessagesToChat
<1>5. /\ y.out = <<TextChunk("thinking", ev.frag)>> /\ y.capture = NoCapture
      /\ y.usage = NoUsage /\ z = Accumulate(s, ev)
  BY <1>2, <1>4 DEF Yield
<1>6. PICK kind \in {"text", "thinking"} : kind = m.kind /\ kind = ev.kind /\ kind = "thinking"
  OBVIOUS
<1>7. PICK frag \in Nat : frag = ev.frag /\ frag # 0
  BY MsgParts
<1>8. /\ TextChunk(kind, frag) \in Msg
      /\ \E v \in Tale :
           /\ Goes("gateway", "chat", t, TextChunk(kind, frag), v)
           /\ v.pc = "open" /\ v.usage = t.usage
           /\ SameWords(v.c, MoreOfLast(m.c, kind, frag))
  <2>1. kind = m.kind /\ frag # 0 /\ SameWords(t.c, m.c) /\ t.pc = "open"
    BY <1>3, <1>6, <1>7
  <2> QED BY <2>1, ChatWordsGo
<1>9. PICK v \in Tale :
        /\ Goes("gateway", "chat", t, TextChunk(kind, frag), v)
        /\ v.pc = "open" /\ v.usage = t.usage /\ SameWords(v.c, MoreOfLast(m.c, kind, frag))
  BY <1>8
<1>10. Along("gateway", "chat", t, y.out, v)
  BY <1>5, <1>6, <1>7, <1>8, <1>9, AlongEvent
<1>11. ev.kind # "signature"
  OBVIOUS
<1>12. /\ b.pc = m.pc /\ b.kind = m.kind /\ b.n = m.n /\ b.c = MoreOfLast(m.c, kind, frag)
       /\ b.usage = m.usage /\ b.signed = m.signed /\ b.marked = m.marked
  BY <1>6, <1>7, <1>11, TellPiece
<1>13. /\ m.c \in Content /\ m.c.items # <<>> /\ kind \in BlockKind /\ kind # "tool"
       /\ m.n = Len(m.c.items) /\ m.n \in Nat
  BY <1>6, TaleParts DEF BlockKind
<1>14. CallIds(b.c) = CallIds(m.c)
  BY <1>12, <1>13, CallIdsMore
<1>15. ToolsOf(b) = ToolsOf(m)
  BY <1>12, <1>13, MoreOfLastIs DEF ToolsOf
<1>16. b.pc \in {"open", "block", "told"} /\ b.kind = "thinking" /\ b.pc # "told"
  BY <1>12
<1>17. PICK j \in DOMAIN s.blocks : j = ev.i /\ j = m.n - 1
  <2>1. ev.i \in Nat /\ ev.i = m.n - 1
    BY <1>13, MsgParts
  <2> QED BY <1>3, <2>1
<1>18. /\ z.usage = s.usage /\ z.count = s.count /\ z.thinking = s.thinking /\ z.ids = s.ids
       /\ DOMAIN z.blocks = DOMAIN s.blocks /\ z.blocks[j].kind = s.blocks[j].kind
       /\ z.blocks[j].signed = s.blocks[j].signed
       /\ z.blocks[j].text = Append(s.blocks[j].text, ev.frag)
  <2>1. ev.i = j
    BY <1>17
  <2> QED BY <1>5, <1>11, <2>1, AccumulateIs, SMTT(30)
<1>19. Thinking(b, z.blocks[j])
  <2>1. b.c.items[m.n].text = Append(m.c.items[m.n].text, frag)
    BY <1>12, <1>13, TextOfMore
  <2>2. Thinking(m, s.blocks[j])
    BY <1>3, <1>17
  <2> QED BY <1>7, <1>12, <1>18, <2>1, <2>2, ZenonT(60) DEF Thinking
<1>20. DOMAIN z.blocks = {b.n - 1} /\ Thinking(b, z.blocks[b.n - 1])
  BY <1>3, <1>12, <1>17, <1>18, <1>19
<1>21. ChatMade(b, z, v, include) /\ b.pc \notin Ended
  BY <1>3, <1>9, <1>12, <1>14, <1>15, <1>16, <1>18, <1>20, ChatMadeNext
<1> QED BY <1>1, <1>2, <1>5, <1>10, <1>12, <1>21, ChatTellsBy

\* content_block_delta with the signature
LEMMA ChatHearsSignature ==
  ASSUME NEW m \in Tale, NEW s, IsOutward(s), NEW t \in Tale, NEW include,
         ChatMade(m, s, t, include), NEW ev \in Msg, NEW b \in Tale, b = Tell(m, ev),
         ev.e = "content_block_delta", m.pc = "block", ev.kind = "signature",
         m.kind = "thinking", ev.i + 1 = m.n
  PROVE  ChatTells(m, s, t, ev, include)
<1>1. PICK y : y = MessagesToChat(s, ev, include)
  OBVIOUS
<1>2. PICK z : z = y.st
  OBVIOUS
<1>3. /\ SameWords(t.c, m.c) /\ s.usage = m.usage /\ s.count = ToolsOf(m)
      /\ s.thinking = m.signed /\ s.ids = CallIds(m.c) /\ t.usage = NoUsage /\ t.pc = "open"
      /\ (m.kind = "thinking" =>
            DOMAIN s.blocks = {m.n - 1} /\ Thinking(m, s.blocks[m.n - 1]))
  BY ChatMadeInBlock
<1>4. y = Yield(Accumulate(s, ev), <<>>)
  BY <1>1 DEF MessagesToChat
<1>5. /\ y.out = <<>> /\ y.capture = NoCapture /\ y.usage = NoUsage /\ z = Accumulate(s, ev)
  BY <1>2, <1>4 DEF Yield
<1>6. Along("gateway", "chat", t, y.out, t)
  BY <1>5, AlongNothing
<1>7. /\ b.pc = m.pc /\ b.kind = m.kind /\ b.n = m.n /\ b.c = m.c /\ b.usage = m.usage
      /\ b.signed = m.signed /\ b.marked
  BY TellMark
<1>8. m.n \in Nat
  BY TaleParts
<1>9. ToolsOf(b) = ToolsOf(m)
  BY <1>7 DEF ToolsOf
<1>10. b.pc \in {"open", "block", "told"} /\ b.kind = "thinking" /\ b.pc # "told"
  BY <1>7
<1>11. PICK j \in DOMAIN s.blocks : j = ev.i /\ j = m.n - 1
  <2>1. ev.i \in Nat /\ ev.i = m.n - 1
    BY <1>8, MsgParts
  <2> QED BY <1>3, <2>1
<1>12. /\ z.usage = s.usage /\ z.count = s.count /\ z.thinking = s.thinking /\ z.ids = s.ids
       /\ DOMAIN z.blocks = DOMAIN s.blocks /\ z.blocks[j].kind = s.blocks[j].kind
       /\ z.blocks[j].signed /\ z.blocks[j].text = s.blocks[j].text
  <2>1. ev.i = j
    BY <1>11
  <2> QED BY <1>5, <2>1, AccumulateIs
<1>13. Thinking(b, z.blocks[j])
  <2>1. Thinking(m, s.blocks[j])
    BY <1>3, <1>11
  <2> QED BY <1>7, <1>12, <2>1 DEF Thinking
<1>14. DOMAIN z.blocks = {b.n - 1} /\ Thinking(b, z.blocks[b.n - 1])
  BY <1>3, <1>7, <1>11, <1>12, <1>13
<1>15. ChatMade(b, z, t, include) /\ b.pc \notin Ended
  BY <1>3, <1>7, <1>9, <1>10, <1>12, <1>14, ChatMadeNext
<1> QED BY <1>1, <1>2, <1>5, <1>6, <1>7, <1>15, ChatTellsBy

\* content_block_delta of a tool call
LEMMA ChatHearsMoreTool ==
  ASSUME NEW m \in Tale, NEW s, IsOutward(s), NEW t \in Tale, NEW include,
         ChatMade(m, s, t, include), NEW ev \in Msg, NEW b \in Tale, b = Tell(m, ev),
         ev.e = "content_block_delta", m.pc = "block", ev.kind = "tool", m.kind = "tool",
         ev.frag # 0, ev.i + 1 = m.n
  PROVE  ChatTells(m, s, t, ev, include)
<1>1. PICK y : y = MessagesToChat(s, ev, include)
  OBVIOUS
<1>2. PICK z : z = y.st
  OBVIOUS
<1>3. /\ SameWords(t.c, m.c) /\ s.usage = m.usage /\ s.count = ToolsOf(m)
      /\ s.thinking = m.signed /\ s.ids = CallIds(m.c) /\ t.usage = NoUsage /\ t.pc = "open"
      /\ ToolsOf(t) = ToolsOf(m) /\ (m.kind # "thinking" => DOMAIN s.blocks = {})
  BY ChatMadeInBlock
<1>4. t.kind = "tool" /\ m.n - 1 \in DOMAIN s.tool /\ s.tool[m.n - 1] + 1 = ToolsOf(m)
  BY ChatMadeTool
<1>5. y = Yield(s, <<ToolChunk(ToolCall(s, ev.i), 0, ev.frag)>>)
  BY <1>1 DEF MessagesToChat
<1>6. /\ y.out = <<ToolChunk(ToolCall(s, ev.i), 0, ev.frag)>> /\ y.capture = NoCapture
      /\ y.usage = NoUsage /\ z = s
  BY <1>2, <1>5 DEF Yield
<1>7. /\ m.c \in Content /\ m.c.items # <<>> /\ m.c.tools # <<>> /\ m.n \in Nat
      /\ t.c \in Content /\ t.c.items # <<>>
  <2>1. m.c \in Content /\ m.c.items # <<>> /\ m.n \in Nat /\ t.c \in Content
    BY TaleParts
  <2>2. m.c.tools # <<>>
    BY TaleParts
  <2>3. t.n # 0
    BY <1>4, TaleParts
  <2> QED BY <2>1, <2>2, <2>3, TaleParts
<1>8. PICK i \in Nat : i = ToolCall(s, ev.i) /\ i + 1 = ToolsOf(t)
  <2>1. ev.i \in Nat /\ ev.i = m.n - 1
    BY <1>7, MsgParts
  <2>2. ToolCall(s, ev.i) = s.tool[m.n - 1]
    BY <1>4, <2>1 DEF ToolCall
  <2>3. s.tool[m.n - 1] \in Nat
    BY <1>4, OutwardParts
  <2> QED BY <1>3, <1>4, <2>2, <2>3
<1>9. PICK frag \in Nat : frag = ev.frag /\ frag # 0
  BY MsgParts
<1>10. /\ ToolChunk(i, 0, frag) \in Msg
       /\ \E v \in Tale :
            /\ Goes("gateway", "chat", t, ToolChunk(i, 0, frag), v)
            /\ v.pc = t.pc /\ v.kind = t.kind /\ v.n = t.n
            /\ v.c = MoreOfLast(t.c, "tool", frag) /\ v.why = t.why /\ v.usage = t.usage
            /\ v.marked = t.marked /\ v.signed = t.signed
  <2>1. t.pc = "open" /\ frag # 0 /\ t.kind = "tool" /\ i + 1 = ToolsOf(t)
    BY <1>3, <1>4, <1>8, <1>9
  <2>2. "gateway" \in Teller
    BY TellersAre
  <2> QED BY <2>1, <2>2, ToolPieceIs
<1>11. PICK v \in Tale :
         /\ Goes("gateway", "chat", t, ToolChunk(i, 0, frag), v)
         /\ v.pc = t.pc /\ v.kind = t.kind /\ v.c = MoreOfLast(t.c, "tool", frag)
         /\ v.usage = t.usage
  BY <1>10
<1>12. Along("gateway", "chat", t, y.out, v)
  BY <1>6, <1>8, <1>9, <1>10, <1>11, AlongEvent
<1>13. PICK kind \in BlockKind : kind = ev.kind /\ kind = "tool"
  BY DEF BlockKind
<1>14. /\ b.pc = m.pc /\ b.kind = m.kind /\ b.n = m.n /\ b.c = MoreOfLast(m.c, kind, frag)
       /\ b.usage = m.usage /\ b.signed = m.signed /\ b.marked = m.marked
  <2>1. ev.kind # "signature"
    OBVIOUS
  <2> QED BY <1>9, <1>13, <2>1, TellPiece
<1>15. CallIds(b.c) = CallIds(m.c)
  BY <1>7, <1>14, CallIdsMore
<1>16. ToolsOf(b) = ToolsOf(m)
  BY <1>7, <1>14, MoreOfLastIs DEF ToolsOf
<1>17. SameWords(v.c, b.c)
  <2>1. SameWords(MoreOfLast(t.c, kind, frag), MoreOfLast(m.c, kind, frag))
    BY <1>3, <1>7, SameWordsGoOn
  <2> QED BY <1>11, <1>13, <1>14, <2>1
<1>18. b.pc \in {"open", "block", "told"} /\ b.kind # "thinking" /\ b.pc # "told"
  BY <1>14
<1>19. v.kind = "tool" /\ b.n - 1 \in DOMAIN z.tool /\ z.tool[b.n - 1] + 1 = ToolsOf(b)
  BY <1>4, <1>6, <1>11, <1>14, <1>16
<1>20. DOMAIN z.blocks = {}
  BY <1>3, <1>6
<1>21. /\ z.usage = b.usage /\ z.count = ToolsOf(b) /\ z.thinking = b.signed
       /\ z.ids = CallIds(b.c) /\ v.usage = NoUsage /\ v.pc = "open"
  BY <1>3, <1>6, <1>11, <1>14, <1>15, <1>16
<1>22. ChatMade(b, z, v, include) /\ b.pc \notin Ended
  BY <1>17, <1>18, <1>19, <1>20, <1>21, ChatMadeNext
<1> QED BY <1>1, <1>2, <1>6, <1>12, <1>14, <1>22, ChatTellsBy

\* What a block that ends leaves.
LEMMA ThoughtIs ==
  ASSUME NEW s, NEW block, NEW m, s.thinking = m.signed, Thinking(m, block)
  PROVE  Thought(s, block) = Signed(m, m.marked)
BY DEF Thought, Thinking, Signed

\* content_block_stop of thinking
LEMMA ChatHearsThought ==
  ASSUME NEW m \in Tale, NEW s, IsOutward(s), NEW t \in Tale, NEW include,
         ChatMade(m, s, t, include), NEW ev \in Msg, NEW b \in Tale, b = Tell(m, ev),
         ev.e = "content_block_stop", m.pc = "block", m.kind = "thinking", ev.i + 1 = m.n
  PROVE  ChatTells(m, s, t, ev, include)
<1>1. PICK y : y = MessagesToChat(s, ev, include)
  OBVIOUS
<1>2. PICK z : z = y.st
  OBVIOUS
<1>3. /\ SameWords(t.c, m.c) /\ s.usage = m.usage /\ s.count = ToolsOf(m)
      /\ s.thinking = m.signed /\ s.ids = CallIds(m.c) /\ t.usage = NoUsage /\ t.pc = "open"
      /\ (m.kind = "thinking" =>
            DOMAIN s.blocks = {m.n - 1} /\ Thinking(m, s.blocks[m.n - 1]))
  BY ChatMadeInBlock
<1>4. PICK j \in DOMAIN s.blocks : j = ev.i /\ DOMAIN s.blocks = {j} /\ Thinking(m, s.blocks[j])
  <2>1. m.n \in Nat
    BY TaleParts
  <2>2. ev.i \in Nat /\ ev.i = m.n - 1
    BY <2>1, MsgParts
  <2> QED BY <1>3, <2>2
<1>5. PICK blocks, thinking : blocks = Drop(s.blocks, ev.i) /\ thinking = Thought(s, s.blocks[ev.i])
  OBVIOUS
<1>6. y = Yield([s EXCEPT !.blocks = blocks, !.thinking = thinking], <<>>)
  BY <1>1, <1>4, <1>5 DEF MessagesToChat
<1>7. /\ y.out = <<>> /\ y.capture = NoCapture /\ y.usage = NoUsage
      /\ z = [s EXCEPT !.blocks = blocks, !.thinking = thinking]
  BY <1>2, <1>6 DEF Yield
<1>8. /\ z.blocks = blocks /\ z.thinking = thinking /\ z.usage = s.usage /\ z.count = s.count
      /\ z.ids = s.ids
  BY <1>7, OutwardChanged
<1>9. DOMAIN blocks = {}
  <2>1. DOMAIN blocks = DOMAIN s.blocks \ {ev.i}
    BY <1>5, DropIs
  <2> QED BY <1>4, <2>1
<1>10. thinking = Signed(m, m.marked)
  <2>1. thinking = Thought(s, s.blocks[j])
    BY <1>4, <1>5
  <2> QED BY <1>3, <1>4, <2>1, ThoughtIs
<1>11. Along("gateway", "chat", t, y.out, t)
  BY <1>7, AlongNothing
<1>12. /\ b.pc = "open" /\ b.c = m.c /\ b.usage = m.usage /\ b.signed = Signed(m, m.marked)
  BY TellStop
<1>13. ToolsOf(b) = ToolsOf(m)
  BY <1>12 DEF ToolsOf
<1>14. b.pc \in {"open", "block", "told"} /\ b.pc # "told" /\ b.pc # "block" /\ DOMAIN z.blocks = {}
  BY <1>8, <1>9, <1>12
<1>15. ChatMade(b, z, t, include) /\ b.pc \notin Ended
  BY <1>3, <1>8, <1>10, <1>12, <1>13, <1>14, ChatMadeNext
<1> QED BY <1>1, <1>2, <1>7, <1>11, <1>12, <1>15, ChatTellsBy

\* content_block_stop of another block
LEMMA ChatHearsStop ==
  ASSUME NEW m \in Tale, NEW s, IsOutward(s), NEW t \in Tale, NEW include,
         ChatMade(m, s, t, include), NEW ev \in Msg, NEW b \in Tale, b = Tell(m, ev),
         ev.e = "content_block_stop", m.pc = "block", m.kind # "thinking"
  PROVE  ChatTells(m, s, t, ev, include)
<1>1. PICK y : y = MessagesToChat(s, ev, include)
  OBVIOUS
<1>2. PICK z : z = y.st
  OBVIOUS
<1>3. /\ SameWords(t.c, m.c) /\ s.usage = m.usage /\ s.count = ToolsOf(m)
      /\ s.thinking = m.signed /\ s.ids = CallIds(m.c) /\ t.usage = NoUsage /\ t.pc = "open"
      /\ (m.kind # "thinking" => DOMAIN s.blocks = {})
  BY ChatMadeInBlock
<1>4. y = Yield(s, <<>>)
  <2>1. ev.i \notin DOMAIN s.blocks
    BY <1>3
  <2> QED BY <1>1, <2>1 DEF MessagesToChat
<1>5. /\ y.out = <<>> /\ y.capture = NoCapture /\ y.usage = NoUsage /\ z = s
  BY <1>2, <1>4 DEF Yield
<1>6. Along("gateway", "chat", t, y.out, t)
  BY <1>5, AlongNothing
<1>7. ~m.marked
  BY TaleParts
<1>8. /\ b.pc = "open" /\ b.c = m.c /\ b.usage = m.usage /\ b.signed = Signed(m, m.marked)
  BY TellStop
<1>9. ToolsOf(b) = ToolsOf(m) /\ b.signed = m.signed
  BY <1>7, <1>8 DEF ToolsOf, Signed
<1>10. b.pc \in {"open", "block", "told"} /\ b.pc # "told" /\ b.pc # "block" /\ DOMAIN z.blocks = {}
  BY <1>3, <1>5, <1>8
<1>11. ChatMade(b, z, t, include) /\ b.pc \notin Ended
  BY <1>3, <1>5, <1>8, <1>9, <1>10, ChatMadeNext
<1> QED BY <1>1, <1>2, <1>5, <1>6, <1>8, <1>11, ChatTellsBy

\* message_delta
LEMMA ChatHearsReason ==
  ASSUME NEW m \in Tale, NEW s, IsOutward(s), NEW t \in Tale, NEW include,
         ChatMade(m, s, t, include), NEW ev \in Msg, NEW b \in Tale, b = Tell(m, ev),
         ev.e = "message_delta", m.pc = "open", ev.why # "none"
  PROVE  ChatTells(m, s, t, ev, include)
<1>1. PICK y : y = MessagesToChat(s, ev, include)
  OBVIOUS
<1>2. PICK z : z = y.st
  OBVIOUS
<1>3. /\ SameWords(t.c, m.c) /\ s.usage = m.usage /\ s.count = ToolsOf(m)
      /\ s.thinking = m.signed /\ s.ids = CallIds(m.c) /\ t.usage = NoUsage
      /\ t.pc = "open" /\ DOMAIN s.blocks = {}
  <2>1. m.pc \notin Ended
    BY DEF Ended
  <2>2. /\ SameWords(t.c, m.c) /\ s.usage = m.usage /\ s.count = ToolsOf(m)
        /\ s.thinking = m.signed /\ s.ids = CallIds(m.c) /\ t.usage = NoUsage
        /\ (m.pc # "start" => t.pc = "open")
    BY <2>1, ChatMadeWords
  <2>3. DOMAIN s.blocks = {}
    <3>1. ~Thinks(m)
      BY DEF Thinks
    <3> QED BY <3>1, ChatMadeBlocks
  <2> QED BY <2>2, <2>3
<1>4. PICK told : told = [s EXCEPT !.why = StopToFinish(ev.why)]
  OBVIOUS
<1>5. y = Reports(Yield(Merged(told, ev), <<>>), Merged(s, ev).usage, ev)
  BY <1>1, <1>4 DEF MessagesToChat
<1>6. /\ told.why = StopToFinish(ev.why) /\ told.usage = s.usage /\ told.count = s.count
      /\ told.thinking = s.thinking /\ told.ids = s.ids /\ told.blocks = s.blocks
  BY <1>4, OutwardChanged
<1>7. PICK usage : usage = MergeUsage(s.usage, ev.usage)
  OBVIOUS
<1>8. Merged(s, ev).usage = usage
  <2>1. Merged(s, ev) = [s EXCEPT !.usage = usage]
    BY <1>7 DEF Merged
  <2> QED BY <2>1, OutwardChanged
<1>9. z = Merged(told, ev) /\ y.out = <<>> /\ y.capture = NoCapture
  BY <1>2, <1>5 DEF Reports, Yield
<1>10. y.usage = IF ev.usage = NoUsage THEN NoUsage ELSE usage
  BY <1>5, <1>8 DEF Reports, Yield
<1>11. z = [s EXCEPT !.why = StopToFinish(ev.why), !.usage = usage]
  BY <1>4, <1>6, <1>7, <1>9 DEF Merged
<1>12. /\ z.usage = usage /\ z.why = StopToFinish(ev.why) /\ z.count = s.count
       /\ z.thinking = s.thinking /\ z.ids = s.ids /\ z.blocks = s.blocks
  BY <1>11 DEF IsOutward
<1>13. /\ b.pc = "told" /\ b.c = m.c /\ b.why = ev.why
       /\ b.usage = MergeUsage(m.usage, ev.usage) /\ b.signed = m.signed
  BY TellDelta
<1>14. b.usage = usage
  BY <1>3, <1>7, <1>13
<1>15. ToolsOf(b) = ToolsOf(m)
  BY <1>13 DEF ToolsOf
<1>16. Along("gateway", "chat", t, y.out, t)
  BY <1>9, AlongNothing
<1>17. m.usage \in Usage /\ ev.usage \in Usage
  BY TaleParts, MsgParts
<1>18. b.usage = IF y.usage = NoUsage THEN m.usage ELSE y.usage
  <2>1. CASE ev.usage = NoUsage
    BY <1>10, <1>13, <1>17, <2>1, MergeNothing
  <2>2. CASE ev.usage # NoUsage
    BY <1>10, <1>13, <1>14, <1>17, <2>2, MergeSomething
  <2> QED BY <2>1, <2>2
<1>19. ev.usage # NoUsage => y.usage # NoUsage
  <2>1. ev.usage # NoUsage => b.usage # NoUsage
    BY <1>13, <1>17, MergeSomething
  <2> QED BY <1>10, <1>14, <2>1
<1>20. b.pc \in {"open", "block", "told"} /\ b.pc # "block" /\ DOMAIN z.blocks = {}
  BY <1>3, <1>12, <1>13
<1>21. b.why # "none" /\ z.why = StopToFinish(b.why)
  BY <1>12, <1>13
<1>22. ChatMade(b, z, t, include) /\ b.pc \notin Ended
  BY <1>3, <1>12, <1>13, <1>14, <1>15, <1>20, <1>21, ChatMadeNext
<1> QED BY <1>1, <1>2, <1>9, <1>16, <1>18, <1>19, <1>22, ChatTellsBy

LEMMA TakenKeeps ==
  ASSUME NEW s, IsOutward(s), NEW z, z = Taken(s)
  PROVE  z.usage = s.usage /\ z.count = s.count /\ z.blocks = s.blocks /\ z.items = s.items
BY DEF Taken, IsOutward

LEMMA CapturedIs ==
  ASSUME NEW d \in {"chat", "responses"}, NEW s, NEW m, m.pc \in Ended, s.thinking = m.signed,
         s.ids = CallIds(m.c)
  PROVE  Captured(s) = TakenDown(d, m)
BY DEF Captured, TakenDown

LEMMA AlongFrames ==
  ASSUME NEW u, NEW d, NEW q \in Seq(Frame), NEW f \in Frame, NEW a \in Tale, NEW b \in Tale,
         NEW c \in Tale, Along(u, d, a, q, b), Goes(u, d, b, f, c)
  PROVE  q \o <<f>> \in Seq(Frame) /\ Along(u, d, a, q \o <<f>>, c)
<1>1. <<f>> \in Seq(Frame)
  OBVIOUS
<1>2. Along(u, d, b, <<f>>, c)
  BY AlongOne
<1>3. q \o <<f>> \in Seq(Frame)
  BY <1>1
<1> QED BY <1>1, <1>2, <1>3, AlongJoin

LEMMA AlongFrame ==
  ASSUME NEW u, NEW d, NEW f \in Frame, NEW a \in Tale, NEW c \in Tale, Goes(u, d, a, f, c)
  PROVE  <<f>> \in Seq(Frame) /\ Along(u, d, a, <<f>>, c)
BY AlongOne

\* The last words of a chat answer.
Billing(include, usage) ==
  IF include /\ usage # NoUsage THEN <<UsageChunk(Totals(usage))>> ELSE <<>>
LastWords(why, include, usage) == <<FinishChunk(why)>> \o Billing(include, usage) \o <<Done>>
LastUsage(include, usage) == IF include /\ usage # NoUsage THEN Totals(usage) ELSE NoUsage

LEMMA ChatEnds ==
  ASSUME None \notin Nat, NEW t \in Tale, t.pc = "open", t.usage = NoUsage,
         NEW why \in {"stop", "tool_calls", "length", "content_filter"}, NEW usage \in Usage,
         NEW include
  PROVE  \E v \in Tale :
           /\ Along("gateway", "chat", t, LastWords(why, include, usage), v)
           /\ v.pc = "closed" /\ v.c = t.c /\ v.why = why
           /\ v.usage = LastUsage(include, usage)
<1>0. PICK last, out, total :
        /\ last = Billing(include, usage) /\ out = LastWords(why, include, usage)
        /\ total = LastUsage(include, usage) /\ out = <<FinishChunk(why)>> \o last \o <<Done>>
  BY DEF LastWords
<1>1. "gateway" \in Teller /\ Done \in Frame /\ Msg \subseteq Frame /\ "chat" \in Dialect
  BY TellersAre, MsgIsEvent, MessagesChatResponses
<1>2. /\ FinishChunk(why) \in Msg
      /\ \E v \in Tale :
           /\ Goes("gateway", "chat", t, FinishChunk(why), v)
           /\ v.pc = "told" /\ v.kind = t.kind /\ v.n = t.n /\ v.c = t.c /\ v.why = why
           /\ v.usage = t.usage /\ v.marked = t.marked /\ v.signed = t.signed
  BY <1>1, FinishIs
<1>3. PICK a \in Tale :
        /\ Goes("gateway", "chat", t, FinishChunk(why), a)
        /\ a.pc = "told" /\ a.c = t.c /\ a.why = why /\ a.usage = NoUsage
  BY <1>2
<1>4. PICK first \in Seq(Frame) :
        first = <<FinishChunk(why)>> /\ Along("gateway", "chat", t, first, a)
  BY <1>1, <1>2, <1>3, AlongFrame
<1>5. \E b \in Tale :
        /\ first \o last \in Seq(Frame) /\ Along("gateway", "chat", t, first \o last, b)
        /\ b.pc = "told" /\ b.c = t.c /\ b.why = why
        /\ b.usage = total
  <2>1. CASE include /\ usage # NoUsage
    <3>1. PICK sum \in Usage : sum = Totals(usage) /\ sum # NoUsage
      BY TotalsAreSomething
    <3>2. /\ UsageChunk(sum) \in Msg
          /\ \E v \in Tale :
               /\ Goes("gateway", "chat", a, UsageChunk(sum), v)
               /\ v.pc = a.pc /\ v.kind = a.kind /\ v.n = a.n /\ v.c = a.c /\ v.why = a.why
               /\ v.usage = sum /\ v.marked = a.marked /\ v.signed = a.signed
      <4>1. a.pc \in {"open", "told"} /\ sum # NoUsage
        BY <1>3, <3>1
      <4> QED BY <1>1, <4>1, UsageChunkIs
    <3>3. PICK b \in Tale :
            /\ Goes("gateway", "chat", a, UsageChunk(sum), b)
            /\ b.pc = a.pc /\ b.c = a.c /\ b.why = a.why /\ b.usage = sum
      BY <3>2
    <3>4. last = <<UsageChunk(sum)>> /\ total = sum
      BY <1>0, <2>1, <3>1 DEF Billing, LastUsage
    <3>5. first \o last \in Seq(Frame) /\ Along("gateway", "chat", t, first \o last, b)
      <4>1. UsageChunk(sum) \in Frame /\ Along("gateway", "chat", t, first, a)
        BY <1>1, <1>4, <3>2
      <4> QED BY <3>3, <3>4, <4>1, AlongFrames
    <3> QED BY <1>3, <3>3, <3>4, <3>5
  <2>2. CASE ~(include /\ usage # NoUsage)
    <3>1. last = <<>> /\ total = NoUsage
      BY <1>0, <2>2 DEF Billing, LastUsage
    <3>2. first \o last = first
      BY <3>1
    <3> QED BY <1>3, <1>4, <3>1, <3>2
  <2> QED BY <2>1, <2>2
<1>6. PICK b \in Tale :
        /\ first \o last \in Seq(Frame) /\ Along("gateway", "chat", t, first \o last, b)
        /\ b.pc = "told" /\ b.c = t.c /\ b.why = why
        /\ b.usage = total
  BY <1>5
<1>7. \E v \in Tale :
        /\ Goes("gateway", "chat", b, Done, v)
        /\ v.pc = (IF b.pc = "error" THEN "error" ELSE "closed")
        /\ v.kind = b.kind /\ v.n = b.n /\ v.c = b.c /\ v.why = b.why
        /\ v.usage = b.usage /\ v.marked = b.marked /\ v.signed = b.signed
  <2>1. PICK d \in Dialect : d = "chat"
    BY <1>1
  <2>2. b.pc \in IF d = "chat" THEN {"open", "told", "error"} ELSE {"over", "error"}
    BY <1>6, <2>1
  <2> QED BY <2>1, <2>2, DoneIs
<1>8. PICK v \in Tale :
        /\ Goes("gateway", "chat", b, Done, v)
        /\ v.pc = "closed" /\ v.c = b.c /\ v.why = b.why /\ v.usage = b.usage
  BY <1>6, <1>7
<1>9. Along("gateway", "chat", t, (first \o last) \o <<Done>>, v)
  <2>1. first \o last \in Seq(Frame) /\ Along("gateway", "chat", t, first \o last, b)
    BY <1>6
  <2> QED BY <1>1, <1>8, <2>1, AlongFrames
<1> QED BY <1>0, <1>4, <1>6, <1>8, <1>9

\* message_stop
LEMMA ChatHearsTheEnd ==
  ASSUME None \notin Nat,
         NEW m \in Tale, NEW s, IsOutward(s), NEW t \in Tale, NEW include,
         ChatMade(m, s, t, include), NEW ev \in Msg, NEW b \in Tale, b = Tell(m, ev),
         ev.e = "message_stop", m.pc = "told"
  PROVE  ChatTells(m, s, t, ev, include)
<1>1. PICK y : y = MessagesToChat(s, ev, include)
  OBVIOUS
<1>2. PICK z : z = y.st
  OBVIOUS
<1>3. /\ SameWords(t.c, m.c) /\ s.usage = m.usage /\ s.count = ToolsOf(m)
      /\ s.thinking = m.signed /\ s.ids = CallIds(m.c) /\ t.usage = NoUsage
      /\ t.pc = "open"
  <2>1. m.pc \notin Ended
    BY DEF Ended
  <2>2. /\ SameWords(t.c, m.c) /\ s.usage = m.usage /\ s.count = ToolsOf(m)
        /\ s.thinking = m.signed /\ s.ids = CallIds(m.c) /\ t.usage = NoUsage
        /\ (m.pc # "start" => t.pc = "open")
    BY <2>1, ChatMadeWords
  <2> QED BY <2>2
<1>4. m.why # "none" /\ s.why = StopToFinish(m.why)
  BY ChatMadeTold
<1>6. y = [Yield(Taken(s), LastWords(s.why, include, s.usage)) EXCEPT !.capture = Captured(s)]
  BY <1>1 DEF MessagesToChat, LastWords, Billing
<1>7. /\ y.out = LastWords(s.why, include, s.usage) /\ y.capture = Captured(s)
      /\ y.usage = NoUsage /\ z = Taken(s)
  BY <1>2, <1>6 DEF Yield
<1>8. z.usage = s.usage /\ z.count = s.count
  BY <1>7, TakenKeeps
<1>9. PICK why \in {"stop", "tool_calls", "length", "content_filter"} :
        why = s.why /\ why = StopToFinish(m.why)
  BY <1>4, StopReasons
<1>10. PICK usage \in Usage : usage = s.usage /\ usage = m.usage
  BY <1>3, TaleParts
<1>11. \E v \in Tale :
         /\ Along("gateway", "chat", t, LastWords(why, include, usage), v)
         /\ v.pc = "closed" /\ v.c = t.c /\ v.why = why
         /\ v.usage = LastUsage(include, usage)
  <2>1. t.pc = "open" /\ t.usage = NoUsage
    BY <1>3
  <2> QED BY <2>1, ChatEnds
<1>12. PICK v \in Tale :
         /\ Along("gateway", "chat", t, LastWords(why, include, usage), v)
         /\ v.pc = "closed" /\ v.c = t.c /\ v.why = why
         /\ v.usage = LastUsage(include, usage)
  BY <1>11
<1>13. Along("gateway", "chat", t, y.out, v)
  BY <1>7, <1>9, <1>10, <1>12
<1>14. /\ b.pc = "over" /\ b.c = m.c /\ b.why = m.why /\ b.usage = m.usage
       /\ b.signed = m.signed
  BY TellOver
<1>15. b.pc \in Ended /\ ToolsOf(b) = ToolsOf(m)
  BY <1>14 DEF Ended, ToolsOf
<1>16. y.capture = TakenDown("chat", b)
  <2>1. s.thinking = b.signed /\ s.ids = CallIds(b.c)
    BY <1>3, <1>14
  <2> QED BY <1>7, <1>15, <2>1, CapturedIs
<1>17. ChatMade(b, z, v, include)
  <2>1. /\ SameWords(v.c, b.c) /\ z.usage = b.usage /\ z.count = ToolsOf(b)
        /\ b.pc # "start" /\ b.pc \in Ended
    BY <1>3, <1>8, <1>12, <1>14, <1>15
  <2>2. /\ v.pc = "closed" /\ b.why # "none" /\ v.why = StopToFinish(b.why)
        /\ v.usage = IF include /\ b.usage # NoUsage THEN Totals(b.usage) ELSE NoUsage
    BY <1>4, <1>9, <1>10, <1>12, <1>14 DEF LastUsage
  <2> QED BY <2>1, <2>2 DEF ChatMade
<1>18. b.usage = IF y.usage = NoUsage THEN m.usage ELSE y.usage
  BY <1>7, <1>14
<1>19. ev.e # "message_delta"
  OBVIOUS
<1> QED BY <1>1, <1>2, <1>13, <1>16, <1>17, <1>18, <1>19 DEF ChatTells

\* What messages allows next, case by case.
LEMMA MessagesGo ==
  ASSUME NEW u, NEW m \in Tale, NEW ev \in Msg, May(u, "messages", m, ev), ~IsError(ev)
  PROVE  \/ ev.e = "message_start" /\ m.pc = "start"
         \/ ev.e = "ping" /\ m.pc \notin Ended
         \/ /\ ev.e = "content_block_start" /\ m.pc = "open" /\ ev.i = m.n
            /\ ev.kind \in BlockKind /\ (ev.kind = "tool" => ev.id # 0)
         \/ /\ ev.e = "content_block_delta" /\ m.pc = "block" /\ ev.i + 1 = m.n
            /\ ev.kind = m.kind /\ ev.frag # 0 /\ ev.kind \in BlockKind
         \/ /\ ev.e = "content_block_delta" /\ m.pc = "block" /\ ev.i + 1 = m.n
            /\ ev.kind = "signature" /\ m.kind = "thinking"
         \/ ev.e = "content_block_stop" /\ m.pc = "block" /\ ev.i + 1 = m.n
         \/ ev.e = "message_delta" /\ m.pc = "open" /\ ev.why # "none"
         \/ ev.e = "message_stop" /\ m.pc = "told"
<1>1. ev.e # "Done"
  BY MsgParts
<1>2. MessagesMay(u, m, ev)
  BY <1>1 DEF May
<1>3. m.pc = "block" => m.kind \in BlockKind
  <2>1. m.pc = "block" => m.n # 0
    BY TaleParts
  <2> QED BY <2>1, TaleParts
<1> QED BY <1>1, <1>2, <1>3 DEF MessagesMay, IdFits

LEMMA ChatTellsAlways ==
  ASSUME None \notin Nat, NEW u \in Dialect,
         NEW m \in Tale, NEW s, IsOutward(s), NEW t \in Tale, NEW include,
         ChatMade(m, s, t, include), NEW ev \in Msg, May(u, "messages", m, ev), ~IsError(ev)
  PROVE  ChatTells(m, s, t, ev, include)
<1>1. PICK b \in Tale : b = Tell(m, ev)
  BY TellIsTale, MessagesChatResponses
<1>2. CASE ev.e = "message_start" /\ m.pc = "start"
  BY <1>1, <1>2, ChatHearsStart
<1>3. CASE ev.e = "ping" /\ m.pc \notin Ended
  BY <1>3, ChatHearsPing
<1>4. CASE /\ ev.e = "content_block_start" /\ m.pc = "open" /\ ev.i = m.n
           /\ ev.kind \in BlockKind /\ (ev.kind = "tool" => ev.id # 0)
  <2>1. CASE ev.kind = "text"
    BY <1>1, <1>4, <2>1, ChatHearsText
  <2>2. CASE ev.kind = "thinking"
    BY <1>1, <1>4, <2>2, ChatHearsThinking
  <2>3. CASE ev.kind = "tool"
    BY <1>1, <1>4, <2>3, ChatHearsTool
  <2> QED BY <1>4, <2>1, <2>2, <2>3 DEF BlockKind
<1>5. CASE /\ ev.e = "content_block_delta" /\ m.pc = "block" /\ ev.i + 1 = m.n
           /\ ev.kind = m.kind /\ ev.frag # 0 /\ ev.kind \in BlockKind
  <2>1. CASE ev.kind = "text"
    BY <1>1, <1>5, <2>1, ChatHearsMoreText
  <2>2. CASE ev.kind = "thinking"
    BY <1>1, <1>5, <2>2, ChatHearsMoreThinking
  <2>3. CASE ev.kind = "tool"
    BY <1>1, <1>5, <2>3, ChatHearsMoreTool
  <2> QED BY <1>5, <2>1, <2>2, <2>3 DEF BlockKind
<1>6. CASE /\ ev.e = "content_block_delta" /\ m.pc = "block" /\ ev.i + 1 = m.n
           /\ ev.kind = "signature" /\ m.kind = "thinking"
  BY <1>1, <1>6, ChatHearsSignature
<1>7. CASE ev.e = "content_block_stop" /\ m.pc = "block" /\ ev.i + 1 = m.n
  <2>1. CASE m.kind = "thinking"
    BY <1>1, <1>7, <2>1, ChatHearsThought
  <2>2. CASE m.kind # "thinking"
    BY <1>1, <1>7, <2>2, ChatHearsStop
  <2> QED BY <2>1, <2>2
<1>8. CASE ev.e = "message_delta" /\ m.pc = "open" /\ ev.why # "none"
  BY <1>1, <1>8, ChatHearsReason
<1>9. CASE ev.e = "message_stop" /\ m.pc = "told"
  BY <1>1, <1>9, ChatHearsTheEnd
<1> QED BY <1>2, <1>3, <1>4, <1>5, <1>6, <1>7, <1>8, <1>9, MessagesGo

-----------------------------------------------------------------------------
(* The second stage, responses *)

ResponsesTells(m, s, t, ev) ==
  LET y == MessagesToResponses(s, ev)
  IN /\ y.capture = TakenDown("responses", Tell(m, ev))
     /\ Tell(m, ev).usage = IF y.usage = NoUsage THEN m.usage ELSE y.usage
     /\ ev.e = "message_delta" /\ ev.usage # NoUsage => y.usage # NoUsage
     /\ \E v \in Tale :
          Along("gateway", "responses", t, y.out, v) /\ ResponsesMade(Tell(m, ev), y.st, v)

LEMMA ResponsesTellsBy ==
  ASSUME NEW m, NEW s, NEW t, NEW ev, NEW b, NEW y, NEW z, NEW v \in Tale,
         y = MessagesToResponses(s, ev), z = y.st, b = Tell(m, ev), b.pc \notin Ended,
         y.capture = NoCapture, b.usage = IF y.usage = NoUsage THEN m.usage ELSE y.usage,
         ev.e = "message_delta" /\ ev.usage # NoUsage => y.usage # NoUsage,
         Along("gateway", "responses", t, y.out, v), ResponsesMade(b, z, v)
  PROVE  ResponsesTells(m, s, t, ev)
<1>1. TakenDown("responses", b) = NoCapture
  BY DEF TakenDown
<1> QED BY <1>1 DEF ResponsesTells

LEMMA ResponsesMadeOut ==
  ASSUME NEW m \in Tale, NEW s, NEW t \in Tale, ResponsesMade(m, s, t),
         m.pc \in {"start", "open", "told"}
  PROVE  /\ t.c = m.c /\ t.n = m.n /\ t.kind = m.kind /\ s.usage = m.usage /\ s.count = m.n
         /\ s.thinking = m.signed /\ DOMAIN s.blocks = {} /\ s.items = m.c.items
         /\ s.ids = CallIds(m.c)
         /\ (m.pc # "start" => t.pc = "open")
         /\ (m.pc \notin {"open", "told"} => t.pc = "start" /\ m.usage = NoUsage)
<1>1. m.pc \notin Ended /\ m.pc # "block"
  BY DEF Ended
<1>2. ResponsesBeing(m, s, t)
  BY <1>1 DEF ResponsesMade
<1>3. /\ s.thinking = m.signed /\ DOMAIN s.blocks = {} /\ s.items = m.c.items
      /\ s.ids = CallIds(m.c) /\ (m.pc # "start" => t.pc = "open")
  BY <1>1, <1>2 DEF ResponsesBeing
<1>4. m.pc \notin {"open", "told"} => t.pc = "start" /\ m.usage = NoUsage
  BY DEF ResponsesMade, Untold
<1> QED BY <1>3, <1>4 DEF ResponsesMade

LEMMA ResponsesMadeIn ==
  ASSUME NEW m \in Tale, NEW s, NEW t \in Tale, ResponsesMade(m, s, t), m.pc = "block"
  PROVE  /\ t.c = m.c /\ t.n = m.n /\ t.kind = m.kind /\ s.usage = m.usage /\ s.count = m.n
         /\ s.thinking = m.signed /\ t.pc = "block"
         /\ DOMAIN s.blocks = {m.n - 1} /\ ItemBeing(m, s, s.blocks[m.n - 1])
<1>1. ResponsesBeing(m, s, t)
  BY DEF ResponsesMade, Ended
<1> QED BY <1>1 DEF ResponsesBeing, ResponsesMade

LEMMA ResponsesMadeNext ==
  ASSUME NEW b, NEW z, NEW v, b.pc \in {"open", "block", "told"},
         v.c = b.c, v.n = b.n, v.kind = b.kind, z.usage = b.usage, z.count = b.n,
         z.thinking = b.signed,
         b.pc # "block" =>
           v.pc = "open" /\ DOMAIN z.blocks = {} /\ z.items = b.c.items /\ z.ids = CallIds(b.c),
         b.pc = "block" =>
           v.pc = "block" /\ DOMAIN z.blocks = {b.n - 1} /\ ItemBeing(b, z, z.blocks[b.n - 1])
  PROVE  ResponsesMade(b, z, v) /\ b.pc \notin Ended
BY DEF ResponsesMade, ResponsesBeing, Ended

\* message_start
LEMMA ResponsesHearStart ==
  ASSUME NEW m \in Tale, NEW s, IsOutward(s), NEW t \in Tale, ResponsesMade(m, s, t),
         NEW ev \in Msg, NEW b \in Tale, b = Tell(m, ev), ev.e = "message_start", m.pc = "start"
  PROVE  ResponsesTells(m, s, t, ev)
<1>1. PICK y : y = MessagesToResponses(s, ev)
  OBVIOUS
<1>2. PICK z : z = y.st
  OBVIOUS
<1>3. m.pc \in {"start", "open", "told"} /\ m.pc \notin {"open", "told"}
  OBVIOUS
<1>4. /\ t.c = m.c /\ t.n = m.n /\ t.kind = m.kind /\ s.usage = m.usage /\ s.count = m.n
      /\ s.thinking = m.signed /\ DOMAIN s.blocks = {} /\ s.items = m.c.items
      /\ s.ids = CallIds(m.c)
      /\ (m.pc \notin {"open", "told"} => t.pc = "start" /\ m.usage = NoUsage)
  BY <1>3, ResponsesMadeOut
<1>5. y = Reports(Yield(Seeded(s, ev), <<Bare("response.created"),
                                         Bare("response.in_progress")>>), ev.usage, ev)
  BY <1>1 DEF MessagesToResponses
<1>6. /\ y.out = <<Bare("response.created"), Bare("response.in_progress")>>
      /\ y.capture = NoCapture /\ z = Seeded(s, ev) /\ y.usage = ev.usage
  BY <1>2, <1>5 DEF Reports, Yield
<1>7. /\ z.usage = ev.usage /\ z.count = s.count /\ z.thinking = s.thinking /\ z.ids = s.ids
      /\ z.blocks = s.blocks /\ z.items = s.items
  <2>1. CASE ev.usage = NoUsage
    BY <1>3, <1>4, <1>6, <2>1 DEF Seeded
  <2>2. CASE ev.usage # NoUsage
    <3>1. z = [s EXCEPT !.usage = ev.usage]
      BY <1>6, <2>2 DEF Seeded
    <3> QED BY <3>1, OutwardChanged
  <2> QED BY <2>1, <2>2
<1>8. /\ b.pc = "open" /\ b.usage = ev.usage /\ b.c = m.c /\ b.signed = m.signed
      /\ b.n = m.n /\ b.kind = m.kind
  BY TellOpens
<1>9. /\ Bare("response.created") \in Msg
      /\ \E v \in Tale :
           /\ Goes("gateway", "responses", t, Bare("response.created"), v)
           /\ v.pc = "open" /\ v.kind = t.kind /\ v.n = t.n /\ v.c = t.c /\ v.why = t.why
           /\ v.usage = NoUsage /\ v.marked = t.marked /\ v.signed = t.signed
  <2>1. t.pc = "start" /\ "gateway" \in Teller
    BY <1>3, <1>4, TellersAre
  <2> QED BY <2>1, CreatedIs
<1>10. PICK v \in Tale :
         /\ Goes("gateway", "responses", t, Bare("response.created"), v) /\ v.pc = "open"
         /\ v.kind = t.kind /\ v.n = t.n /\ v.c = t.c
  BY <1>9
<1>11. /\ Bare("response.in_progress") \in Msg
       /\ Goes("gateway", "responses", v, Bare("response.in_progress"), v)
  BY <1>10, TellersAre, InProgressIs
<1>12. Along("gateway", "responses", t, y.out, v)
  BY <1>6, <1>9, <1>10, <1>11, AlongTwo
<1>13. /\ b.pc \in {"open", "block", "told"} /\ b.pc # "block"
       /\ v.c = b.c /\ v.n = b.n /\ v.kind = b.kind
  BY <1>4, <1>8, <1>10
<1>14. ResponsesMade(b, z, v) /\ b.pc \notin Ended
  BY <1>4, <1>7, <1>8, <1>10, <1>13, ResponsesMadeNext
<1>15. b.usage = IF y.usage = NoUsage THEN m.usage ELSE y.usage
  BY <1>3, <1>4, <1>6, <1>8
<1> QED BY <1>1, <1>2, <1>6, <1>12, <1>14, <1>15, ResponsesTellsBy

\* ping
LEMMA ResponsesHearPing ==
  ASSUME NEW m \in Tale, NEW s, IsOutward(s), NEW t \in Tale, ResponsesMade(m, s, t),
         NEW ev \in Msg, ev.e = "ping", m.pc \notin Ended
  PROVE  ResponsesTells(m, s, t, ev)
<1>1. PICK y : y = MessagesToResponses(s, ev)
  OBVIOUS
<1>2. y.out = <<>> /\ y.capture = NoCapture /\ y.usage = NoUsage /\ y.st = s
  BY <1>1 DEF MessagesToResponses, Yield
<1>3. m = Tell(m, ev)
  BY TellNothing
<1>4. Along("gateway", "responses", t, y.out, t)
  BY <1>2, AlongNothing
<1> QED BY <1>1, <1>2, <1>3, <1>4, ResponsesTellsBy

LEMMA BegunItems ==
  ASSUME NEW c \in Content, NEW kind, NEW id
  PROVE  Begun(c, kind, id).items = Append(c.items, [kind |-> kind, id |-> id, text |-> <<>>])
BY DEF Begun, Content

\* content_block_start
LEMMA ResponsesHearBlock ==
  ASSUME NEW m \in Tale, NEW s, IsOutward(s), NEW t \in Tale, ResponsesMade(m, s, t),
         NEW ev \in Msg, NEW b \in Tale, b = Tell(m, ev),
         ev.e = "content_block_start", m.pc = "open", ev.i = m.n, NEW kind \in BlockKind,
         kind = ev.kind, kind = "tool" => ev.id # 0
  PROVE  ResponsesTells(m, s, t, ev)
<1>1. PICK y : y = MessagesToResponses(s, ev)
  OBVIOUS
<1>2. PICK z : z = y.st
  OBVIOUS
<1>3. m.pc \in {"start", "open", "told"} /\ m.pc # "start"
  OBVIOUS
<1>4. /\ t.c = m.c /\ t.n = m.n /\ t.kind = m.kind /\ s.usage = m.usage /\ s.count = m.n
      /\ s.thinking = m.signed /\ DOMAIN s.blocks = {} /\ s.items = m.c.items
      /\ s.ids = CallIds(m.c) /\ (m.pc # "start" => t.pc = "open")
  BY <1>3, ResponsesMadeOut
<1>5. PICK blocks, block, count :
        /\ block = Block(ev.kind, s.count, ev.id) /\ blocks = Put(s.blocks, ev.i, block)
        /\ count = s.count + 1
  OBVIOUS
<1>6. y = Yield([s EXCEPT !.blocks = blocks, !.count = count], <<Added(s.count, ev.kind, ev.id)>>)
  BY <1>1, <1>5 DEF MessagesToResponses
<1>7. /\ y.out = <<Added(s.count, ev.kind, ev.id)>> /\ y.capture = NoCapture
      /\ y.usage = NoUsage /\ z = [s EXCEPT !.blocks = blocks, !.count = count]
  BY <1>2, <1>6 DEF Yield
<1>8. /\ z.blocks = blocks /\ z.count = count /\ z.usage = s.usage /\ z.thinking = s.thinking
      /\ z.ids = s.ids /\ z.items = s.items
  BY <1>7, OutwardChanged
<1>9. DOMAIN blocks = {ev.i} /\ blocks[ev.i] = block
  BY <1>4, <1>5 DEF Put
<1>10. PICK id \in Nat : id = ev.id
  BY MsgParts
<1>11. /\ b.pc = "block" /\ b.kind = kind /\ b.c = Begun(m.c, kind, id) /\ b.usage = m.usage
       /\ b.signed = m.signed /\ b.marked = m.marked /\ b.n = m.n + 1
  BY <1>10, TellBlock
<1>12. m.c \in Content /\ ~m.marked /\ m.n = Len(m.c.items) /\ m.n \in Nat
  BY TaleParts
<1>13. PICK i : i = s.count /\ i = t.n
  BY <1>4
<1>14. /\ Added(i, kind, id) \in Msg
       /\ \E v \in Tale :
            /\ Goes("gateway", "responses", t, Added(i, kind, id), v)
            /\ v.pc = "block" /\ v.kind = kind /\ v.n = t.n + 1 /\ v.c = Begun(t.c, kind, id)
            /\ v.why = t.why /\ v.usage = t.usage /\ v.marked = t.marked
            /\ v.signed = t.signed
  <2>1. t.pc = "open" /\ i = t.n /\ (kind = "tool" => id # 0) /\ "gateway" \in Teller
    BY <1>3, <1>4, <1>10, <1>13, TellersAre
  <2> QED BY <2>1, AddedIs
<1>15. PICK v \in Tale :
         /\ Goes("gateway", "responses", t, Added(i, kind, id), v)
         /\ v.pc = "block" /\ v.kind = kind /\ v.n = t.n + 1 /\ v.c = Begun(t.c, kind, id)
  BY <1>14
<1>16. Along("gateway", "responses", t, y.out, v)
  BY <1>7, <1>10, <1>13, <1>14, <1>15, AlongEvent
<1>17. b.n - 1 = ev.i
  BY <1>11, <1>12
<1>18. ItemBeing(b, z, block)
  <2>1. /\ block.kind = kind /\ block.i = m.n /\ block.id = id /\ block.text = <<>>
        /\ ~block.signed
    BY <1>4, <1>5, <1>10 DEF Block
  <2>2. b.c.items[b.n].text = <<>>
    BY <1>11, <1>12, TextOfBegun
  <2>3. b.c.items = Append(s.items, [kind |-> kind, id |-> id, text |-> <<>>])
    <3>1. b.c.items = Append(m.c.items, [kind |-> kind, id |-> id, text |-> <<>>])
      BY <1>11, <1>12, BegunItems
    <3> QED BY <1>4, <3>1
  <2>4. b.c.items = Append(z.items, Listed(block))
    BY <1>8, <2>1, <2>3 DEF Listed
  <2>5. CallIds(b.c) = IF block.kind = "tool" THEN Append(z.ids, block.id) ELSE z.ids
    <3>1. /\ kind = "tool" => CallIds(b.c) = Append(CallIds(m.c), id)
          /\ kind # "tool" => CallIds(b.c) = CallIds(m.c)
      BY <1>11, <1>12, CallIdsBegun
    <3> QED BY <1>4, <1>8, <2>1, <3>1
  <2> QED BY <1>10, <1>11, <1>12, <2>1, <2>2, <2>4, <2>5 DEF ItemBeing
<1>19. DOMAIN z.blocks = {b.n - 1} /\ ItemBeing(b, z, z.blocks[b.n - 1])
  BY <1>8, <1>9, <1>17, <1>18
<1>20. /\ b.pc \in {"open", "block", "told"}
       /\ v.c = b.c /\ v.n = b.n /\ v.kind = b.kind /\ z.usage = b.usage /\ z.count = b.n
       /\ z.thinking = b.signed
  BY <1>4, <1>5, <1>8, <1>11, <1>15
<1>21. ResponsesMade(b, z, v) /\ b.pc \notin Ended
  BY <1>11, <1>15, <1>19, <1>20, ResponsesMadeNext
<1> QED BY <1>1, <1>2, <1>7, <1>11, <1>16, <1>21, ResponsesTellsBy

\* The block that is open, and what its delta makes of it.
LEMMA LastLonger ==
  ASSUME NEW items \in Seq(Item), NEW x \in Item, NEW q, q = Append(items, x), NEW n,
         n = Len(q), NEW frag \in Nat
  PROVE  MoreAt(q, n, frag) = Append(items, Longer(x, frag))
<1>1. /\ Longer(x, frag) \in Item
  <2>1. Append(x.text, frag) \in Seq(Nat)
    BY DEF Item
  <2>2. PICK text \in Seq(Nat) : text = Append(x.text, frag)
    BY <2>1
  <2>3. Longer(x, frag) = [x EXCEPT !.text = text]
    BY <2>2 DEF Longer
  <2> QED BY <2>2, <2>3 DEF Item
<1>2. q \in Seq(Item) /\ n = Len(items) + 1 /\ q[n] = x
  OBVIOUS
<1>3. PICK p : p = MoreAt(q, n, frag)
  OBVIOUS
<1>4. p = [q EXCEPT ![n] = Longer(x, frag)]
  BY <1>2, <1>3 DEF MoreAt
<1>5. /\ p \in Seq(Item) /\ Len(p) = n
  BY <1>1, <1>2, <1>4
<1>6. \A k \in 1 .. n : p[k] = Append(items, Longer(x, frag))[k]
  <2> SUFFICES ASSUME NEW k \in 1 .. n PROVE p[k] = Append(items, Longer(x, frag))[k]
    OBVIOUS
  <2>1. CASE k = n
    BY <1>1, <1>2, <1>4, <2>1
  <2>2. CASE k # n
    <3>1. k \in 1 .. Len(items) /\ q[k] = items[k] /\ k \in DOMAIN q
      BY <1>2, <2>2
    <3>2. p[k] = q[k]
      BY <1>4, <2>2, <3>1
    <3>3. Append(items, Longer(x, frag))[k] = items[k]
      BY <1>1, <3>1
    <3> QED BY <3>1, <3>2, <3>3
  <2> QED BY <2>1, <2>2
<1> QED BY <1>1, <1>2, <1>3, <1>5, <1>6

LEMMA ItemBeingParts ==
  ASSUME NEW m, NEW s, NEW b, ItemBeing(m, s, b)
  PROVE  /\ b.i + 1 = m.n /\ b.kind = m.kind /\ (b.signed <=> m.marked)
         /\ (b.kind = "tool" => b.id # 0)
         /\ b.text = m.c.items[m.n].text /\ m.c.items = Append(s.items, Listed(b))
         /\ (b.kind = "tool" => CallIds(m.c) = Append(s.ids, b.id))
         /\ (b.kind # "tool" => CallIds(m.c) = s.ids)
BY DEF ItemBeing

LEMMA ListedIsItem ==
  ASSUME NEW b \in BlockState
  PROVE  Listed(b) \in Item /\ b.i \in Nat /\ b.kind \in BlockKind /\ b.id \in Nat
         /\ b.text \in Seq(Nat)
BY DEF Listed, Item, BlockState

LEMMA ListedLonger ==
  ASSUME NEW b, NEW c, NEW frag, c.kind = b.kind, c.id = b.id, c.text = Append(b.text, frag)
  PROVE  Longer(Listed(b), frag) = Listed(c)
<1>1. Longer(Listed(b), frag) = [kind |-> b.kind, id |-> b.id, text |-> Append(b.text, frag)]
  <2>1. PICK x, text : x = Listed(b) /\ text = Append(b.text, frag)
    OBVIOUS
  <2>2. x = [kind |-> b.kind, id |-> b.id, text |-> b.text] /\ x.text = b.text
    BY <2>1 DEF Listed
  <2>3. Longer(x, frag) = [x EXCEPT !.text = text]
    BY <2>1, <2>2 DEF Longer
  <2>4. [x EXCEPT !.text = text] = [kind |-> b.kind, id |-> b.id, text |-> text]
    BY <2>2
  <2> QED BY <2>1, <2>3, <2>4
<1> QED BY <1>1 DEF Listed

LEMMA MoreOfLastItems ==
  ASSUME NEW c \in Content, NEW kind \in BlockKind, NEW frag \in Nat, c.items # <<>>,
         kind = "tool" => c.tools # <<>>, NEW n, n = Len(c.items)
  PROVE  MoreOfLast(c, kind, frag).items = MoreAt(c.items, n, frag)
BY MoreOfLastIs

\* content_block_delta
LEMMA ResponsesHearMore ==
  ASSUME NEW m \in Tale, NEW s, IsOutward(s), NEW t \in Tale, ResponsesMade(m, s, t),
         NEW ev \in Msg, NEW b \in Tale, b = Tell(m, ev),
         ev.e = "content_block_delta", m.pc = "block", ev.i + 1 = m.n, ev.kind \in BlockKind,
         ev.kind = m.kind, ev.frag # 0
  PROVE  ResponsesTells(m, s, t, ev)
<1>0. PICK kind \in BlockKind : kind = ev.kind /\ kind = m.kind
  OBVIOUS
<1>1. PICK y : y = MessagesToResponses(s, ev)
  OBVIOUS
<1>2. PICK z : z = y.st
  OBVIOUS
<1>3. /\ t.c = m.c /\ t.n = m.n /\ t.kind = m.kind /\ s.usage = m.usage /\ s.count = m.n
      /\ s.thinking = m.signed /\ t.pc = "block"
      /\ DOMAIN s.blocks = {m.n - 1} /\ ItemBeing(m, s, s.blocks[m.n - 1])
  BY ResponsesMadeIn
<1>4. /\ m.c \in Content /\ m.c.items # <<>> /\ m.n = Len(m.c.items) /\ m.n \in Nat
      /\ (kind = "tool" => m.c.tools # <<>>)
  BY <1>0, TaleParts
<1>5. PICK j \in DOMAIN s.blocks : j = ev.i /\ j = m.n - 1
  <2>1. ev.i \in Nat /\ ev.i = m.n - 1
    BY <1>4, MsgParts
  <2> QED BY <1>3, <2>1
<1>6. PICK block \in BlockState : block = s.blocks[j]
  BY OutwardParts
<1>7. /\ block.i + 1 = m.n /\ block.kind = m.kind /\ (block.signed <=> m.marked)
      /\ (block.kind = "tool" => block.id # 0)
      /\ block.text = m.c.items[m.n].text /\ m.c.items = Append(s.items, Listed(block))
      /\ (block.kind = "tool" => CallIds(m.c) = Append(s.ids, block.id))
      /\ (block.kind # "tool" => CallIds(m.c) = s.ids)
  <2>1. ItemBeing(m, s, block)
    BY <1>3, <1>5, <1>6
  <2> QED BY <2>1, ItemBeingParts
<1>8. y = Yield(Accumulate(s, ev), <<ItemDelta(block.i, ev.kind, ev.frag)>>)
  <2>1. ev.kind # "signature"
    BY DEF BlockKind
  <2> QED BY <1>1, <1>5, <1>6, <2>1 DEF MessagesToResponses
<1>9. /\ y.out = <<ItemDelta(block.i, ev.kind, ev.frag)>> /\ y.capture = NoCapture
      /\ y.usage = NoUsage /\ z = Accumulate(s, ev)
  BY <1>2, <1>8 DEF Yield
<1>10. PICK frag \in Nat : frag = ev.frag /\ frag # 0
  BY MsgParts
<1>11. PICK i \in Nat : i = block.i /\ i + 1 = t.n
  BY <1>3, <1>7, ListedIsItem
<1>12. /\ ItemDelta(i, kind, frag) \in Msg
       /\ \E v \in Tale :
            /\ Goes("gateway", "responses", t, ItemDelta(i, kind, frag), v)
            /\ v.pc = t.pc /\ v.kind = t.kind /\ v.n = t.n
            /\ v.c = MoreOfLast(t.c, kind, frag) /\ v.why = t.why /\ v.usage = t.usage
            /\ v.marked = t.marked /\ v.signed = t.signed
  <2>1. t.pc = "block" /\ i + 1 = t.n /\ kind = t.kind /\ frag # 0 /\ "gateway" \in Teller
    BY <1>0, <1>3, <1>10, <1>11, TellersAre
  <2> QED BY <2>1, ItemDeltaIs
<1>13. PICK v \in Tale :
         /\ Goes("gateway", "responses", t, ItemDelta(i, kind, frag), v)
         /\ v.pc = t.pc /\ v.kind = t.kind /\ v.n = t.n /\ v.c = MoreOfLast(t.c, kind, frag)
  BY <1>12
<1>14. Along("gateway", "responses", t, y.out, v)
  BY <1>0, <1>9, <1>10, <1>11, <1>12, <1>13, AlongEvent
<1>15. ev.kind # "signature"
  BY DEF BlockKind
<1>16. /\ b.pc = m.pc /\ b.kind = m.kind /\ b.n = m.n /\ b.c = MoreOfLast(m.c, kind, frag)
       /\ b.usage = m.usage /\ b.signed = m.signed /\ b.marked = m.marked
  <2>1. /\ b.pc = m.pc /\ b.kind = m.kind /\ b.n = m.n
        /\ b.c = MoreOfLast(m.c, ev.kind, ev.frag)
        /\ b.usage = m.usage /\ b.signed = m.signed /\ b.marked = m.marked
    BY <1>15, TellPiece
  <2> QED BY <1>0, <1>10, <2>1
<1>17. /\ z.usage = s.usage /\ z.count = s.count /\ z.thinking = s.thinking /\ z.ids = s.ids
       /\ z.items = s.items
       /\ DOMAIN z.blocks = DOMAIN s.blocks /\ z.blocks[j].kind = s.blocks[j].kind
       /\ z.blocks[j].i = s.blocks[j].i /\ z.blocks[j].id = s.blocks[j].id
       /\ z.blocks[j].signed = s.blocks[j].signed
       /\ z.blocks[j].text = Append(s.blocks[j].text, ev.frag)
  <2>1. ev.i = j
    BY <1>5
  <2>2. /\ z.usage = s.usage /\ z.tool = s.tool /\ z.count = s.count
        /\ z.thinking = s.thinking /\ z.ids = s.ids /\ z.items = s.items /\ z.why = s.why
        /\ DOMAIN z.blocks = DOMAIN s.blocks
        /\ z.blocks[j].kind = s.blocks[j].kind /\ z.blocks[j].i = s.blocks[j].i
        /\ z.blocks[j].id = s.blocks[j].id
        /\ ev.kind = "signature" =>
             z.blocks[j].signed /\ z.blocks[j].text = s.blocks[j].text
        /\ ev.kind # "signature" =>
             /\ z.blocks[j].signed = s.blocks[j].signed
             /\ z.blocks[j].text = Append(s.blocks[j].text, ev.frag)
    BY <1>9, <2>1, AccumulateIs
  <2> QED BY <1>15, <2>2
<1>18. PICK new : new = z.blocks[j]
  OBVIOUS
<1>19. /\ new.kind = block.kind /\ new.i = block.i /\ new.id = block.id
       /\ new.signed = block.signed /\ new.text = Append(block.text, frag)
  BY <1>6, <1>10, <1>17, <1>18
<1>20. ItemBeing(b, z, new)
  <2>1. b.c.items[m.n].text = Append(m.c.items[m.n].text, frag)
    <3>1. MoreOfLast(m.c, kind, frag).items[m.n].text = Append(m.c.items[m.n].text, frag)
      BY <1>4, TextOfMore
    <3> QED BY <1>16, <3>1
  <2>2. CallIds(b.c) = CallIds(m.c)
    BY <1>4, <1>16, CallIdsMore
  <2>3. b.c.items = MoreAt(m.c.items, m.n, frag)
    BY <1>4, <1>16, MoreOfLastItems
  <2>4. b.c.items = Append(s.items, Longer(Listed(block), frag))
    <3>1. s.items \in Seq(Item) /\ Listed(block) \in Item
      BY OutwardParts, ListedIsItem
    <3> QED BY <1>4, <1>7, <2>3, <3>1, LastLonger
  <2>5. Longer(Listed(block), frag) = Listed(new)
    BY <1>19, ListedLonger
  <2>6. b.c.items = Append(z.items, Listed(new))
    BY <1>17, <2>4, <2>5, SMTT(30)
  <2>7. new.text = b.c.items[b.n].text
    BY <1>7, <1>16, <1>19, <2>1
  <2>8. CallIds(b.c) = IF new.kind = "tool" THEN Append(z.ids, new.id) ELSE z.ids
    BY <1>7, <1>17, <1>19, <2>2
  <2>9. /\ new.i + 1 = b.n /\ new.kind = b.kind /\ (new.signed <=> b.marked)
        /\ (new.kind = "tool" => new.id # 0)
    BY <1>7, <1>16, <1>19, SMTT(30)
  <2> QED BY <2>6, <2>7, <2>8, <2>9 DEF ItemBeing
<1>21. DOMAIN z.blocks = {b.n - 1} /\ ItemBeing(b, z, z.blocks[b.n - 1])
  BY <1>3, <1>5, <1>16, <1>17, <1>18, <1>20
<1>22. /\ b.pc \in {"open", "block", "told"} /\ v.pc = "block"
       /\ v.c = b.c /\ v.n = b.n /\ v.kind = b.kind /\ z.usage = b.usage /\ z.count = b.n
       /\ z.thinking = b.signed
  BY <1>3, <1>13, <1>16, <1>17
<1>23. ResponsesMade(b, z, v) /\ b.pc \notin Ended
  BY <1>16, <1>21, <1>22, ResponsesMadeNext
<1> QED BY <1>1, <1>2, <1>9, <1>14, <1>16, <1>23, ResponsesTellsBy

\* content_block_delta with the signature: nothing for the client.
LEMMA ResponsesHearSignature ==
  ASSUME NEW m \in Tale, NEW s, IsOutward(s), NEW t \in Tale, ResponsesMade(m, s, t),
         NEW ev \in Msg, NEW b \in Tale, b = Tell(m, ev),
         ev.e = "content_block_delta", m.pc = "block", ev.i + 1 = m.n, ev.kind = "signature",
         m.kind = "thinking"
  PROVE  ResponsesTells(m, s, t, ev)
<1>1. PICK y : y = MessagesToResponses(s, ev)
  OBVIOUS
<1>2. PICK z : z = y.st
  OBVIOUS
<1>3. /\ t.c = m.c /\ t.n = m.n /\ t.kind = m.kind /\ s.usage = m.usage /\ s.count = m.n
      /\ s.thinking = m.signed /\ t.pc = "block"
      /\ DOMAIN s.blocks = {m.n - 1} /\ ItemBeing(m, s, s.blocks[m.n - 1])
  BY ResponsesMadeIn
<1>4. m.n \in Nat
  BY TaleParts
<1>5. PICK j \in DOMAIN s.blocks : j = ev.i /\ j = m.n - 1
  <2>1. ev.i \in Nat /\ ev.i = m.n - 1
    BY <1>4, MsgParts
  <2> QED BY <1>3, <2>1
<1>6. PICK block \in BlockState : block = s.blocks[j]
  BY OutwardParts
<1>7. ItemBeing(m, s, block)
  BY <1>3, <1>5, <1>6
<1>8. y = Yield(Accumulate(s, ev), <<>>)
  BY <1>1, <1>5 DEF MessagesToResponses
<1>9. /\ y.out = <<>> /\ y.capture = NoCapture /\ y.usage = NoUsage /\ z = Accumulate(s, ev)
  BY <1>2, <1>8 DEF Yield
<1>10. Along("gateway", "responses", t, y.out, t)
  BY <1>9, AlongNothing
<1>11. /\ b.pc = m.pc /\ b.kind = m.kind /\ b.n = m.n /\ b.c = m.c
       /\ b.usage = m.usage /\ b.signed = m.signed /\ b.marked
  BY TellMark
<1>12. /\ z.usage = s.usage /\ z.count = s.count /\ z.thinking = s.thinking /\ z.ids = s.ids
       /\ z.items = s.items
       /\ DOMAIN z.blocks = DOMAIN s.blocks /\ z.blocks[j].kind = s.blocks[j].kind
       /\ z.blocks[j].i = s.blocks[j].i /\ z.blocks[j].id = s.blocks[j].id
       /\ z.blocks[j].signed /\ z.blocks[j].text = s.blocks[j].text
  <2>1. ev.i = j
    BY <1>5
  <2> QED BY <1>9, <2>1, AccumulateIs
<1>13. PICK new : new = z.blocks[j]
  OBVIOUS
<1>14. /\ new.kind = block.kind /\ new.i = block.i /\ new.id = block.id
       /\ new.signed /\ new.text = block.text
  BY <1>6, <1>12, <1>13
<1>15. ItemBeing(b, z, new)
  <2>1. Listed(new) = Listed(block)
    BY <1>14 DEF Listed
  <2> QED BY <1>7, <1>11, <1>12, <1>14, <2>1 DEF ItemBeing
<1>16. DOMAIN z.blocks = {b.n - 1} /\ ItemBeing(b, z, z.blocks[b.n - 1])
  BY <1>3, <1>5, <1>11, <1>12, <1>13, <1>15
<1>17. /\ b.pc \in {"open", "block", "told"}
       /\ t.c = b.c /\ t.n = b.n /\ t.kind = b.kind /\ z.usage = b.usage /\ z.count = b.n
       /\ z.thinking = b.signed
  BY <1>3, <1>11, <1>12
<1>18. ResponsesMade(b, z, t) /\ b.pc \notin Ended
  BY <1>3, <1>11, <1>16, <1>17, ResponsesMadeNext
<1> QED BY <1>1, <1>2, <1>9, <1>10, <1>11, <1>18, ResponsesTellsBy

\* The events that end an item: all but thinking have a part that ends first.
PartOf(block) == IF block.kind = "thinking" THEN <<>> ELSE <<PartDone(block.i, block.kind)>>
EndOf(block) == PartOf(block) \o <<ItemDone(block.i, block.kind, block.id, FALSE)>>

LEMMA EndAlone == ASSUME NEW p, p = <<>>, NEW q PROVE p \o <<q>> = <<q>>
OBVIOUS

LEMMA ItemEnds ==
  ASSUME NEW t \in Tale, t.pc = "block", NEW block \in BlockState, block.i + 1 = t.n,
         block.kind = t.kind
  PROVE  \E v \in Tale :
           /\ Along("gateway", "responses", t, EndOf(block), v)
           /\ v.pc = "open" /\ v.c = t.c /\ v.n = t.n /\ v.kind = t.kind
<1>1. PICK i \in Nat, kind \in BlockKind, id \in Nat :
        i = block.i /\ kind = block.kind /\ id = block.id
  BY ListedIsItem
<1>2. PICK no \in BOOLEAN : no = FALSE
  OBVIOUS
<1>3. CASE t.kind = "thinking"
  <2>1. /\ ItemDone(i, kind, id, no) \in Msg
        /\ \E v \in Tale :
             /\ Goes("gateway", "responses", t, ItemDone(i, kind, id, no), v)
             /\ v.pc = "open" /\ v.kind = t.kind /\ v.n = t.n /\ v.c = t.c /\ v.why = t.why
             /\ v.usage = t.usage /\ ~v.marked /\ v.signed = Signed(t, no)
    <3>1. /\ i + 1 = t.n /\ kind = t.kind /\ (no => t.kind = "thinking")
          /\ t.pc = IF t.kind = "thinking" THEN "block" ELSE "parted"
      BY <1>1, <1>2, <1>3
    <3> QED BY <3>1, ItemDoneIs, TellersAre
  <2>2. EndOf(block) = <<ItemDone(i, kind, id, no)>>
    <3>1. PartOf(block) = <<>> /\ EndOf(block) = PartOf(block) \o <<ItemDone(i, kind, id, no)>>
      BY <1>1, <1>2, <1>3 DEF EndOf, PartOf
    <3> QED BY <3>1, EndAlone
  <2>3. PICK v \in Tale :
          /\ Goes("gateway", "responses", t, ItemDone(i, kind, id, no), v)
          /\ v.pc = "open" /\ v.kind = t.kind /\ v.n = t.n /\ v.c = t.c
    BY <2>1
  <2>4. Along("gateway", "responses", t, EndOf(block), v)
    BY <2>1, <2>2, <2>3, AlongEvent
  <2> QED BY <2>3, <2>4
<1>4. CASE t.kind # "thinking"
  <2>1. /\ PartDone(i, kind) \in Msg
        /\ \E v \in Tale :
             /\ Goes("gateway", "responses", t, PartDone(i, kind), v)
             /\ v.pc = "parted" /\ v.kind = t.kind /\ v.n = t.n /\ v.c = t.c /\ v.why = t.why
             /\ v.usage = t.usage /\ v.marked = t.marked /\ v.signed = t.signed
    <3>1. i + 1 = t.n
      BY <1>1
    <3> QED BY <1>4, <3>1, PartDoneIs, TellersAre
  <2>2. PICK a \in Tale :
          /\ Goes("gateway", "responses", t, PartDone(i, kind), a)
          /\ a.pc = "parted" /\ a.kind = t.kind /\ a.n = t.n /\ a.c = t.c
    BY <2>1
  <2>3. /\ ItemDone(i, kind, id, no) \in Msg
        /\ \E v \in Tale :
             /\ Goes("gateway", "responses", a, ItemDone(i, kind, id, no), v)
             /\ v.pc = "open" /\ v.kind = a.kind /\ v.n = a.n /\ v.c = a.c /\ v.why = a.why
             /\ v.usage = a.usage /\ ~v.marked /\ v.signed = Signed(a, no)
    <3>1. /\ i + 1 = a.n /\ kind = a.kind /\ (no => a.kind = "thinking")
          /\ a.pc = IF a.kind = "thinking" THEN "block" ELSE "parted"
      BY <1>1, <1>2, <1>4, <2>2
    <3> QED BY <3>1, ItemDoneIs, TellersAre, SMTT(60)
  <2>4. PICK v \in Tale :
          /\ Goes("gateway", "responses", a, ItemDone(i, kind, id, no), v)
          /\ v.pc = "open" /\ v.kind = a.kind /\ v.n = a.n /\ v.c = a.c
    BY <2>3
  <2>5. EndOf(block) = <<PartDone(i, kind), ItemDone(i, kind, id, no)>>
    <3>1. EndOf(block) = <<PartDone(i, kind)>> \o <<ItemDone(i, kind, id, no)>>
      BY <1>1, <1>2, <1>4 DEF EndOf, PartOf
    <3> QED BY <3>1, PairJoined
  <2>6. Along("gateway", "responses", t, EndOf(block), v)
    BY <2>1, <2>2, <2>3, <2>4, <2>5, AlongTwo
  <2> QED BY <2>2, <2>4, <2>6
<1> QED BY <1>3, <1>4

\* content_block_stop
LEMMA ResponsesHearStop ==
  ASSUME NEW m \in Tale, NEW s, IsOutward(s), NEW t \in Tale, ResponsesMade(m, s, t),
         NEW ev \in Msg, NEW b \in Tale, b = Tell(m, ev),
         ev.e = "content_block_stop", m.pc = "block", ev.i + 1 = m.n
  PROVE  ResponsesTells(m, s, t, ev)
<1>1. PICK y : y = MessagesToResponses(s, ev)
  OBVIOUS
<1>2. PICK z : z = y.st
  OBVIOUS
<1>3. /\ t.c = m.c /\ t.n = m.n /\ t.kind = m.kind /\ s.usage = m.usage /\ s.count = m.n
      /\ s.thinking = m.signed /\ t.pc = "block"
      /\ DOMAIN s.blocks = {m.n - 1} /\ ItemBeing(m, s, s.blocks[m.n - 1])
  BY ResponsesMadeIn
<1>4. m.n \in Nat /\ (m.marked => m.kind = "thinking")
  BY TaleParts
<1>5. PICK j \in DOMAIN s.blocks : j = ev.i /\ j = m.n - 1 /\ DOMAIN s.blocks = {j}
  <2>1. ev.i \in Nat /\ ev.i = m.n - 1
    BY <1>4, MsgParts
  <2> QED BY <1>3, <2>1
<1>6. PICK block \in BlockState : block = s.blocks[j]
  BY OutwardParts
<1>7. /\ block.i + 1 = m.n /\ block.kind = m.kind /\ (block.signed <=> m.marked)
      /\ (block.kind = "tool" => block.id # 0)
      /\ block.text = m.c.items[m.n].text /\ m.c.items = Append(s.items, Listed(block))
      /\ (block.kind = "tool" => CallIds(m.c) = Append(s.ids, block.id))
      /\ (block.kind # "tool" => CallIds(m.c) = s.ids)
  <2>1. ItemBeing(m, s, block)
    BY <1>3, <1>5, <1>6
  <2> QED BY <2>1, ItemBeingParts
<1>8. PICK blocks, thinking, ids, items :
        /\ blocks = Drop(s.blocks, ev.i) /\ thinking = Thought(s, block)
        /\ ids = (IF block.kind = "tool" THEN Ids(s, block.id) ELSE s.ids)
        /\ items = Finalized(s, block)
  OBVIOUS
<1>9. y = Yield([s EXCEPT !.blocks = blocks, !.thinking = thinking, !.ids = ids,
                          !.items = items], EndOf(block))
  <2>1. ev.i \in DOMAIN s.blocks /\ block = s.blocks[ev.i]
    BY <1>5, <1>6
  <2> QED BY <1>1, <1>8, <2>1 DEF MessagesToResponses, EndOf, PartOf
<1>10. /\ y.out = EndOf(block) /\ y.capture = NoCapture /\ y.usage = NoUsage
       /\ z = [s EXCEPT !.blocks = blocks, !.thinking = thinking, !.ids = ids, !.items = items]
  BY <1>2, <1>9 DEF Yield
<1>11. /\ z.blocks = blocks /\ z.thinking = thinking /\ z.ids = ids /\ z.items = items
       /\ z.usage = s.usage /\ z.count = s.count
  BY <1>10, OutwardChanged
<1>12. DOMAIN blocks = {}
  <2>1. DOMAIN blocks = DOMAIN s.blocks \ {ev.i}
    BY <1>8, DropIs
  <2> QED BY <1>5, <2>1
<1>13. thinking = Signed(m, m.marked)
  <2>1. CASE m.marked
    <3>1. Thinking(m, block)
      BY <1>4, <1>7, <2>1 DEF Thinking
    <3> QED BY <1>3, <1>8, <3>1, ThoughtIs
  <2>2. CASE ~m.marked
    BY <1>3, <1>7, <1>8, <2>2 DEF Thought, Signed
  <2> QED BY <2>1, <2>2
<1>14. ids = CallIds(m.c)
  BY <1>7, <1>8 DEF Ids
<1>15. items = m.c.items
  BY <1>7, <1>8 DEF Finalized, Listed
<1>16. /\ b.pc = "open" /\ b.c = m.c /\ b.usage = m.usage /\ b.signed = Signed(m, m.marked)
       /\ b.n = m.n /\ b.kind = m.kind
  BY TellStop
<1>17. \E v \in Tale :
         /\ Along("gateway", "responses", t, EndOf(block), v)
         /\ v.pc = "open" /\ v.c = t.c /\ v.n = t.n /\ v.kind = t.kind
  <2>1. t.pc = "block" /\ block.i + 1 = t.n /\ block.kind = t.kind
    BY <1>3, <1>7
  <2> QED BY <2>1, ItemEnds
<1>18. PICK v \in Tale :
         /\ Along("gateway", "responses", t, EndOf(block), v)
         /\ v.pc = "open" /\ v.c = t.c /\ v.n = t.n /\ v.kind = t.kind
  BY <1>17
<1>19. /\ b.pc \in {"open", "block", "told"} /\ b.pc # "block" /\ v.pc = "open"
       /\ v.c = b.c /\ v.n = b.n /\ v.kind = b.kind /\ z.usage = b.usage /\ z.count = b.n
       /\ z.thinking = b.signed /\ DOMAIN z.blocks = {} /\ z.items = b.c.items
       /\ z.ids = CallIds(b.c)
  BY <1>3, <1>11, <1>12, <1>13, <1>14, <1>15, <1>16, <1>18
<1>20. ResponsesMade(b, z, v) /\ b.pc \notin Ended
  BY <1>19, ResponsesMadeNext
<1>21. Along("gateway", "responses", t, y.out, v)
  BY <1>10, <1>18
<1> QED BY <1>1, <1>2, <1>10, <1>16, <1>20, <1>21, ResponsesTellsBy

\* message_delta
LEMMA ResponsesHearReason ==
  ASSUME NEW m \in Tale, NEW s, IsOutward(s), NEW t \in Tale, ResponsesMade(m, s, t),
         NEW ev \in Msg, NEW b \in Tale, b = Tell(m, ev), ev.e = "message_delta", m.pc = "open"
  PROVE  ResponsesTells(m, s, t, ev)
<1>1. PICK y : y = MessagesToResponses(s, ev)
  OBVIOUS
<1>2. PICK z : z = y.st
  OBVIOUS
<1>3. m.pc \in {"start", "open", "told"} /\ m.pc # "start"
  OBVIOUS
<1>4. /\ t.c = m.c /\ t.n = m.n /\ t.kind = m.kind /\ s.usage = m.usage /\ s.count = m.n
      /\ s.thinking = m.signed /\ DOMAIN s.blocks = {} /\ s.items = m.c.items
      /\ s.ids = CallIds(m.c) /\ (m.pc # "start" => t.pc = "open")
  BY <1>3, ResponsesMadeOut
<1>5. PICK usage : usage = MergeUsage(s.usage, ev.usage)
  OBVIOUS
<1>6. y = Reports(Yield([s EXCEPT !.usage = usage], <<>>), Merged(s, ev).usage, ev)
  BY <1>1, <1>5 DEF MessagesToResponses, Merged
<1>7. Merged(s, ev).usage = usage
  <2>1. Merged(s, ev) = [s EXCEPT !.usage = usage]
    BY <1>5 DEF Merged
  <2> QED BY <2>1, OutwardChanged
<1>8. z = [s EXCEPT !.usage = usage] /\ y.out = <<>> /\ y.capture = NoCapture
  BY <1>2, <1>6 DEF Reports, Yield
<1>9. y.usage = IF ev.usage = NoUsage THEN NoUsage ELSE usage
  BY <1>6, <1>7 DEF Reports, Yield
<1>10. /\ z.usage = usage /\ z.count = s.count /\ z.thinking = s.thinking /\ z.ids = s.ids
       /\ z.blocks = s.blocks /\ z.items = s.items
  BY <1>8, OutwardChanged
<1>11. /\ b.pc = "told" /\ b.c = m.c /\ b.n = m.n /\ b.kind = m.kind
       /\ b.usage = MergeUsage(m.usage, ev.usage) /\ b.signed = m.signed
  BY TellDelta
<1>12. b.usage = usage
  BY <1>4, <1>5, <1>11
<1>13. Along("gateway", "responses", t, y.out, t)
  BY <1>8, AlongNothing
<1>14. m.usage \in Usage /\ ev.usage \in Usage
  BY TaleParts, MsgParts
<1>15. b.usage = IF y.usage = NoUsage THEN m.usage ELSE y.usage
  <2>1. CASE ev.usage = NoUsage
    BY <1>9, <1>11, <1>14, <2>1, MergeNothing
  <2>2. CASE ev.usage # NoUsage
    BY <1>9, <1>11, <1>12, <1>14, <2>2, MergeSomething
  <2> QED BY <2>1, <2>2
<1>16. ev.usage # NoUsage => y.usage # NoUsage
  <2>1. ev.usage # NoUsage => b.usage # NoUsage
    BY <1>11, <1>14, MergeSomething
  <2> QED BY <1>9, <1>12, <2>1
<1>17. /\ b.pc \in {"open", "block", "told"} /\ b.pc # "block" /\ t.pc = "open"
       /\ t.c = b.c /\ t.n = b.n /\ t.kind = b.kind /\ z.usage = b.usage /\ z.count = b.n
       /\ z.thinking = b.signed /\ DOMAIN z.blocks = {} /\ z.items = b.c.items
       /\ z.ids = CallIds(b.c)
  BY <1>3, <1>4, <1>10, <1>11, <1>12
<1>18. ResponsesMade(b, z, t) /\ b.pc \notin Ended
  BY <1>17, ResponsesMadeNext
<1> QED BY <1>1, <1>2, <1>8, <1>13, <1>15, <1>16, <1>18, ResponsesTellsBy

\* message_stop
LEMMA ResponsesHearTheEnd ==
  ASSUME None \notin Nat,
         NEW m \in Tale, NEW s, IsOutward(s), NEW t \in Tale, ResponsesMade(m, s, t),
         NEW ev \in Msg, NEW b \in Tale, b = Tell(m, ev), ev.e = "message_stop", m.pc = "told"
  PROVE  ResponsesTells(m, s, t, ev)
<1>1. PICK y : y = MessagesToResponses(s, ev)
  OBVIOUS
<1>2. PICK z : z = y.st
  OBVIOUS
<1>3. m.pc \in {"start", "open", "told"} /\ m.pc # "start"
  OBVIOUS
<1>4. /\ t.c = m.c /\ t.n = m.n /\ t.kind = m.kind /\ s.usage = m.usage /\ s.count = m.n
      /\ s.thinking = m.signed /\ DOMAIN s.blocks = {} /\ s.items = m.c.items
      /\ s.ids = CallIds(m.c) /\ (m.pc # "start" => t.pc = "open")
  BY <1>3, ResponsesMadeOut
<1>5. PICK usage \in Usage : usage = IF s.usage = NoUsage THEN NoUsage ELSE Totals(s.usage)
  BY OutwardParts, NoUsageIsUsage, TotalsAreSomething
<1>6. y = [Yield(Taken(s), <<Completed(s.items, usage), Done>>) EXCEPT !.capture = Captured(s)]
  BY <1>1, <1>5 DEF MessagesToResponses
<1>7. /\ y.out = <<Completed(s.items, usage), Done>> /\ y.capture = Captured(s)
      /\ y.usage = NoUsage /\ z = Taken(s)
  BY <1>2, <1>6 DEF Yield
<1>8. z.usage = s.usage /\ z.count = s.count
  BY <1>7, TakenKeeps
<1>9. PICK items : items = s.items /\ items = t.c.items
  BY <1>4
<1>10. /\ Completed(items, usage) \in Msg
       /\ \E v \in Tale :
            /\ Goes("gateway", "responses", t, Completed(items, usage), v)
            /\ v.pc = "over" /\ v.kind = t.kind /\ v.n = t.n /\ v.c = t.c /\ v.why = t.why
            /\ v.usage = usage /\ v.marked = t.marked /\ v.signed = t.signed
  <2>1. t.pc = "open" /\ "gateway" \in Teller /\ items = t.c.items
    BY <1>3, <1>4, <1>9, TellersAre
  <2> QED BY <2>1, CompletedIs
<1>11. PICK a \in Tale :
         /\ Goes("gateway", "responses", t, Completed(items, usage), a)
         /\ a.pc = "over" /\ a.kind = t.kind /\ a.n = t.n /\ a.c = t.c /\ a.usage = usage
  BY <1>10
<1>12. \E v \in Tale :
         /\ Goes("gateway", "responses", a, Done, v)
         /\ v.pc = (IF a.pc = "error" THEN "error" ELSE "closed")
         /\ v.kind = a.kind /\ v.n = a.n /\ v.c = a.c /\ v.why = a.why
         /\ v.usage = a.usage /\ v.marked = a.marked /\ v.signed = a.signed
  <2>1. PICK d \in Dialect : d = "responses"
    BY MessagesChatResponses
  <2>2. a.pc \in IF d = "chat" THEN {"open", "told", "error"} ELSE {"over", "error"}
    BY <1>11, <2>1
  <2> QED BY <2>1, <2>2, DoneIs
<1>13. PICK v \in Tale :
         /\ Goes("gateway", "responses", a, Done, v)
         /\ v.pc = "closed" /\ v.kind = a.kind /\ v.n = a.n /\ v.c = a.c /\ v.usage = a.usage
  BY <1>11, <1>12
<1>14. Along("gateway", "responses", t, y.out, v)
  BY <1>7, <1>9, <1>11, <1>13, AlongPair
<1>15. /\ b.pc = "over" /\ b.c = m.c /\ b.n = m.n /\ b.kind = m.kind /\ b.usage = m.usage
       /\ b.signed = m.signed
  BY TellOver
<1>16. b.pc \in Ended
  BY <1>15 DEF Ended
<1>17. y.capture = TakenDown("responses", b)
  <2>1. s.thinking = b.signed /\ s.ids = CallIds(b.c)
    BY <1>4, <1>15
  <2> QED BY <1>7, <1>16, <2>1, CapturedIs
<1>18. ResponsesMade(b, z, v)
  <2>1. /\ v.c = b.c /\ v.n = b.n /\ v.kind = b.kind /\ z.usage = b.usage /\ z.count = b.n
        /\ b.pc # "start" /\ b.pc \in Ended
    BY <1>4, <1>8, <1>11, <1>13, <1>15, <1>16
  <2>2. v.pc = "closed" /\ v.usage = IF b.usage = NoUsage THEN NoUsage ELSE Totals(b.usage)
    BY <1>4, <1>5, <1>11, <1>13, <1>15
  <2> QED BY <2>1, <2>2 DEF ResponsesMade
<1>19. b.usage = IF y.usage = NoUsage THEN m.usage ELSE y.usage
  BY <1>7, <1>15
<1>20. ev.e # "message_delta"
  OBVIOUS
<1> QED BY <1>1, <1>2, <1>14, <1>17, <1>18, <1>19, <1>20 DEF ResponsesTells

LEMMA ResponsesTellsAlways ==
  ASSUME None \notin Nat, NEW u \in Dialect,
         NEW m \in Tale, NEW s, IsOutward(s), NEW t \in Tale,
         ResponsesMade(m, s, t), NEW ev \in Msg, May(u, "messages", m, ev), ~IsError(ev)
  PROVE  ResponsesTells(m, s, t, ev)
<1>1. PICK b \in Tale : b = Tell(m, ev)
  BY TellIsTale, MessagesChatResponses
<1>2. CASE ev.e = "message_start" /\ m.pc = "start"
  BY <1>1, <1>2, ResponsesHearStart
<1>3. CASE ev.e = "ping" /\ m.pc \notin Ended
  BY <1>3, ResponsesHearPing
<1>4. CASE /\ ev.e = "content_block_start" /\ m.pc = "open" /\ ev.i = m.n
           /\ ev.kind \in BlockKind /\ (ev.kind = "tool" => ev.id # 0)
  BY <1>1, <1>4, ResponsesHearBlock
<1>5. CASE /\ ev.e = "content_block_delta" /\ m.pc = "block" /\ ev.i + 1 = m.n
           /\ ev.kind = m.kind /\ ev.frag # 0 /\ ev.kind \in BlockKind
  BY <1>1, <1>5, ResponsesHearMore
<1>6. CASE /\ ev.e = "content_block_delta" /\ m.pc = "block" /\ ev.i + 1 = m.n
           /\ ev.kind = "signature" /\ m.kind = "thinking"
  BY <1>1, <1>6, ResponsesHearSignature
<1>7. CASE ev.e = "content_block_stop" /\ m.pc = "block" /\ ev.i + 1 = m.n
  BY <1>1, <1>7, ResponsesHearStop
<1>8. CASE ev.e = "message_delta" /\ m.pc = "open" /\ ev.why # "none"
  BY <1>1, <1>8, ResponsesHearReason
<1>9. CASE ev.e = "message_stop" /\ m.pc = "told"
  BY <1>1, <1>9, ResponsesHearTheEnd
<1> QED BY <1>2, <1>3, <1>4, <1>5, <1>6, <1>7, <1>8, <1>9, MessagesGo

-----------------------------------------------------------------------------
(* The second stage, whichever it is *)

\* What one push of the second stage adds.
SecondOn(d, m, t, include, ev, y) ==
  /\ y.capture = TakenDown(d, Tell(m, ev))
  /\ \E v \in Tale :
       Along("gateway", d, t, y.out, v) /\ SecondMakes(d, Tell(m, ev), y.st, v, include)
  /\ d = "messages" => y.usage = NoUsage
  /\ d # "messages" /\ Tell(m, ev).pc # "error" =>
       Tell(m, ev).usage = IF y.usage = NoUsage THEN m.usage ELSE y.usage
  /\ d # "messages" /\ ev.e = "message_delta" /\ ev.usage # NoUsage => y.usage # NoUsage

\* What an upstream may tell in messages, the gateway may.
LEMMA GatewayMayToo ==
  ASSUME NEW u \in Dialect, NEW m, NEW ev, May(u, "messages", m, ev)
  PROVE  May("gateway", "messages", m, ev)
BY DEF May, MessagesMay, Dialect

\* Only message_stop ends an answer in messages, and only a reason comes before it.
LEMMA MessagesEnd ==
  ASSUME NEW u \in Dialect, NEW m \in Tale, NEW ev \in Msg, May(u, "messages", m, ev)
  PROVE  /\ m.pc \notin Ended
         /\ ev.e # "message_stop" => Tell(m, ev).pc \notin Ended
         /\ ev.e = "message_stop" => m.pc = "told" /\ Tell(m, ev).pc = "over"
         /\ Tell(m, ev).pc = "told" => m.pc = "told" \/ ev.e = "message_delta"
<1>1. m.pc \notin Ended /\ (~IsError(ev) => m.pc # "error")
  BY MayParts, MessagesChatResponses
<1>2. CASE IsError(ev)
  BY <1>1, <1>2, ErrorsTell DEF Ended, IsError
<1>3. CASE ev.e = "message_start" /\ m.pc = "start"
  BY <1>1, <1>3, TellOpens DEF Ended
<1>4. CASE ev.e = "ping" /\ m.pc \notin Ended
  BY <1>1, <1>4, TellNothing
<1>5. CASE /\ ev.e = "content_block_start" /\ m.pc = "open" /\ ev.i = m.n
           /\ ev.kind \in BlockKind /\ (ev.kind = "tool" => ev.id # 0)
  BY <1>1, <1>5, TellBlock DEF Ended
<1>6. CASE /\ ev.e = "content_block_delta" /\ m.pc = "block" /\ ev.i + 1 = m.n
           /\ ev.kind = m.kind /\ ev.frag # 0 /\ ev.kind \in BlockKind
  BY <1>1, <1>6, TellPiece DEF Ended, BlockKind
<1>7. CASE /\ ev.e = "content_block_delta" /\ m.pc = "block" /\ ev.i + 1 = m.n
           /\ ev.kind = "signature" /\ m.kind = "thinking"
  BY <1>1, <1>7, TellMark DEF Ended
<1>8. CASE ev.e = "content_block_stop" /\ m.pc = "block" /\ ev.i + 1 = m.n
  BY <1>1, <1>8, TellStop DEF Ended
<1>9. CASE ev.e = "message_delta" /\ m.pc = "open" /\ ev.why # "none"
  BY <1>1, <1>9, TellDelta DEF Ended
<1>10. CASE ev.e = "message_stop" /\ m.pc = "told"
  BY <1>1, <1>10, TellOver DEF Ended
<1> QED BY <1>2, <1>3, <1>4, <1>5, <1>6, <1>7, <1>8, <1>9, <1>10, MessagesGo

\* A client that speaks messages gets them as they are, and after the last the mark.
LEMMA MessagesPass ==
  ASSUME NEW u \in Dialect, NEW m \in Tale, NEW ev \in Msg, May(u, "messages", m, ev),
         NEW out, out = <<ev>> \o (IF ev.e = "message_stop" THEN <<Done>> ELSE <<>>)
  PROVE  \E v \in Tale : Along("gateway", "messages", Closed(m), out, v) /\ v = Closed(Tell(m, ev))
<1>1. May("gateway", "messages", m, ev) /\ ev \in Frame
  BY GatewayMayToo, MsgParts
<1>2. PICK b \in Tale : b = Tell(m, ev) /\ Goes("gateway", "messages", m, ev, b)
  BY <1>1, TellsOne, MessagesChatResponses
<1>3. m.pc \notin Ended
  BY MessagesEnd
<1>4. Closed(m) = m
  BY <1>3, TaleIsRecord DEF Closed, Ended, TaleRecord
<1>5. CASE ev.e # "message_stop"
  <2>1. out = <<ev>>
    BY <1>5
  <2>2. Along("gateway", "messages", m, out, b)
    BY <1>2, <2>1, AlongEvent
  <2>3. b.pc \notin Ended
    BY <1>2, <1>5, MessagesEnd
  <2>4. Closed(b) = b
    BY <2>3, TaleIsRecord DEF Closed, Ended, TaleRecord
  <2> QED BY <1>2, <1>4, <2>2, <2>4
<1>6. CASE ev.e = "message_stop"
  <2>1. out = <<ev, Done>>
    <3>1. out = <<ev>> \o <<Done>>
      BY <1>6
    <3> QED BY <3>1, PairJoined
  <2>2. b.pc = "over"
    BY <1>2, <1>6, MessagesEnd
  <2>3. Done.e = "Done" /\ Done \in Frame
    BY DEF Done, Bare, Frame
  <2>4. May("gateway", "messages", b, Done)
    BY <2>2, <2>3 DEF May, MessagesMay
  <2>5. PICK v \in Tale : v = Tell(b, Done) /\ Goes("gateway", "messages", b, Done, v)
    BY <2>3, <2>4, TellsOne, MessagesChatResponses
  <2>6. v = Closed(b)
    BY <2>2, <2>5, EndsTell DEF Closed
  <2>7. Along("gateway", "messages", m, out, v)
    BY <1>2, <2>1, <2>5, AlongPair
  <2> QED BY <1>2, <1>4, <2>6, <2>7
<1> QED BY <1>5, <1>6

\* The second stage has not told the client of an end before it gets it.
LEMMA SecondUnderWay ==
  ASSUME NEW d \in {"chat", "responses"}, NEW m \in Tale, NEW s, NEW t \in Tale, NEW include,
         SecondMakes(d, m, s, t, include), m.pc \notin Ended
  PROVE  t.pc \notin Ended \cup {"error"} /\ Beginning(t.c, m.c)
<1>1. CASE m.pc = "error"
  BY <1>1 DEF SecondMakes
<1>2. CASE m.pc # "error" /\ d = "chat"
  <2>1. ChatMade(m, s, t, include)
    BY <1>2 DEF SecondMakes
  <2>2. SameWords(t.c, m.c) /\ (m.pc # "start" => t.pc = "open")
    BY <2>1, ChatMadeWords
  <2>3. m.pc = "start" => t.pc = "start"
    BY <2>1 DEF ChatMade, Untold
  <2> QED BY <2>2, <2>3, TaleParts, SameWordsBoth DEF Ended
<1>3. CASE m.pc # "error" /\ d = "responses"
  <2>1. ResponsesMade(m, s, t)
    BY <1>3 DEF SecondMakes
  <2>2. t.c = m.c /\ ResponsesBeing(m, s, t) /\ (m.pc = "start" => t = Untold)
    BY <2>1 DEF ResponsesMade
  <2>3. t.pc \notin Ended \cup {"error"}
    BY <1>3, <2>2 DEF ResponsesBeing, Ended, Untold
  <2> QED BY <2>2, <2>3, TaleParts, BeginningItself
<1> QED BY <1>1, <1>2, <1>3

\* An error ends what is converted; the task tells the client of it.
LEMMA SecondFails ==
  ASSUME NEW d \in {"chat", "responses"}, NEW m \in Tale, NEW s, NEW t \in Tale, NEW include,
         SecondMakes(d, m, s, t, include), NEW u \in Dialect, NEW ev \in Msg,
         May(u, "messages", m, ev), IsError(ev), NEW y,
         y.out = <<>>, y.usage = NoUsage, y.capture = NoCapture
  PROVE  SecondOn(d, m, t, include, ev, y)
<1>1. m.pc \notin Ended /\ ev.e = "error"
  BY MayParts, MessagesChatResponses DEF IsError
<1>2. t.pc \notin Ended \cup {"error"} /\ Beginning(t.c, m.c)
  BY <1>1, SecondUnderWay
<1>3. ev \in Frame /\ u \in Teller
  BY MsgParts DEF Teller
<1>4. \E b \in Tale :
        /\ Goes(u, "messages", m, ev, b)
        /\ b.pc = "error" /\ b.kind = m.kind /\ b.n = m.n /\ b.c = m.c /\ b.why = m.why
        /\ b.usage = m.usage /\ b.marked = m.marked /\ b.signed = m.signed
  BY <1>1, <1>3, FailureIs, MessagesChatResponses
<1>5. PICK b \in Tale : Goes(u, "messages", m, ev, b) /\ b.pc = "error" /\ b.c = m.c
  BY <1>4
<1>6. b = Tell(m, ev)
  BY <1>5 DEF Goes
<1>7. SecondMakes(d, b, y.st, t, include)
  BY <1>2, <1>5 DEF SecondMakes
<1>8. Along("gateway", d, t, y.out, t)
  BY AlongNothing
<1>9. TakenDown(d, b) = NoCapture
  BY <1>5 DEF TakenDown, Ended
<1> QED BY <1>1, <1>5, <1>6, <1>7, <1>8, <1>9 DEF SecondOn

LEMMA SecondGoes ==
  ASSUME TypeInv, NEW m \in Tale, NEW t \in Tale,
         SecondMakes(route.client, m, outward, t, route.include),
         NEW ev \in Msg, May(route.up, "messages", m, ev)
  PROVE  SecondOn(route.client, m, t, route.include, ev, SecondStage(ev))
<1>1. /\ route.up \in Dialect /\ None \notin Nat /\ IsOutward(outward)
      /\ (route.client = "chat" \/ route.client = "messages" \/ route.client = "responses")
  BY SourceParts, TaskParts, RouteIsRoute DEF Dialect
<1>2. PICK y : y = SecondStage(ev)
  OBVIOUS
<1>3. m.pc \notin Ended /\ (~IsError(ev) => m.pc # "error")
  BY <1>1, MayParts, MessagesChatResponses
<1>4. CASE route.client = "messages"
  <2>1. PICK out : out = <<ev>> \o (IF ev.e = "message_stop" THEN <<Done>> ELSE <<>>)
    OBVIOUS
  <2>2. y = Yield(outward, out)
    BY <1>2, <1>4, <2>1 DEF SecondStage
  <2>3. y.out = out /\ y.usage = NoUsage /\ y.capture = NoCapture
    BY <2>2 DEF Yield
  <2>4. t = Closed(m)
    BY <1>4 DEF SecondMakes
  <2>5. \E v \in Tale : Along("gateway", "messages", Closed(m), out, v) /\ v = Closed(Tell(m, ev))
    BY <1>1, <2>1, MessagesPass
  <2>6. PICK v \in Tale : Along("gateway", "messages", t, out, v) /\ v = Closed(Tell(m, ev))
    BY <2>4, <2>5
  <2>7. SecondMakes("messages", Tell(m, ev), y.st, v, route.include)
    BY <2>6 DEF SecondMakes
  <2>8. TakenDown("messages", Tell(m, ev)) = NoCapture
    BY DEF TakenDown
  <2> QED BY <1>2, <1>4, <2>3, <2>6, <2>7, <2>8 DEF SecondOn
<1>5. CASE route.client \in {"chat", "responses"} /\ IsError(ev)
  <2>1. ev.e = "error"
    BY <1>1, <1>5, MayParts, MessagesChatResponses DEF IsError
  <2>2. y.out = <<>> /\ y.usage = NoUsage /\ y.capture = NoCapture
    <3>1. CASE route.client = "chat"
      <4>1. y = MessagesToChat(outward, ev, route.include)
        BY <1>2, <3>1 DEF SecondStage
      <4>2. y = [Yield(outward, <<>>) EXCEPT !.error = TRUE]
        BY <2>1, <4>1 DEF MessagesToChat
      <4> QED BY <4>2 DEF Yield
    <3>2. CASE route.client = "responses"
      <4>1. y = MessagesToResponses(outward, ev)
        BY <1>2, <3>2 DEF SecondStage
      <4>2. y = [Yield(outward, <<>>) EXCEPT !.error = TRUE]
        BY <2>1, <4>1 DEF MessagesToResponses
      <4> QED BY <4>2 DEF Yield
    <3> QED BY <1>5, <3>1, <3>2
  <2> QED BY <1>1, <1>2, <1>5, <2>2, SecondFails
<1>6. CASE route.client = "chat" /\ ~IsError(ev)
  <2>1. ChatMade(m, outward, t, route.include)
    BY <1>3, <1>6 DEF SecondMakes
  <2>2. ChatTells(m, outward, t, ev, route.include)
    BY <1>1, <1>6, <2>1, ChatTellsAlways
  <2>3. y = MessagesToChat(outward, ev, route.include)
    BY <1>2, <1>6 DEF SecondStage
  <2>4. PICK v \in Tale :
          Along("gateway", "chat", t, y.out, v) /\ ChatMade(Tell(m, ev), y.st, v, route.include)
    BY <2>2, <2>3 DEF ChatTells
  <2>5. /\ y.capture = TakenDown("chat", Tell(m, ev))
        /\ Tell(m, ev).usage = IF y.usage = NoUsage THEN m.usage ELSE y.usage
        /\ ev.e = "message_delta" /\ ev.usage # NoUsage => y.usage # NoUsage
    BY <2>2, <2>3 DEF ChatTells
  <2>6. Tell(m, ev).pc # "error"
    BY <1>3, <1>6, CalmlyTells
  <2>7. SecondMakes("chat", Tell(m, ev), y.st, v, route.include)
    BY <2>4, <2>6 DEF SecondMakes
  <2> QED BY <1>2, <1>6, <2>4, <2>5, <2>7 DEF SecondOn
<1>7. CASE route.client = "responses" /\ ~IsError(ev)
  <2>1. ResponsesMade(m, outward, t)
    BY <1>3, <1>7 DEF SecondMakes
  <2>2. ResponsesTells(m, outward, t, ev)
    BY <1>1, <1>7, <2>1, ResponsesTellsAlways
  <2>3. y = MessagesToResponses(outward, ev)
    BY <1>2, <1>7 DEF SecondStage
  <2>4. PICK v \in Tale :
          Along("gateway", "responses", t, y.out, v) /\ ResponsesMade(Tell(m, ev), y.st, v)
    BY <2>2, <2>3 DEF ResponsesTells
  <2>5. /\ y.capture = TakenDown("responses", Tell(m, ev))
        /\ Tell(m, ev).usage = IF y.usage = NoUsage THEN m.usage ELSE y.usage
        /\ ev.e = "message_delta" /\ ev.usage # NoUsage => y.usage # NoUsage
    BY <2>2, <2>3 DEF ResponsesTells
  <2>6. Tell(m, ev).pc # "error"
    BY <1>3, <1>7, CalmlyTells
  <2>7. SecondMakes("responses", Tell(m, ev), y.st, v, route.include)
    BY <2>4, <2>6 DEF SecondMakes
  <2> QED BY <1>2, <1>7, <2>4, <2>5, <2>7 DEF SecondOn
<1> QED BY <1>1, <1>4, <1>5, <1>6, <1>7

-----------------------------------------------------------------------------
(* What is passed through *)

\* What the task has noted of what it passed on.
UsageNoted(t) == IF In("messages") THEN t.usage ELSE InUsage(t.usage)
PassKnown(t) ==
  /\ t.pc = "start" => t = Untold
  /\ In("responses") /\ t.pc \notin Ended => t.usage = NoUsage
PassOn(t, ev, y) ==
  /\ y.capture = NoCapture /\ PassKnown(Tell(t, ev))
  /\ y.st.usage = UsageNoted(Tell(t, ev))
  /\ y.usage = IF Tell(t, ev).pc = "over" THEN y.st.usage ELSE NoUsage
  /\ \E v \in Tale : Along("gateway", route.client, t, y.out, v) /\ v = Closed(Tell(t, ev))

LEMMA ClosedIs ==
  ASSUME NEW t \in Tale
  PROVE  /\ t.pc \notin Ended => Closed(t) = t
         /\ t.pc = "over" => Closed(t) = [t EXCEPT !.pc = "closed"]
         /\ Tell(t, Done) = IF t.pc = "error" THEN t ELSE [t EXCEPT !.pc = "closed"]
<1>1. t.pc \notin Ended => Closed(t) = t
  BY TaleIsRecord DEF Closed, Ended, TaleRecord
<1> QED BY <1>1, EndsTell DEF Closed

\* Where a tale is once an event has been told.
LEMMA TellAtFirst ==
  ASSUME NEW u \in Dialect, NEW t \in Tale, NEW ev \in Msg, May(u, u, t, ev),
         Tell(t, ev).pc = "start"
  PROVE  t.pc = "start" /\ Tell(t, ev) = t
<1>1. ev.e # "Done" /\ ev.e \in EventName /\ ~IsError(ev)
  BY MsgParts, ErrorsTell
<1>2. ~Ends(ev)
  BY <1>1, TellOver, TellCompleted DEF Ends, IsError
<1>3. t.pc = "start"
  BY <1>1, <1>2, TellGoesOn
<1>4. ev.e \notin {"message_start", "response.created"}
  BY TellOpens
<1>5. ~(ev.e = "chunk" /\ ev.kind = "role")
  <2>1. SUFFICES ASSUME ev.e = "chunk", ev.kind = "role" PROVE FALSE
    OBVIOUS
  <2>2. Tell(t, ev) = [t EXCEPT !.pc = "open"]
    BY <1>1, <2>1 DEF Tell, TellChunk, IsError
  <2> QED BY <2>2, TaleIsRecord DEF TaleRecord
<1>6. ev.e = "ping"
  BY <1>1, <1>3, <1>4, <1>5 DEF May, MessagesMay, ChatMay, ResponsesMay
<1> QED BY <1>3, <1>6, TellNothing

\* The events of which usage is noted.
LEMMA TappedIs ==
  ASSUME TypeInv, NEW t \in Tale, NEW ev \in Msg, May(route.up, route.up, t, ev),
         PassKnown(t), outward.usage = UsageNoted(t), ~IsError(ev)
  PROVE  /\ Tapped(ev) = UsageNoted(Tell(t, ev))
         /\ In("responses") /\ Tell(t, ev).pc \notin Ended => Tell(t, ev).usage = NoUsage
<1>1. /\ route.up \in Dialect /\ ev.e # "Done" /\ ev.e \in EventName /\ ev.usage \in Usage
      /\ (In("chat") \/ In("messages") \/ In("responses"))
  BY SourceParts, MsgParts DEF In
<1>2. t.pc \notin Ended
  BY <1>1, MayParts
<1>3. CASE In("chat")
  <2>1. ChatMay("chat", t, ev)
    BY <1>1, <1>3 DEF May, In
  <2>2. CASE ev.e = "chunk" /\ ev.kind = "usage"
    <3>1. ev.usage # NoUsage
      BY <2>1, <2>2 DEF ChatMay
    <3>2. Tell(t, ev) = [t EXCEPT !.usage = ev.usage]
      BY <2>2 DEF Tell, TellChunk, IsError
    <3>3. Tell(t, ev).usage = ev.usage
      BY <3>2, TaleIsRecord DEF TaleRecord
    <3>4. Tapped(ev) = Exclusive(ev.usage)
      BY <2>2, <3>1 DEF Tapped
    <3> QED BY <1>3, <3>1, <3>3, <3>4 DEF UsageNoted, In, InUsage
  <2>3. CASE ev.e = "chunk" /\ ev.kind # "usage"
    <3>1. ev.usage = NoUsage
      BY <2>1, <2>3 DEF ChatMay
    <3>2. Tapped(ev) = outward.usage
      BY <2>3, <3>1 DEF Tapped
    <3>3. Tell(t, ev).usage = t.usage
      BY <2>3, TellGoesOn DEF Ends, IsError
    <3> QED BY <1>3, <3>2, <3>3 DEF UsageNoted, In
  <2>4. CASE ev.e = "[DONE]"
    <3>1. Tapped(ev) = outward.usage
      BY <2>4 DEF Tapped
    <3>2. Tell(t, ev).usage = t.usage
      BY <2>4, TellOver
    <3> QED BY <1>3, <3>1, <3>2 DEF UsageNoted, In
  <2> QED BY <1>3, <2>1, <2>2, <2>3, <2>4 DEF ChatMay, In
<1>4. CASE In("messages")
  <2>1. MessagesMay("messages", t, ev)
    BY <1>1, <1>4 DEF May, In
  <2>2. outward.usage = t.usage
    BY <1>4 DEF UsageNoted
  <2>3. CASE ev.e = "message_start"
    <3>1. t.pc = "start"
      BY <2>1, <2>3 DEF MessagesMay
    <3>2. t.usage = NoUsage
      BY <3>1 DEF PassKnown, Untold
    <3>3. Tapped(ev) = ev.usage
      BY <2>2, <2>3, <3>2 DEF Tapped
    <3> QED BY <1>4, <2>3, <3>3, TellOpens DEF UsageNoted, In
  <2>4. CASE ev.e = "message_delta"
    <3>1. Tapped(ev) = MergeUsage(t.usage, ev.usage)
      BY <2>2, <2>4 DEF Tapped
    <3> QED BY <1>4, <2>4, <3>1, TellDelta DEF UsageNoted, In
  <2>5. CASE ev.e = "message_stop"
    <3>1. Tapped(ev) = t.usage
      BY <2>2, <2>5 DEF Tapped
    <3> QED BY <1>4, <2>5, <3>1, TellOver DEF UsageNoted, In
  <2>6. CASE ev.e \notin {"message_start", "message_delta", "message_stop"}
    <3>1. ev.e \notin {"chunk", "response.created", "response.completed", "[DONE]",
                       "response.failed"}
      BY <1>1, <2>1 DEF MessagesMay
    <3>2. Tapped(ev) = t.usage
      BY <2>2, <2>6, <3>1 DEF Tapped
    <3>3. Tell(t, ev).usage = t.usage
      BY <2>6, <3>1, TellGoesOn DEF Ends
    <3> QED BY <1>4, <3>2, <3>3 DEF UsageNoted, In
  <2> QED BY <2>3, <2>4, <2>5, <2>6
<1>5. CASE In("responses")
  <2>1. ResponsesMay(t, ev)
    BY <1>1, <1>5 DEF May, In
  <2>2. t.usage = NoUsage /\ outward.usage = InUsage(t.usage)
    BY <1>2, <1>5 DEF UsageNoted, PassKnown, In
  <2>3. outward.usage = NoUsage
    BY <2>2 DEF InUsage
  <2>4. CASE ev.e = "response.completed"
    <3>1. Tapped(ev) = IF ev.usage # NoUsage THEN Exclusive(ev.usage) ELSE NoUsage
      BY <2>3, <2>4 DEF Tapped
    <3>2. Tell(t, ev).usage = ev.usage /\ Tell(t, ev).pc = "over"
      BY <2>4, TellCompleted
    <3> QED BY <1>5, <3>1, <3>2 DEF UsageNoted, In, InUsage, Ended
  <2>5. CASE ev.e = "response.created"
    <3>1. Tapped(ev) = NoUsage
      BY <2>3, <2>5 DEF Tapped
    <3>2. Tell(t, ev).usage = NoUsage
      BY <2>1, <2>5, TellOpens DEF ResponsesMay
    <3> QED BY <1>5, <3>1, <3>2 DEF UsageNoted, In, InUsage
  <2>6. CASE ev.e \notin {"response.created", "response.completed"}
    <3>1. ev.e \notin {"chunk", "message_start", "message_delta", "message_stop", "[DONE]",
                       "response.failed"}
      BY <1>1, <2>1 DEF ResponsesMay
    <3>2. Tapped(ev) = NoUsage
      BY <2>3, <2>6, <3>1 DEF Tapped
    <3>3. Tell(t, ev).usage = NoUsage
      BY <2>2, <2>6, <3>1, TellGoesOn DEF Ends
    <3> QED BY <1>5, <3>2, <3>3 DEF UsageNoted, In, InUsage
  <2> QED BY <2>4, <2>5, <2>6
<1> QED BY <1>1, <1>3, <1>4, <1>5

\* What is passed on is what the gateway may tell in the same dialect; the end of a chat
\* answer becomes the mark, and after the end of any other the mark comes.
LEMMA PassedMay ==
  ASSUME NEW u \in Dialect, NEW t \in Tale, NEW ev \in Msg, May(u, u, t, ev), ev.e # "[DONE]"
  PROVE  May("gateway", u, t, ev)
BY DEF May, MessagesMay, ChatMay, Dialect

LEMMA PassedEnds ==
  ASSUME NEW u \in Dialect, NEW t \in Tale, NEW ev \in Msg, May(u, u, t, ev)
  PROVE  /\ ~Ends(ev) => Tell(t, ev).pc \notin Ended /\ ev.e # "[DONE]"
         /\ ev.e = "[DONE]" => u = "chat" /\ t.pc \in {"open", "told"}
         /\ Ends(ev) /\ ev.e # "[DONE]" => u # "chat" /\ Tell(t, ev).pc \in {"over", "error"}
<1>1. t.pc \notin Ended /\ ev.e # "Done" /\ (ev.e = "response.failed" => u = "responses")
  BY MayParts, MsgParts DEF IsError
<1>2. ASSUME ~Ends(ev) PROVE Tell(t, ev).pc \notin Ended /\ ev.e # "[DONE]"
  <2>1. CASE IsError(ev)
    BY <1>2, <2>1, ErrorsTell DEF Ended, Ends
  <2>2. CASE ~IsError(ev)
    BY <1>1, <1>2, <2>2, TellGoesOn DEF Ended, Ends
  <2> QED BY <2>1, <2>2
<1>3. ASSUME ev.e = "[DONE]" PROVE u = "chat" /\ t.pc \in {"open", "told"}
  BY <1>1, <1>3 DEF May, MessagesMay, ChatMay, ResponsesMay, IsError
<1>4. ASSUME Ends(ev), ev.e # "[DONE]"
      PROVE  u # "chat" /\ Tell(t, ev).pc \in {"over", "error"}
  <2>1. CASE ev.e = "response.failed"
    BY <1>1, <2>1, ErrorsTell DEF IsError
  <2>2. CASE ev.e = "message_stop"
    BY <1>1, <2>2, TellOver DEF May, ChatMay, IsError
  <2>3. CASE ev.e = "response.completed"
    BY <1>1, <2>3, TellCompleted DEF May, ChatMay, IsError
  <2> QED BY <1>4, <2>1, <2>2, <2>3 DEF Ends
<1> QED BY <1>2, <1>3, <1>4

LEMMA PassedAlong ==
  ASSUME NEW u \in Dialect, NEW t \in Tale, NEW ev \in Msg, May(u, u, t, ev), NEW out,
         out = (IF ev.e = "[DONE]" THEN <<>> ELSE <<ev>>) \o (IF Ends(ev) THEN <<Done>> ELSE <<>>)
  PROVE  \E v \in Tale : Along("gateway", u, t, out, v) /\ v = Closed(Tell(t, ev))
<1>1. ev \in Frame /\ Done \in Frame /\ Done.e = "Done" /\ t.pc \notin Ended
  BY MsgParts, MayParts DEF Frame, Done, Bare
<1>2. PICK b \in Tale : b = Tell(t, ev) /\ Goes(u, u, t, ev, b)
  BY <1>1, TellsOne
<1>3. CASE ~Ends(ev)
  <2>1. ev.e # "[DONE]" /\ b.pc \notin Ended
    BY <1>2, <1>3, PassedEnds
  <2>2. out = <<ev>>
    BY <1>3, <2>1
  <2>3. May("gateway", u, t, ev)
    BY <2>1, PassedMay
  <2>4. Goes("gateway", u, t, ev, b)
    BY <1>2, <2>3 DEF Goes
  <2>5. Along("gateway", u, t, out, b)
    BY <2>2, <2>4, AlongEvent
  <2> QED BY <1>2, <2>1, <2>5, ClosedIs
<1>4. CASE Ends(ev) /\ ev.e # "[DONE]"
  <2>1. u # "chat" /\ b.pc \in {"over", "error"}
    BY <1>2, <1>4, PassedEnds
  <2>2. out = <<ev, Done>>
    <3>1. out = <<ev>> \o <<Done>>
      BY <1>4
    <3> QED BY <3>1, PairJoined
  <2>3. May("gateway", u, t, ev)
    BY <1>4, PassedMay
  <2>4. Goes("gateway", u, t, ev, b)
    BY <1>2, <2>3 DEF Goes
  <2>5. May("gateway", u, b, Done)
    BY <1>1, <2>1 DEF May, MessagesMay, ResponsesMay, Dialect
  <2>6. PICK v \in Tale : v = Tell(b, Done) /\ Goes("gateway", u, b, Done, v)
    BY <1>1, <2>5, TellsOne
  <2>7. Along("gateway", u, t, out, v)
    BY <2>2, <2>4, <2>6, AlongPair
  <2>8. v = Closed(b)
    <3>1. CASE b.pc = "over"
      BY <2>6, <3>1, ClosedIs
    <3>2. CASE b.pc = "error"
      BY <2>6, <3>2, ClosedIs DEF Ended
    <3> QED BY <2>1, <3>1, <3>2
  <2> QED BY <1>2, <2>7, <2>8
<1>5. CASE ev.e = "[DONE]"
  <2>1. u = "chat" /\ t.pc \in {"open", "told"} /\ Ends(ev)
    BY <1>5, PassedEnds DEF Ends
  <2>2. out = <<Done>>
    BY <1>5, <2>1
  <2>3. May("gateway", u, t, Done)
    BY <1>1, <2>1 DEF May, ChatMay
  <2>4. PICK v \in Tale : v = Tell(t, Done) /\ Goes("gateway", u, t, Done, v)
    BY <1>1, <2>3, TellsOne
  <2>5. v = [t EXCEPT !.pc = "closed"]
    BY <2>1, <2>4, ClosedIs
  <2>6. b = [t EXCEPT !.pc = "over"]
    BY <1>2, <1>5 DEF Tell, IsError
  <2>7. b.pc = "over"
    BY <2>6, TaleIsRecord DEF TaleRecord
  <2>8. Closed(b) = [b EXCEPT !.pc = "closed"]
    BY <2>7, ClosedIs
  <2>9. v = Closed(b)
    BY <2>5, <2>6, <2>8, TaleIsRecord DEF TaleRecord
  <2>10. Along("gateway", u, t, out, v)
    BY <2>2, <2>4, AlongOne
  <2> QED BY <1>2, <2>9, <2>10
<1> QED BY <1>3, <1>4, <1>5

LEMMA PassGoes ==
  ASSUME TypeInv, Passthrough, NEW t \in Tale, PassKnown(t), outward.usage = UsageNoted(t),
         NEW ev \in Msg, May(route.up, route.up, t, ev)
  PROVE  PassOn(t, ev, PassedThrough(ev))
<1>1. route.up \in Dialect /\ route.up = route.client /\ IsOutward(outward)
  BY SourceParts, TaskParts DEF Passthrough
<1>2. PICK y : y = PassedThrough(ev)
  OBVIOUS
<1>3. PICK out : out = (IF ev.e = "[DONE]" THEN <<>> ELSE <<ev>>)
                         \o (IF Ends(ev) THEN <<Done>> ELSE <<>>)
  OBVIOUS
<1>4. PICK note : note = [outward EXCEPT !.usage = Tapped(ev)]
  OBVIOUS
<1>5. note.usage = Tapped(ev)
  BY <1>1, <1>4 DEF IsOutward
<1>6. y = [Yield(note, out) EXCEPT !.error = IsError(ev),
                                   !.usage = IF Ends(ev) THEN note.usage ELSE NoUsage]
  BY <1>2, <1>3, <1>4 DEF PassedThrough
<1>7. /\ y.st = note /\ y.out = out /\ y.capture = NoCapture
      /\ y.usage = IF Ends(ev) THEN note.usage ELSE NoUsage
  BY <1>6 DEF Yield
<1>8. PICK b \in Tale : b = Tell(t, ev)
  BY <1>1, TellIsTale
<1>9. t.pc \notin Ended /\ (IsError(ev) /\ ev.e = "response.failed" => In("responses"))
  BY <1>1, MayParts DEF In
<1>10. y.st.usage = UsageNoted(b) /\ (In("responses") /\ b.pc \notin Ended => b.usage = NoUsage)
  <2>1. CASE ~IsError(ev)
    BY <1>5, <1>7, <1>8, <2>1, TappedIs
  <2>2. CASE IsError(ev)
    <3>1. Tell(t, ev) = [t EXCEPT !.pc = "error"]
      BY <2>2 DEF Tell, IsError
    <3>2. b.usage = t.usage
      BY <1>8, <3>1, TaleIsRecord DEF TaleRecord
    <3>3. Tapped(ev) = outward.usage
      BY <2>2 DEF Tapped, IsError
    <3> QED BY <1>5, <1>7, <1>9, <3>2, <3>3 DEF UsageNoted, PassKnown
  <2> QED BY <2>1, <2>2
<1>11. PassKnown(b)
  BY <1>1, <1>8, <1>10, TellAtFirst DEF PassKnown
<1>12. y.usage = IF b.pc = "over" THEN y.st.usage ELSE NoUsage
  <2>1. CASE ~Ends(ev)
    BY <1>1, <1>7, <1>8, <2>1, PassedEnds DEF Ended
  <2>2. CASE ev.e \in {"message_stop", "[DONE]"}
    BY <1>7, <1>8, <2>2, TellOver DEF Ends
  <2>3. CASE ev.e = "response.completed"
    BY <1>7, <1>8, <2>3, TellCompleted DEF Ends
  <2>4. CASE ev.e = "response.failed"
    <3>1. b.pc = "error" /\ In("responses")
      BY <1>8, <1>9, <2>4, ErrorsTell DEF IsError
    <3>2. y.st.usage = InUsage(b.usage) /\ b.usage = NoUsage
      BY <1>10, <3>1 DEF UsageNoted, In, Ended
    <3>3. y.st.usage = NoUsage /\ y.usage = y.st.usage
      BY <1>7, <2>4, <3>2 DEF InUsage, Ends
    <3> QED BY <3>1, <3>3
  <2> QED BY <2>1, <2>2, <2>3, <2>4 DEF Ends
<1>13. PICK v \in Tale : Along("gateway", route.up, t, out, v) /\ v = Closed(b)
  <2>1. PICK u \in Dialect : u = route.up
    BY <1>1
  <2>2. May(u, u, t, ev)
    BY <2>1
  <2>3. \E v \in Tale : Along("gateway", u, t, out, v) /\ v = Closed(Tell(t, ev))
    BY <1>3, <2>2, PassedAlong
  <2> QED BY <1>8, <2>1, <2>3
<1> QED BY <1>1, <1>2, <1>7, <1>8, <1>10, <1>11, <1>12, <1>13 DEF PassOn

-----------------------------------------------------------------------------
(* What is known at the end *)

LEMMA ToldZero ==
  ASSUME None \notin Nat
  PROVE  /\ Told(NoUsage) = ZeroUsage /\ Told(ZeroUsage) = ZeroUsage
         /\ Exclusive(NoUsage) = ZeroUsage /\ Totals(ZeroUsage) = ZeroUsage
<1>1. Count(None) = 0 /\ Count(0) = 0
  BY DEF Count
<1>2. /\ "prompt" \in UsageField /\ "read" \in UsageField /\ "write" \in UsageField
  BY DEF UsageField
<1>3. Cached(NoUsage) = 0 /\ Cached(ZeroUsage) = 0
  BY <1>1, <1>2 DEF Cached, NoUsage, ZeroUsage
<1>4. Told(NoUsage) = ZeroUsage /\ Told(ZeroUsage) = ZeroUsage
  BY <1>1 DEF Told, NoUsage, ZeroUsage
<1>5. Exclusive(NoUsage) = ZeroUsage
  <2>1. \A f \in UsageField : Count(NoUsage[f]) = 0
    BY <1>1 DEF NoUsage
  <2>2. \A f \in UsageField : Exclusive(NoUsage)[f] = 0
    BY <1>3, <2>1 DEF Exclusive
  <2> QED BY <2>2 DEF Exclusive, ZeroUsage
<1>6. Totals(ZeroUsage) = ZeroUsage
  <2>1. \A f \in UsageField : Count(ZeroUsage[f]) = 0
    BY <1>1 DEF ZeroUsage
  <2>2. \A f \in UsageField : Totals(ZeroUsage)[f] = 0
    BY <1>3, <2>1 DEF Totals
  <2> QED BY <2>2 DEF Totals, ZeroUsage
<1> QED BY <1>4, <1>5, <1>6

LEMMA ToldPlain ==
  ASSUME None \notin Nat, NEW p \in Plain
  PROVE  Told(p) = p /\ Filled(p) = p /\ p # NoUsage /\ p \in Usage
<1>1. p \in Usage /\ \A f \in UsageField : Count(p[f]) = p[f] /\ p[f] \in Nat
  BY PlainCounts
<1>2. Told(p) = p
  BY <1>1 DEF Told, Usage
<1>3. \A f \in UsageField : p[f] # None
  BY <1>1
<1>4. Filled(p) = p
  BY <1>1, <1>3 DEF Filled, MergeUsage, Usage
<1>5. p # NoUsage
  <2>1. "prompt" \in UsageField
    BY DEF UsageField
  <2> QED BY <1>3, <2>1 DEF NoUsage
<1> QED BY <1>1, <1>2, <1>4, <1>5

LEMMA TotalsTold ==
  ASSUME None \notin Nat, NEW u \in Usage
  PROVE  Totals(Told(u)) = Totals(u)
<1>1. \A f \in UsageField : Count(u[f]) \in Nat
  BY DEF Count, Usage
<1>2. \A f \in UsageField : Told(u)[f] = Count(u[f]) /\ Count(Told(u)[f]) = Count(u[f])
  BY <1>1 DEF Told, Count
<1>3. Cached(Told(u)) = Cached(u)
  BY <1>2 DEF Cached, UsageField
<1> QED BY <1>2, <1>3 DEF Totals

LEMMA InUsageTold ==
  ASSUME None \notin Nat, NEW u \in Usage
  PROVE  /\ Told(InUsage(u)) = Exclusive(u)
         /\ Filled(Filled(InUsage(u))) = Exclusive(u)
         /\ Told(Exclusive(u)) = Exclusive(u) /\ Exclusive(u) # NoUsage
         /\ Told(Totals(u)) = Totals(u) /\ Totals(u) # NoUsage /\ Exclusive(u) \in Usage
<1>1. Exclusive(u) \in Plain /\ Totals(u) \in Plain
  BY UsageIsNatural
<1>2. CASE u = NoUsage
  <2>1. InUsage(u) = NoUsage /\ Exclusive(u) = ZeroUsage
    BY <1>2, ToldZero DEF InUsage
  <2>2. Filled(NoUsage) = ZeroUsage
    BY MergeNothing, NoUsageIsUsage DEF Filled
  <2> QED BY <1>1, <2>1, <2>2, ToldZero, ToldPlain
<1>3. CASE u # NoUsage
  BY <1>1, <1>3, ToldPlain DEF InUsage
<1> QED BY <1>2, <1>3

-----------------------------------------------------------------------------
(* The way of an answer *)

\* What is read of the upstream's tale is u, and all of it v; n is what the first stage has
\* made of u, and m what the second has read of that.
OnTheWay(t, m, n, u, v) ==
  /\ Along(route.up, route.up, u, pump.chunk \o wire, v)
  /\ ~Passthrough => Along(route.up, "messages", m, pump.mid, n)
  /\ Flow(t, m, n, u, v)

LEMMA OnwardToTheEnd ==
  ASSUME NEW a \in Tale, NEW b \in Tale, Onward(a, b), a.pc \in Ended
  PROVE  /\ b.pc \in Ended /\ b.c = a.c /\ b.n = a.n /\ b.kind = a.kind /\ b.why = a.why
         /\ b.usage = a.usage /\ b.signed = a.signed /\ (a.pc = "closed" => b.pc = "closed")
<1>1. b.pc \in Ended /\ b = [a EXCEPT !.pc = b.pc] /\ (a.pc = "closed" => b = a)
  BY DEF Onward
<1>2. a \in TaleRecord
  BY TaleIsRecord
<1>3. b.c = a.c /\ b.n = a.n /\ b.kind = a.kind /\ b.why = a.why
      /\ b.usage = a.usage /\ b.signed = a.signed
  BY <1>1, <1>2 DEF TaleRecord
<1> QED BY <1>1, <1>3

LEMMA ClosedParts ==
  ASSUME NEW a \in Tale, NEW b, b = Closed(a)
  PROVE  /\ b.c = a.c /\ b.n = a.n /\ b.kind = a.kind /\ b.why = a.why /\ b.usage = a.usage
         /\ b.signed = a.signed /\ (b.pc \in Ended => a.pc \in Ended)
         /\ (a.pc \notin Ended => b = a) /\ (b.pc = "error" <=> a.pc = "error")
<1>1. a \in TaleRecord
  BY TaleIsRecord
<1>2. b = [a EXCEPT !.pc = IF a.pc = "over" THEN "closed" ELSE a.pc]
  BY DEF Closed
<1>3. b.pc = IF a.pc = "over" THEN "closed" ELSE a.pc
  BY <1>1, <1>2 DEF TaleRecord
<1>4. /\ b.c = a.c /\ b.n = a.n /\ b.kind = a.kind /\ b.why = a.why /\ b.usage = a.usage
      /\ b.signed = a.signed
  BY <1>1, <1>2 DEF TaleRecord
<1> QED BY <1>3, <1>4, ClosedIs DEF Ended

LEMMA WayParts ==
  ASSUME TypeInv, NEW t \in Tale, NEW m \in Tale, NEW n \in Tale, NEW u \in Tale, NEW v \in Tale,
         OnTheWay(t, m, n, u, v)
  PROVE  /\ Onward(u, v) /\ Source(v) /\ (~Passthrough => Onward(m, n))
         /\ Passthrough => PassedOn(u, t)
         /\ ~Passthrough =>
              /\ FirstMakes(route.up, u, inward, n)
              /\ SecondMakes(route.client, m, outward, t, route.include) /\ Noted(m, u)
<1>1. pump.chunk \o wire \in Seq(Msg) /\ pump.mid \in Seq(Msg)
  BY TaskParts, ConcatIsSeq
<1>2. Onward(u, v) /\ (~Passthrough => Onward(m, n))
  BY <1>1, AlongTales DEF OnTheWay
<1> QED BY <1>2 DEF OnTheWay, Flow

\* What a stage has made is a beginning of what it was made of.
LEMMA FirstBegins ==
  ASSUME NEW d \in Dialect, NEW u \in Tale, NEW s, NEW n \in Tale, FirstMakes(d, u, s, n)
  PROVE  Beginning(n.c, u.c)
<1>1. u.c \in Content /\ n.c \in Content
  BY TaleParts
<1>2. CASE d = "messages"
  BY <1>1, <1>2, BeginningItself DEF FirstMakes
<1>3. CASE d # "messages" /\ u.pc = "error"
  BY <1>3 DEF FirstMakes
<1>4. CASE d = "chat" /\ u.pc # "error"
  <2>1. n.c = u.c
    BY <1>4 DEF FirstMakes, ChatStage
  <2> QED BY <1>1, <2>1, BeginningItself
<1>5. CASE d = "responses" /\ u.pc # "error"
  <2>1. n.c = u.c
    BY <1>5 DEF FirstMakes, ResponsesStage
  <2> QED BY <1>1, <2>1, BeginningItself
<1> QED BY <1>2, <1>3, <1>4, <1>5 DEF Dialect

LEMMA SecondBegins ==
  ASSUME NEW d \in Dialect, NEW m \in Tale, NEW s, NEW t \in Tale, NEW include,
         SecondMakes(d, m, s, t, include)
  PROVE  Beginning(t.c, m.c)
<1>1. t.c \in Content /\ m.c \in Content
  BY TaleParts
<1>2. CASE d = "messages"
  <2>1. t.c = m.c
    BY <1>2, ClosedParts DEF SecondMakes
  <2> QED BY <1>1, <2>1, BeginningItself
<1>3. CASE d # "messages" /\ m.pc = "error"
  BY <1>3 DEF SecondMakes
<1>4. CASE d = "chat" /\ m.pc # "error"
  <2>1. SameWords(t.c, m.c)
    BY <1>4 DEF SecondMakes, ChatMade
  <2> QED BY <1>1, <2>1, SameWordsBoth
<1>5. CASE d = "responses" /\ m.pc # "error"
  <2>1. t.c = m.c
    BY <1>5 DEF SecondMakes, ResponsesMade
  <2> QED BY <1>1, <2>1, BeginningItself
<1> QED BY <1>2, <1>3, <1>4, <1>5 DEF Dialect

LEMMA StagesBegin ==
  ASSUME TypeInv, NEW t \in Tale, NEW m \in Tale, NEW n \in Tale, NEW u \in Tale, NEW s, NEW r,
         FirstMakes(route.up, u, r, n), Onward(m, n),
         SecondMakes(route.client, m, s, t, route.include)
  PROVE  Beginning(t.c, u.c)
<1>1. t.c \in Content /\ m.c \in Content /\ n.c \in Content /\ u.c \in Content
  BY TaleParts
<1>2. PICK d \in Dialect, e \in Dialect : d = route.up /\ e = route.client
  BY RouteIsRoute
<1>3. FirstMakes(d, u, r, n) /\ SecondMakes(e, m, s, t, route.include)
  BY <1>2
<1>4. Beginning(n.c, u.c)
  BY <1>3, FirstBegins
<1>5. Beginning(t.c, m.c)
  BY <1>3, SecondBegins
<1> QED BY <1>1, <1>4, <1>5, BeginningFurther DEF Onward

\* What the client hears is a beginning of what the upstream has said.
LEMMA WayBegins ==
  ASSUME TypeInv, NEW t \in Tale, NEW m \in Tale, NEW n \in Tale, NEW u \in Tale, NEW v \in Tale,
         OnTheWay(t, m, n, u, v)
  PROVE  Beginning(t.c, u.c) /\ Beginning(t.c, v.c) /\ Beginning(t.c, said)
<1>1. /\ Onward(u, v) /\ Source(v) /\ (~Passthrough => Onward(m, n))
      /\ Passthrough => PassedOn(u, t)
      /\ ~Passthrough =>
           /\ FirstMakes(route.up, u, inward, n)
           /\ SecondMakes(route.client, m, outward, t, route.include) /\ Noted(m, u)
  BY WayParts
<1>2. t.c \in Content /\ u.c \in Content /\ v.c \in Content /\ said \in Content
  BY TaleParts, SourceParts
<1>3. Beginning(u.c, v.c) /\ Beginning(v.c, said)
  BY <1>1 DEF Onward, Source
<1>4. Beginning(t.c, u.c)
  <2>1. CASE Passthrough
    <3>1. t.c = u.c
      BY <1>1, <2>1, ClosedParts DEF PassedOn
    <3> QED BY <1>2, <3>1, BeginningItself
  <2>2. CASE ~Passthrough
    BY <1>1, <2>2, StagesBegin
  <2> QED BY <2>1, <2>2
<1> QED BY <1>2, <1>3, <1>4, BeginningFurther

\* When the whole tale has been read, what was read is the whole tale.
LEMMA ReadToTheEnd ==
  ASSUME NEW u \in Tale, NEW v \in Tale, Onward(u, v), Source(v), u.pc \in Ended
  PROVE  /\ u.pc = "over" /\ up.complete /\ u.c = said /\ u.why = up.why
         /\ u.signed = up.signed /\ SameBill(u.usage) /\ (~In("messages") => u.usage = bill)
<1>1. /\ v.pc \in Ended /\ v.c = u.c /\ v.n = u.n /\ v.kind = u.kind /\ v.why = u.why
      /\ v.usage = u.usage /\ v.signed = u.signed /\ (u.pc = "closed" => v.pc = "closed")
  BY OnwardToTheEnd
<1>2. v.pc # "closed" /\ Whole(v)
  BY <1>1 DEF Source
<1> QED BY <1>1, <1>2 DEF Whole, Ended

ReasonOf(why) ==
  IF In("messages") THEN why
  ELSE IF In("chat") /\ why # "none" THEN FinishToStop(why)
  ELSE IF said.tools # <<>> THEN "tool_use" ELSE "end_turn"

LEMMA MadeToTheEnd ==
  ASSUME TypeInv, NEW m \in Tale, NEW n \in Tale, NEW u \in Tale, NEW v \in Tale,
         Onward(u, v), Source(v), Onward(m, n), FirstMakes(route.up, u, inward, n), m.pc \in Ended
  PROVE  /\ m.pc = "over" /\ u.pc = "over" /\ up.complete
         /\ m.c = said /\ m.signed = up.signed /\ m.why = ReasonOf(up.why)
         /\ In("messages") => SameBill(m.usage)
         /\ ~In("messages") => u.usage = bill /\ m.usage = Filled(Filled(InUsage(bill)))
<1>1. /\ Onward(u, v) /\ Source(v) /\ Onward(m, n) /\ FirstMakes(route.up, u, inward, n)
  OBVIOUS
<1>2. /\ n.pc \in Ended /\ n.c = m.c /\ n.why = m.why /\ n.usage = m.usage
      /\ n.signed = m.signed /\ (m.pc = "closed" => n.pc = "closed")
  BY <1>1, OnwardToTheEnd
<1>3. (route.up = "chat" \/ route.up = "messages" \/ route.up = "responses")
  BY SourceParts
<1>4. CASE route.up = "messages"
  <2>1. n = u
    BY <1>1, <1>4 DEF FirstMakes
  <2>2. /\ u.pc = "over" /\ up.complete /\ u.c = said /\ u.why = up.why
        /\ u.signed = up.signed /\ SameBill(u.usage)
    BY <1>1, <1>2, <2>1, ReadToTheEnd
  <2> QED BY <1>2, <1>4, <2>1, <2>2 DEF In, ReasonOf, Ended
<1>5. CASE route.up \in {"chat", "responses"}
  <2>1. u.pc \in Ended
    <3>1. SUFFICES ASSUME u.pc \notin Ended PROVE FALSE
      OBVIOUS
    <3>2. n.pc \notin {"told", "over", "closed"}
      BY <1>1, <1>5, <3>1, FirstUnderWay
    <3> QED BY <1>2, <3>2 DEF Ended
  <2>2. /\ u.pc = "over" /\ up.complete /\ u.c = said /\ u.why = up.why
        /\ u.signed = up.signed /\ (~In("messages") => u.usage = bill)
    BY <1>1, <2>1, ReadToTheEnd
  <2>3. CASE route.up = "chat"
    <3>1. ChatStage(u, inward, n)
      BY <1>1, <2>2, <2>3 DEF FirstMakes
    <3>2. /\ n.c = u.c /\ n.signed = <<>> /\ u.signed = <<>> /\ AllFilled(u, n)
          /\ n.why = IF u.why # "none" THEN FinishToStop(u.why) ELSE ToolsOrEnd(u)
      BY <2>1, <3>1 DEF ChatStage
    <3>3. n.pc = "over" /\ n.usage = Filled(Filled(InUsage(u.usage)))
      BY <3>2 DEF AllFilled
    <3>4. n.why = ReasonOf(up.why)
      BY <2>2, <2>3, <3>2 DEF ReasonOf, ToolsOrEnd, In
    <3> QED BY <1>2, <2>2, <2>3, <3>2, <3>3, <3>4 DEF In, Ended
  <2>4. CASE route.up = "responses"
    <3>1. ResponsesStage(u, inward, n)
      BY <1>1, <2>2, <2>4 DEF FirstMakes
    <3>2. n.c = u.c /\ n.signed = u.signed /\ AllFilled(u, n) /\ n.why = ToolsOrEnd(u)
      BY <2>1, <3>1 DEF ResponsesStage
    <3>3. n.pc = "over" /\ n.usage = Filled(Filled(InUsage(u.usage)))
      BY <3>2 DEF AllFilled
    <3>4. n.why = ReasonOf(up.why)
      BY <2>2, <2>4, <3>2 DEF ReasonOf, ToolsOrEnd, In
    <3> QED BY <1>2, <2>2, <2>4, <3>2, <3>3, <3>4 DEF In, Ended
  <2> QED BY <1>5, <2>3, <2>4
<1> QED BY <1>3, <1>4, <1>5

LEMMA WayEnds ==
  ASSUME TypeInv, NEW t \in Tale, NEW m \in Tale, NEW n \in Tale, NEW u \in Tale, NEW v \in Tale,
         OnTheWay(t, m, n, u, v), ~Passthrough, m.pc \in Ended
  PROVE  /\ m.pc = "over" /\ u.pc = "over" /\ up.complete
         /\ m.c = said /\ m.signed = up.signed /\ m.why = ReasonOf(up.why)
         /\ In("messages") => SameBill(m.usage)
         /\ ~In("messages") => u.usage = bill /\ m.usage = Filled(Filled(InUsage(bill)))
<1>1. Onward(u, v) /\ Source(v) /\ Onward(m, n) /\ FirstMakes(route.up, u, inward, n)
  BY WayParts
<1> QED BY <1>1, MadeToTheEnd

\* The client is told of the end when the converters have come to it.
LEMMA ToldTheEnd ==
  ASSUME TypeInv, NEW t \in Tale, NEW m \in Tale, NEW n \in Tale, NEW u \in Tale, NEW v \in Tale,
         OnTheWay(t, m, n, u, v), ~Passthrough, t.pc \in Ended
  PROVE  m.pc \in Ended
<1>1. SecondMakes(route.client, m, outward, t, route.include)
  BY WayParts
<1>2. CASE route.client = "messages"
  <2>1. t = Closed(m)
    BY <1>1, <1>2 DEF SecondMakes
  <2> QED BY <2>1, ClosedParts
<1>3. CASE route.client \in {"chat", "responses"}
  <2>1. SUFFICES ASSUME m.pc \notin Ended PROVE FALSE
    OBVIOUS
  <2>2. t.pc \notin Ended \cup {"error"}
    BY <1>1, <1>3, <2>1, SecondUnderWay
  <2> QED BY <2>2
<1> QED BY <1>2, <1>3, RouteIsRoute DEF Dialect

LEMMA PassedToTheEnd ==
  ASSUME TypeInv, NEW t \in Tale, NEW m \in Tale, NEW n \in Tale, NEW u \in Tale, NEW v \in Tale,
         OnTheWay(t, m, n, u, v), Passthrough, t.pc \in Ended
  PROVE  /\ up.complete /\ t.c = said /\ t.why = up.why /\ t.usage = u.usage
         /\ SameBill(u.usage) /\ (~In("messages") => u.usage = bill)
         /\ pump.usage = IF In("messages") THEN u.usage ELSE InUsage(u.usage)
<1>1. Onward(u, v) /\ Source(v) /\ PassedOn(u, t)
  BY WayParts
<1>2. /\ t = Closed(u) /\ outward.usage = IF In("messages") THEN u.usage ELSE InUsage(u.usage)
      /\ pump.usage = IF u.pc = "over" THEN outward.usage ELSE NoUsage
  BY <1>1 DEF PassedOn
<1>3. /\ t.c = u.c /\ t.why = u.why /\ t.usage = u.usage /\ u.pc \in Ended
  BY <1>2, ClosedParts
<1>4. /\ u.pc = "over" /\ up.complete /\ u.c = said /\ u.why = up.why
      /\ SameBill(u.usage) /\ (~In("messages") => u.usage = bill)
  BY <1>1, <1>3, ReadToTheEnd
<1> QED BY <1>2, <1>3, <1>4

\* Nobody is told of an end the upstream has not come to.
LEMMA EndIsTheEnd ==
  ASSUME TypeInv, NEW t \in Tale, NEW m \in Tale, NEW n \in Tale, NEW u \in Tale, NEW v \in Tale,
         OnTheWay(t, m, n, u, v), t.pc \in Ended
  PROVE  up.complete
BY PassedToTheEnd, ToldTheEnd, WayEnds

\* What a client h that has heard the end has heard, and what is noted by then.
EndReason ==
  IF route.client = "chat"
  THEN IF In("chat") THEN up.why
       ELSE IF In("messages") THEN StopToFinish(up.why)
       ELSE IF said.tools # <<>> THEN "tool_calls" ELSE "stop"
  ELSE ReasonOf(up.why)
EndUsage ==
  IF Passthrough THEN Told(bill)
  ELSE IF bill = NoUsage \/ (route.client = "chat" /\ ~route.include) THEN ZeroUsage
  ELSE IF route.client = "messages" THEN Billed ELSE Totals(Billed)
Outcome(h) ==
  /\ SameWords(h.said, said)
  /\ route.client # "responses" => h.why = EndReason
  /\ route.client = "responses" => h.final = said.items
  /\ Told(h.usage) = EndUsage /\ Told(pump.usage) = Billed
  /\ Captures /\ up.signed # <<>> /\ Calls # <<>> => pump.capture # NoCapture

\* h knows the whole of a tale that has ended.
Knows(d, h, t) ==
  /\ SameWords(h.said, t.c) /\ h.usage = t.usage /\ h.why = t.why
  /\ d = "responses" => h.final = t.c.items

LEMMA ReadsTheEnd ==
  ASSUME NEW d, NEW h, NEW a \in Tale, Reads(d, h, a), a.pc \in Ended,
         NEW t \in Tale, Onward(a, t)
  PROVE  t.pc \in Ended /\ Knows(d, h, t)
<1>1. t.pc \in Ended /\ t.c = a.c /\ t.why = a.why /\ t.usage = a.usage
  BY OnwardToTheEnd
<1> QED BY <1>1 DEF Reads, Ended, Knows

LEMMA OutcomePassed ==
  ASSUME TypeInv, NEW t \in Tale, NEW m \in Tale, NEW n \in Tale, NEW u \in Tale, NEW v \in Tale,
         OnTheWay(t, m, n, u, v), t.pc \in Ended, NEW h, Knows(route.client, h, t), Passthrough
  PROVE  Outcome(h)
<1>1. /\ SameWords(h.said, t.c) /\ h.usage = t.usage /\ h.why = t.why
      /\ (route.client = "responses" => h.final = t.c.items)
  BY DEF Knows
<1>2. /\ up.complete /\ t.c = said /\ t.why = up.why /\ t.usage = u.usage
      /\ SameBill(u.usage) /\ (~In("messages") => u.usage = bill)
      /\ pump.usage = IF In("messages") THEN u.usage ELSE InUsage(u.usage)
  BY PassedToTheEnd
<1>3. None \notin Nat /\ bill \in Usage /\ route.up = route.client
      /\ (route.up = "chat" \/ route.up = "messages" \/ route.up = "responses")
  BY SourceParts DEF Passthrough
<1>4. route.client # "responses" => h.why = EndReason
  BY <1>1, <1>2, <1>3 DEF EndReason, ReasonOf, In
<1>5. Told(h.usage) = EndUsage
  BY <1>1, <1>2, <1>3 DEF EndUsage, SameBill
<1>6. Told(pump.usage) = Billed
  <2>1. CASE In("messages")
    BY <1>2, <2>1 DEF Billed, SameBill
  <2>2. CASE ~In("messages")
    BY <1>2, <1>3, <2>2, InUsageTold DEF Billed
  <2> QED BY <2>1, <2>2
<1> QED BY <1>1, <1>2, <1>4, <1>5, <1>6 DEF Outcome, Captures

\* What the converters have made of the usage.
LEMMA MadeUsage ==
  ASSUME None \notin Nat, bill \in Usage, NEW usage \in Usage,
         In("messages") => SameBill(usage),
         ~In("messages") => usage = Filled(Filled(InUsage(bill)))
  PROVE  /\ Told(usage) = Billed /\ Told(Totals(usage)) = Totals(Billed)
         /\ bill = NoUsage => Billed = ZeroUsage /\ Totals(Billed) = ZeroUsage
         /\ bill # NoUsage => usage # NoUsage
<1>1. Told(usage) = Billed
  <2>1. CASE In("messages")
    BY <2>1 DEF Billed, SameBill
  <2>2. CASE ~In("messages")
    BY <2>2, InUsageTold DEF Billed
  <2> QED BY <2>1, <2>2
<1>2. Told(Totals(usage)) = Totals(usage) /\ Totals(usage) = Totals(Told(usage))
  BY InUsageTold, TotalsTold
<1>3. ASSUME bill = NoUsage PROVE Billed = ZeroUsage /\ Totals(Billed) = ZeroUsage
  BY <1>3, ToldZero DEF Billed
<1>4. ASSUME bill # NoUsage PROVE usage # NoUsage
  <2>1. CASE In("messages")
    BY <1>4, <2>1 DEF SameBill
  <2>2. CASE ~In("messages")
    BY <2>2, InUsageTold
  <2> QED BY <2>1, <2>2
<1> QED BY <1>1, <1>2, <1>3, <1>4

LEMMA OutcomeConverted ==
  ASSUME TypeInv, NEW t \in Tale, NEW m \in Tale, NEW n \in Tale, NEW u \in Tale, NEW v \in Tale,
         OnTheWay(t, m, n, u, v), t.pc \in Ended, NEW h, Knows(route.client, h, t), ~Passthrough
  PROVE  Outcome(h)
<1>1. /\ SameWords(h.said, t.c) /\ h.usage = t.usage /\ h.why = t.why
      /\ (route.client = "responses" => h.final = t.c.items)
  BY DEF Knows
<1>2. m.pc \in Ended
  BY ToldTheEnd
<1>3. /\ m.pc = "over" /\ u.pc = "over" /\ up.complete
      /\ m.c = said /\ m.signed = up.signed /\ m.why = ReasonOf(up.why)
      /\ In("messages") => SameBill(m.usage)
      /\ ~In("messages") => u.usage = bill /\ m.usage = Filled(Filled(InUsage(bill)))
  BY <1>2, WayEnds
<1>4. SecondMakes(route.client, m, outward, t, route.include) /\ Noted(m, u)
  BY WayParts
<1>5. /\ None \notin Nat /\ bill \in Usage /\ m.usage \in Usage
      /\ (route.up = "chat" \/ route.up = "messages" \/ route.up = "responses")
      /\ (route.client = "chat" \/ route.client = "messages" \/ route.client = "responses")
  BY SourceParts, RouteIsRoute, TaleParts DEF Dialect
<1>6. /\ Told(m.usage) = Billed /\ Told(Totals(m.usage)) = Totals(Billed)
      /\ bill = NoUsage => Billed = ZeroUsage /\ Totals(Billed) = ZeroUsage
      /\ bill # NoUsage => m.usage # NoUsage
  BY <1>3, <1>5, MadeUsage
<1>7. CASE route.client = "messages"
  <2>1. t = Closed(m)
    BY <1>4, <1>7 DEF SecondMakes
  <2>2. t.c = m.c /\ t.why = m.why /\ t.usage = m.usage
    BY <2>1, ClosedParts
  <2>3. ~In("messages")
    BY <1>7 DEF In, Passthrough
  <2>4. pump.usage = InUsage(bill)
    BY <1>3, <1>4, <1>7, <2>3 DEF Noted
  <2>5. Told(pump.usage) = Billed
    BY <1>5, <2>3, <2>4, InUsageTold DEF Billed
  <2>6. Told(h.usage) = EndUsage
    BY <1>1, <1>6, <1>7, <2>2 DEF EndUsage
  <2>7. h.why = EndReason
    BY <1>1, <1>3, <1>7, <2>2 DEF EndReason
  <2> QED BY <1>1, <1>3, <1>7, <2>2, <2>5, <2>6, <2>7 DEF Outcome, Captures
<1>8. CASE route.client \in {"chat", "responses"}
  <2>1. pump.usage = m.usage /\ pump.capture = TakenDown(route.client, m)
    BY <1>3, <1>4, <1>8 DEF Noted
  <2>2. Captures /\ up.signed # <<>> /\ Calls # <<>> => pump.capture # NoCapture
    <3>1. SUFFICES ASSUME up.signed # <<>>, Calls # <<>> PROVE pump.capture # NoCapture
      OBVIOUS
    <3>2. CallIds(m.c) = Calls
      BY <1>3 DEF CallIds, Calls
    <3>3. pump.capture = [thinking |-> up.signed, ids |-> Calls]
      BY <1>2, <1>3, <1>8, <2>1, <3>1, <3>2 DEF TakenDown
    <3> QED BY <3>1, <3>3 DEF NoCapture
  <2>3. CASE route.client = "chat"
    <3>1. ChatMade(m, outward, t, route.include)
      BY <1>3, <1>4, <2>3 DEF SecondMakes
    <3>2. /\ SameWords(t.c, m.c) /\ t.why = StopToFinish(m.why)
          /\ t.usage = IF route.include /\ m.usage # NoUsage THEN Totals(m.usage) ELSE NoUsage
      BY <1>2, <3>1 DEF ChatMade
    <3>3. SameWords(h.said, said)
      BY <1>1, <1>3, <3>2 DEF SameWords
    <3>4. h.why = EndReason
      <4>1. h.why = StopToFinish(ReasonOf(up.why)) /\ ~In("chat")
        BY <1>1, <1>3, <2>3, <3>2 DEF In, Passthrough
      <4> QED BY <2>3, <4>1 DEF EndReason, ReasonOf, StopToFinish
    <3>5. Told(h.usage) = EndUsage
      <4>1. Told(NoUsage) = ZeroUsage
        BY <1>5, ToldZero
      <4> QED BY <1>1, <1>6, <2>3, <3>2, <4>1 DEF EndUsage
    <3> QED BY <1>6, <2>1, <2>2, <2>3, <3>3, <3>4, <3>5 DEF Outcome
  <2>4. CASE route.client = "responses"
    <3>1. ResponsesMade(m, outward, t)
      BY <1>3, <1>4, <2>4 DEF SecondMakes
    <3>2. /\ t.c = m.c /\ t.usage = IF m.usage = NoUsage THEN NoUsage ELSE Totals(m.usage)
      BY <1>2, <3>1 DEF ResponsesMade
    <3>3. SameWords(h.said, said) /\ h.final = said.items
      BY <1>1, <1>3, <2>4, <3>2 DEF SameWords
    <3>4. Told(h.usage) = EndUsage
      <4>1. Told(NoUsage) = ZeroUsage
        BY <1>5, ToldZero
      <4> QED BY <1>1, <1>6, <2>4, <3>2, <4>1 DEF EndUsage
    <3> QED BY <1>6, <2>1, <2>2, <2>4, <3>3, <3>4 DEF Outcome
  <2> QED BY <1>8, <2>3, <2>4
<1> QED BY <1>5, <1>7, <1>8

-----------------------------------------------------------------------------
(* What always holds *)

\* What the client has heard is the tale a; what it will have heard of the batch is t; and the
\* rest of what the upstream has said comes to it through the stages.
Telling(a, t) ==
  /\ Reads(route.client, heard, a)
  /\ Along("gateway", route.client, a, frames, t)
  /\ Beginning(t.c, said)
Coming(t) == \E m, n, u, v \in Tale : OnTheWay(t, m, n, u, v)
StoryInv ==
  pump.pc \in {"read", "convert", "send"} =>
    \E a, t \in Tale : Telling(a, t) /\ (~pump.failed => Coming(t))

\* A read is converted whole; a client that waits to be told more has been told something.
RestInv ==
  /\ pump.pc \in {"read", "send"} => pump.chunk = <<>> /\ pump.mid = <<>>
  /\ pump.pc \in {"send", "closing"} => pump.committed
HeardInv ==
  /\ ~heard.confused /\ (heard.closed => heard.end # "no")
  /\ Beginning(heard.said, said)
  /\ heard.end = "over" => Outcome(heard)
Kept == [thinking |-> up.signed, ids |-> Calls]
AccountInv ==
  /\ pump.capture # NoCapture => up.complete /\ pump.capture = Kept
  /\ pump.pc # "ended" => log.capture = NoCapture
  /\ log.capture \in {NoCapture, pump.capture}
  /\ pump.pc = "ended" /\ heard.end = "over" =>
       log.capture = pump.capture /\ log.usage = pump.usage
KeepInv == StoryInv /\ RestInv /\ HeardInv /\ AccountInv

-----------------------------------------------------------------------------
(* What of it a step leaves alone *)

LEMMA StoryBy ==
  ASSUME NEW a \in Tale, NEW t \in Tale, Telling(a, t)', ~pump'.failed => Coming(t)'
  PROVE  StoryInv'
BY DEF StoryInv

LEMMA WayNext ==
  ASSUME route' = route, NEW t \in Tale, NEW m \in Tale, NEW n \in Tale, NEW u \in Tale,
         NEW v \in Tale,
         Along(route.up, route.up, u, pump'.chunk \o wire', v),
         ~Passthrough => Along(route.up, "messages", m, pump'.mid, n),
         Source(v)', Passthrough => PassedOn(u, t)',
         ~Passthrough =>
           /\ FirstMakes(route.up, u, inward', n)
           /\ SecondMakes(route.client, m, outward', t, route.include)
           /\ Noted(m, u)'
  PROVE  Coming(t)'
<1>1. OnTheWay(t, m, n, u, v)'
  BY DEF OnTheWay, Flow, Passthrough
<1> QED BY <1>1 DEF Coming

LEMMA TellingNext ==
  ASSUME route' = route, NEW a, NEW t, Reads(route.client, heard', a),
         Along("gateway", route.client, a, frames', t), Beginning(t.c, said')
  PROVE  Telling(a, t)'
BY DEF Telling

\* What the task has noted stays when it notes nothing.
LEMMA NotedStays ==
  ASSUME NEW m, NEW u, Noted(m, u), route' = route, pump'.usage = pump.usage,
         pump'.capture = pump.capture
  PROVE  Noted(m, u)'
BY DEF Noted, In

LEMMA PassedOnStays ==
  ASSUME NEW t, NEW v, PassedOn(t, v), route' = route, outward' = outward,
         pump'.usage = pump.usage, pump'.capture = pump.capture
  PROVE  PassedOn(t, v)'
BY DEF PassedOn, In

\* What is on the way stays there while the task and the upstream only pass it along.
LEMMA WayStays ==
  ASSUME TypeInv, NEW t \in Tale, NEW m \in Tale, NEW n \in Tale, NEW u \in Tale, NEW v \in Tale,
         OnTheWay(t, m, n, u, v),
         UNCHANGED <<route, inward, outward>>, pump'.usage = pump.usage,
         pump'.capture = pump.capture, pump'.mid = pump.mid,
         NEW w \in Tale, Along(route.up, route.up, u, pump'.chunk \o wire', w), Source(w)'
  PROVE  Coming(t)'
<1>1. /\ Passthrough => PassedOn(u, t)
      /\ ~Passthrough =>
           /\ FirstMakes(route.up, u, inward, n)
           /\ SecondMakes(route.client, m, outward, t, route.include) /\ Noted(m, u)
  BY WayParts
<1>2. Passthrough => PassedOn(u, t)'
  BY <1>1, PassedOnStays
<1>3. ~Passthrough => Noted(m, u)'
  BY <1>1, NotedStays
<1>4. ~Passthrough => Along(route.up, "messages", m, pump'.mid, n)
  BY DEF OnTheWay
<1> QED BY <1>1, <1>2, <1>3, <1>4, WayNext

LEMMA OutcomeStays ==
  ASSUME NEW h, Outcome(h), UNCHANGED <<route, said>>, up'.why = up.why, up'.signed = up.signed,
         pump'.usage = pump.usage, pump'.capture = pump.capture
  PROVE  /\ SameWords(h.said, said')
         /\ route'.client # "responses" => h.why = EndReason'
         /\ route'.client = "responses" => h.final = said'.items
         /\ Told(h.usage) = EndUsage' /\ Told(pump'.usage) = Billed'
         /\ Captures' /\ up'.signed # <<>> /\ Calls' # <<>> => pump'.capture # NoCapture
<1>1. EndReason' = EndReason
  BY DEF EndReason, ReasonOf, In
<1>2. Billed' = Billed
  BY DEF Billed, In, bill
<1>3. EndUsage' = EndUsage
  BY <1>2 DEF EndUsage, Passthrough, bill
<1>4. Calls' = Calls /\ Captures' = Captures
  BY DEF Calls, Captures, Passthrough
<1> QED BY <1>1, <1>2, <1>3, <1>4 DEF Outcome

\* What the client has heard stays what it should hear when it hears nothing.
LEMMA HeardStays ==
  ASSUME HeardInv, UNCHANGED <<route, said>>, up'.why = up.why, up'.signed = up.signed,
         heard'.confused = heard.confused, heard'.closed = heard.closed, heard'.end = heard.end,
         heard'.said = heard.said, heard'.why = heard.why, heard'.final = heard.final,
         heard'.usage = heard.usage,
         heard.end = "over" => pump'.usage = pump.usage /\ pump'.capture = pump.capture
  PROVE  HeardInv'
<1>1. ASSUME heard.end = "over" PROVE Outcome(heard)'
  <2>1. Outcome(heard)
    BY <1>1 DEF HeardInv
  <2>2. pump'.usage = pump.usage /\ pump'.capture = pump.capture
    BY <1>1
  <2>3. PICK h : h = heard
    OBVIOUS
  <2>4. Outcome(h)
    BY <2>1, <2>3
  <2>5. /\ SameWords(h.said, said')
        /\ route'.client # "responses" => h.why = EndReason'
        /\ route'.client = "responses" => h.final = said'.items
        /\ Told(h.usage) = EndUsage' /\ Told(pump'.usage) = Billed'
        /\ Captures' /\ up'.signed # <<>> /\ Calls' # <<>> => pump'.capture # NoCapture
    BY <2>2, <2>4, OutcomeStays
  <2> QED BY <2>3, <2>5 DEF Outcome
<1> QED BY <1>1 DEF HeardInv

LEMMA HeardNothingYet ==
  ASSUME HeardInv, heard' = heard, heard.end # "over", Beginning(heard.said, said')
  PROVE  HeardInv'
BY DEF HeardInv

LEMMA AccountStays ==
  ASSUME AccountInv, log' = log,
         pump'.pc # "ended" \/ heard'.end # "over", pump.pc # "ended",
         pump'.capture = pump.capture, pump'.usage = pump.usage,
         up.complete => up'.complete /\ up'.signed = up.signed /\ said' = said
  PROVE  AccountInv'
<1>1. log'.capture = NoCapture
  BY DEF AccountInv
<1>2. pump'.capture # NoCapture => up'.complete /\ pump'.capture = Kept'
  BY DEF AccountInv, Kept, Calls
<1> QED BY <1>1, <1>2 DEF AccountInv

-----------------------------------------------------------------------------
(* The task keeps it *)

\* The task goes on without touching what it carries.
LEMMA TaskGoesOn ==
  ASSUME TypeInv, KeepInv, Frozen, UNCHANGED <<inward, outward, frames>>,
         pump'.chunk \o wire' = pump.chunk \o wire, pump'.mid = pump.mid,
         pump'.usage = pump.usage, pump'.capture = pump.capture, pump'.failed = pump.failed,
         pump.pc \in {"read", "convert", "send"}, pump'.pc # "ended", RestInv'
  PROVE  KeepInv'
<1>0. /\ route' = route /\ up' = up /\ said' = said /\ heard' = heard /\ log' = log
      /\ inward' = inward /\ outward' = outward /\ frames' = frames
      /\ StoryInv /\ HeardInv /\ AccountInv
  BY DEF Frozen, upstream, KeepInv
<1>1. PICK a \in Tale, t \in Tale : Telling(a, t) /\ (~pump.failed => Coming(t))
  BY <1>0 DEF StoryInv
<1>2. Telling(a, t)'
  BY <1>0, <1>1 DEF Telling
<1>3. ASSUME ~pump'.failed PROVE Coming(t)'
  <2>1. Coming(t)
    BY <1>1, <1>3
  <2>2. PICK m \in Tale, n \in Tale, u \in Tale, v \in Tale : OnTheWay(t, m, n, u, v)
    BY <2>1 DEF Coming
  <2>3. Along(route.up, route.up, u, pump'.chunk \o wire', v)
    BY <2>2 DEF OnTheWay
  <2>4. Source(v)
    BY <2>2, WayParts
  <2>5. Source(v)'
    BY <1>0, <2>4, SourceStays
  <2> QED BY <1>0, <2>2, <2>3, <2>5, WayStays
<1>4. StoryInv'
  BY <1>2, <1>3, StoryBy
<1>5. HeardInv'
  BY <1>0, HeardStays
<1>6. pump.pc # "ended"
  OBVIOUS
<1>7. AccountInv'
  BY <1>0, <1>6, AccountStays
<1> QED BY <1>4, <1>5, <1>7 DEF KeepInv

\* The task stops.
LEMMA TaskStops ==
  ASSUME TypeInv, KeepInv, UNCHANGED <<route, upstream, log>>,
         pump'.usage = pump.usage, pump'.capture = pump.capture,
         pump'.pc \in {"failover", "closing", "ended"}, pump.pc # "ended",
         pump'.pc = "closing" => pump.committed /\ pump'.committed,
         pump'.pc = "ended" => heard.end # "over",
         heard'.confused = heard.confused, heard'.closed = heard.closed, heard'.end = heard.end,
         heard'.said = heard.said, heard'.why = heard.why, heard'.final = heard.final,
         heard'.usage = heard.usage
  PROVE  KeepInv'
<1>0. /\ route' = route /\ up' = up /\ said' = said /\ log' = log /\ HeardInv /\ AccountInv
  BY DEF upstream, KeepInv
<1>1. StoryInv'
  BY DEF StoryInv
<1>2. RestInv'
  BY DEF RestInv
<1>3. HeardInv'
  BY <1>0, HeardStays
<1>4. AccountInv'
  BY <1>0, AccountStays, SMTT(30)
<1> QED BY <1>1, <1>2, <1>3, <1>4 DEF KeepInv

LEMMA CutJoined ==
  ASSUME NEW S, NEW s \in Seq(S), NEW n \in 0 .. Len(s)
  PROVE  SubSeq(s, 1, n) \o SubSeq(s, n + 1, Len(s)) = s
<1>1. 1 \in 1 .. Len(s) + 1 /\ n \in 1 - 1 .. Len(s) /\ Len(s) \in n .. Len(s)
  OBVIOUS
<1>2. SubSeq(s, 1, n) \o SubSeq(s, n + 1, Len(s)) = SubSeq(s, 1, Len(s))
  BY <1>1, ConcatAdjacentSubSeq
<1>3. SubSeq(s, 1, Len(s)) = s
  BY SubSeqFull
<1> QED BY <1>2, <1>3

LEMMA ReadKeepsAll ==
  ASSUME TypeInv, IInv, KeepInv, Read
  PROVE  KeepInv'
<1>1. PICK n \in 0 .. Len(wire) :
        /\ pump' = [pump EXCEPT !.pc = "convert", !.chunk = SubSeq(wire, 1, n)]
        /\ wire' = SubSeq(wire, n + 1, Len(wire))
  BY DEF Read
<1>2. pump \in PumpRecord /\ wire \in Seq(Msg) /\ pump.pc = "read" /\ pump.chunk = <<>>
  BY TaskParts DEF Read, KeepInv, RestInv
<1>3. /\ pump'.pc = "convert" /\ pump'.chunk = SubSeq(wire, 1, n) /\ pump'.mid = pump.mid
      /\ pump'.usage = pump.usage /\ pump'.capture = pump.capture /\ pump'.failed = pump.failed
  BY <1>1, <1>2 DEF PumpRecord
<1>4. SubSeq(wire, 1, n) \o SubSeq(wire, n + 1, Len(wire)) = wire
  BY <1>2, CutJoined
<1>5. <<>> \o wire = wire
  BY <1>2
<1>6. pump'.chunk \o wire' = pump.chunk \o wire
  BY <1>1, <1>2, <1>3, <1>4, <1>5
<1>7. RestInv'
  BY <1>3 DEF RestInv
<1> QED BY <1>2, <1>3, <1>6, <1>7, TaskGoesOn DEF Read

LEMMA ElapseKeepsAll ==
  ASSUME TypeInv, IInv, KeepInv, Elapse
  PROVE  KeepInv'
<1>1. pump \in PumpRecord /\ pump' = [pump EXCEPT !.waited = TRUE] /\ wire' = wire
  BY TaskParts DEF Elapse
<1>2. /\ pump'.pc = pump.pc /\ pump'.chunk = pump.chunk /\ pump'.mid = pump.mid
      /\ pump'.usage = pump.usage /\ pump'.capture = pump.capture /\ pump'.failed = pump.failed
      /\ pump'.committed = pump.committed
  BY <1>1 DEF PumpRecord
<1>3. RestInv'
  BY <1>2 DEF RestInv, KeepInv
<1> QED BY <1>1, <1>2, <1>3, TaskGoesOn DEF Elapse

LEMMA FruitlessKeepsAll ==
  ASSUME TypeInv, IInv, KeepInv, Fruitless
  PROVE  KeepInv'
<1>1. pump \in PumpRecord /\ pump' = [pump EXCEPT !.pc = "read"] /\ wire' = wire
  BY TaskParts DEF Fruitless, Become
<1>2. /\ pump'.pc = "read" /\ pump'.chunk = pump.chunk /\ pump'.mid = pump.mid
      /\ pump'.usage = pump.usage /\ pump'.capture = pump.capture /\ pump'.failed = pump.failed
      /\ pump'.committed = pump.committed
  BY <1>1 DEF PumpRecord
<1>3. RestInv'
  BY <1>2 DEF RestInv, Fruitless, Converted
<1> QED BY <1>1, <1>2, <1>3, TaskGoesOn DEF Fruitless, Converted

LEMMA SentKeepsAll ==
  ASSUME TypeInv, IInv, KeepInv, Sent
  PROVE  KeepInv'
<1>1. pump \in PumpRecord /\ pump' = [pump EXCEPT !.pc = "read", !.waited = FALSE] /\ wire' = wire
  BY TaskParts DEF Sent, Become
<1>2. /\ pump'.pc = "read" /\ pump'.chunk = pump.chunk /\ pump'.mid = pump.mid
      /\ pump'.usage = pump.usage /\ pump'.capture = pump.capture /\ pump'.failed = pump.failed
      /\ pump'.committed = pump.committed
  BY <1>1 DEF PumpRecord
<1>3. RestInv'
  BY <1>2 DEF RestInv, KeepInv, Sent
<1> QED BY <1>1, <1>2, <1>3, TaskGoesOn DEF Sent

\* A candidate is given up.
LEMMA GiveUpKeepsAll ==
  ASSUME TypeInv, IInv, KeepInv, GiveUp, Frozen, pump.pc # "ended"
  PROVE  KeepInv'
<1>1. pump \in PumpRecord /\ pump' = [pump EXCEPT !.pc = "failover"]
  BY TaskParts DEF GiveUp, Become
<1>2. pump'.pc = "failover" /\ pump'.usage = pump.usage /\ pump'.capture = pump.capture
  BY <1>1 DEF PumpRecord
<1>3. UNCHANGED <<route, upstream, log>> /\ heard' = heard
  BY DEF Frozen
<1> QED BY <1>2, <1>3, TaskStops

LEMMA FruitfulKeepsAll ==
  ASSUME TypeInv, IInv, KeepInv, Fruitful
  PROVE  KeepInv'
<1>0. Frozen /\ UNCHANGED <<wire, inward, outward>> /\ pump.pc = "convert"
      /\ pump.chunk = <<>> /\ pump.mid = <<>>
  BY DEF Fruitful, Converted
<1>a. CASE GiveUp
  BY <1>0, <1>a, GiveUpKeepsAll
<1>b. CASE pump' = [pump EXCEPT !.pc = "send", !.committed = TRUE] /\ frames' = frames
  <2>1. pump \in PumpRecord
    BY TaskParts
  <2>2. /\ pump'.pc = "send" /\ pump'.chunk = pump.chunk /\ pump'.mid = pump.mid
        /\ pump'.usage = pump.usage /\ pump'.capture = pump.capture
        /\ pump'.failed = pump.failed /\ pump'.committed
    BY <1>b, <2>1 DEF PumpRecord
  <2>3. RestInv'
    BY <1>0, <2>2 DEF RestInv
  <2> QED BY <1>0, <1>b, <2>2, <2>3, TaskGoesOn
<1> QED BY <1>a, <1>b DEF Fruitful, Become

LEMMA SendFailsKeepsAll ==
  ASSUME TypeInv, IInv, KeepInv, SendFails
  PROVE  KeepInv'
<1>1. pump \in PumpRecord /\ pump' = [pump EXCEPT !.pc = "closing"] /\ pump.pc = "send"
  BY TaskParts DEF SendFails, Become
<1>2. /\ pump'.pc = "closing" /\ pump'.usage = pump.usage /\ pump'.capture = pump.capture
      /\ pump'.committed = pump.committed
  BY <1>1 DEF PumpRecord
<1>3. UNCHANGED <<route, upstream, log>> /\ heard' = heard /\ pump.committed
  BY <1>1 DEF SendFails, Frozen, KeepInv, RestInv
<1> QED BY <1>1, <1>2, <1>3, TaskStops

LEMMA SettleKeepsAll ==
  ASSUME TypeInv, IInv, KeepInv, Settle
  PROVE  KeepInv'
<1>1. pump \in PumpRecord /\ pump' = [pump EXCEPT !.pc = "ended"] /\ pump.pc = "closing"
  BY TaskParts DEF Settle, Become
<1>2. pump'.pc = "ended" /\ pump'.usage = pump.usage /\ pump'.capture = pump.capture
  BY <1>1 DEF PumpRecord
<1>3. /\ route' = route /\ up' = up /\ said' = said /\ heard' = heard
      /\ log'.capture = pump.capture /\ log'.usage = pump.usage /\ HeardInv /\ AccountInv
  BY DEF Settle, upstream, KeepInv
<1>4. StoryInv' /\ RestInv'
  BY <1>2 DEF StoryInv, RestInv
<1>5. HeardInv'
  BY <1>2, <1>3, HeardStays
<1>6. Kept' = Kept
  BY <1>3 DEF Kept, Calls
<1>7. AccountInv'
  BY <1>2, <1>3, <1>6 DEF AccountInv
<1> QED BY <1>4, <1>5, <1>7 DEF KeepInv

LEMMA LeaveKeepsAll ==
  ASSUME TypeInv, IInv, KeepInv, Leave
  PROVE  KeepInv'
<1>1. /\ heard' = [heard EXCEPT !.gone = TRUE] /\ pump.pc \in {"read", "send"}
      /\ UNCHANGED <<route, upstream, wire, inward, outward, log>>
      /\ route' = route /\ up' = up /\ said' = said /\ log' = log /\ wire' = wire
      /\ inward' = inward /\ outward' = outward
  BY DEF Leave, upstream
<1>2. heard \in Client /\ pump \in PumpRecord
  BY TaskParts
<1>3. /\ heard'.confused = heard.confused /\ heard'.closed = heard.closed
      /\ heard'.end = heard.end /\ heard'.said = heard.said /\ heard'.why = heard.why
      /\ heard'.final = heard.final /\ heard'.usage = heard.usage
      /\ heard'.on = heard.on /\ heard'.open = heard.open /\ heard'.blocks = heard.blocks
  BY <1>1, <1>2 DEF Client
<1>4. CASE ~pump.committed
  <2>1. pump' = [pump EXCEPT !.pc = "ended"]
    BY <1>4 DEF Leave, Become
  <2>2. pump'.pc = "ended" /\ pump'.usage = pump.usage /\ pump'.capture = pump.capture
    BY <1>2, <2>1 DEF PumpRecord
  <2>3. pump.pc = "read" /\ heard.end # "over"
    BY <1>1, <1>4 DEF KeepInv, RestInv, IInv, TellInv
  <2> QED BY <1>1, <1>3, <2>2, <2>3, TaskStops
<1>5. CASE pump.committed
  <2>1. pump' = pump /\ frames' = frames
    BY <1>5 DEF Leave
  <2>2. StoryInv /\ RestInv /\ HeardInv /\ AccountInv
    BY DEF KeepInv
  <2>3. PICK a \in Tale, t \in Tale : Telling(a, t) /\ (~pump.failed => Coming(t))
    BY <1>1, <2>2 DEF StoryInv
  <2>4. Reads(route.client, heard, a)
    BY <2>3 DEF Telling
  <2>5. Reads(route.client, heard', a)
    BY <1>3, <2>4 DEF Reads
  <2>6. Telling(a, t)'
    BY <1>1, <2>1, <2>3, <2>5 DEF Telling
  <2>7. ASSUME ~pump'.failed PROVE Coming(t)'
    <3>1. Coming(t)
      BY <2>1, <2>3, <2>7
    <3>2. PICK m \in Tale, n \in Tale, u \in Tale, v \in Tale : OnTheWay(t, m, n, u, v)
      BY <3>1 DEF Coming
    <3>3. Along(route.up, route.up, u, pump'.chunk \o wire', v)
      BY <1>1, <2>1, <3>2 DEF OnTheWay
    <3>4. Source(v)
      BY <3>2, WayParts
    <3>5. Source(v)'
      BY <1>1, <3>4, SourceStays
    <3> QED BY <1>1, <2>1, <3>2, <3>3, <3>5, WayStays
  <2>8. StoryInv'
    BY <2>6, <2>7, StoryBy
  <2>9. RestInv'
    BY <2>1, <2>2 DEF RestInv
  <2>10. HeardInv'
    BY <1>1, <1>3, <2>1, <2>2, HeardStays
  <2>11. AccountInv'
    BY <1>1, <1>3, <2>1, <2>2, AccountStays
  <2> QED BY <2>8, <2>9, <2>10, <2>11 DEF KeepInv
<1> QED BY <1>4, <1>5

-----------------------------------------------------------------------------
(* The upstream keeps it *)

\* While the task reads, the tale is on its way.
LEMMA ReadingStory ==
  ASSUME TypeInv, IInv, KeepInv, pump.pc = "read"
  PROVE  /\ pump.chunk = <<>> /\ pump.mid = <<>> /\ ~pump.failed /\ heard.end = "no"
         /\ \E a, t, m, n, u, v \in Tale : Telling(a, t) /\ OnTheWay(t, m, n, u, v)
<1>1. pump.chunk = <<>> /\ pump.mid = <<>>
  BY DEF KeepInv, RestInv
<1>2. ~pump.failed /\ heard.end = "no"
  BY Undecided
<1>3. PICK a \in Tale, t \in Tale : Telling(a, t) /\ Coming(t)
  BY <1>2 DEF KeepInv, StoryInv
<1>4. PICK m \in Tale, n \in Tale, u \in Tale, v \in Tale : OnTheWay(t, m, n, u, v)
  BY <1>3 DEF Coming
<1> QED BY <1>1, <1>2, <1>3, <1>4

LEMMA SpeaksKeepsAll ==
  ASSUME TypeInv, IInv, KeepInv, ~ErrorThenDone, up.pc \in {"start", "open", "block"},
         \/ Begin \/ Piece \/ Fail
         \/ \E kind \in BlockKind : Open(kind)
         \/ \E signed \in BOOLEAN : Shut(signed)
         \/ \E why \in Reason, whole \in BOOLEAN : End(why, whole)
  PROVE  KeepInv'
<1>1. pump.pc = "read"
  BY DEF Begin, Piece, Fail, Open, Shut, End, Speaks
<1>2. /\ pump.chunk = <<>> /\ pump.mid = <<>> /\ ~pump.failed /\ heard.end = "no"
      /\ \E a, t, m, n, u, v \in Tale : Telling(a, t) /\ OnTheWay(t, m, n, u, v)
  BY <1>1, ReadingStory
<1>3. PICK a \in Tale, t \in Tale, m \in Tale, n \in Tale, u \in Tale, v \in Tale :
        Telling(a, t) /\ OnTheWay(t, m, n, u, v)
  BY <1>2
<1>4. Onward(u, v) /\ Source(v)
  BY <1>3, WayParts
<1>5. UpstreamTells(v)
  BY <1>4, UpstreamSpeaks
<1>6. PICK evs \in Seq(Msg), w \in Tale :
        Speaks(evs) /\ Along(route.up, route.up, v, evs, w) /\ Source(w)'
  BY <1>5 DEF UpstreamTells
<1>7. /\ wire' = wire \o evs /\ route' = route /\ inward' = inward /\ outward' = outward
      /\ pump' = pump /\ frames' = frames /\ heard' = heard /\ log' = log
  BY <1>6 DEF Speaks
<1>8. wire \in Seq(Msg) /\ wire' \in Seq(Msg) /\ said' \in Content
  <2>1. TypeInv'
    <3>1. Next
      BY DEF Next, Says
    <3> QED BY <3>1, StepTyped
  <2> QED BY <2>1 DEF TypeInv
<1>9. Along(route.up, route.up, u, wire', w)
  <2>1. Along(route.up, route.up, u, wire, v)
    <3>1. <<>> \o wire = wire
      BY <1>8
    <3> QED BY <1>2, <1>3, <3>1 DEF OnTheWay
  <2> QED BY <1>6, <1>7, <1>8, <2>1, AlongSeqs
<1>10. Along(route.up, route.up, u, pump'.chunk \o wire', w)
  <2>1. <<>> \o wire' = wire'
    BY <1>8
  <2> QED BY <1>2, <1>7, <1>9, <2>1
<1>11. Coming(t)'
  BY <1>3, <1>6, <1>7, <1>10, WayStays
<1>12. Beginning(t.c, said')
  <2>1. Onward(u, w)
    BY <1>8, <1>9, AlongTales
  <2>2. Beginning(t.c, u.c) /\ Beginning(u.c, w.c) /\ Beginning(w.c, said')
    BY <1>3, <1>6, <2>1, WayBegins DEF Onward, Source
  <2> QED BY <1>8, <2>2, TaleParts, BeginningFurther
<1>13. Telling(a, t)'
  BY <1>3, <1>7, <1>12, TellingNext DEF Telling
<1>14. StoryInv'
  BY <1>11, <1>13, StoryBy
<1>15. RestInv'
  BY <1>7 DEF KeepInv, RestInv
<1>16. HeardInv'
  <2>1. SameWords(heard.said, a.c) /\ Along("gateway", route.client, a, frames, t)
    BY <1>3 DEF Telling, Reads
  <2>2. frames \in Seq(Frame)
    BY TaskParts
  <2>3. Onward(a, t)
    BY <2>1, <2>2, AlongTales
  <2>4. Beginning(a.c, said')
    BY <1>8, <1>12, <2>3, TaleParts, BeginningFurther DEF Onward
  <2>5. Beginning(heard.said, said')
    BY <2>1, <2>4, SameWordsBegin
  <2> QED BY <1>2, <1>7, <2>5, HeardNothingYet DEF KeepInv
<1>17. AccountInv'
  <2>1. ~up.complete
    BY DEF IInv, FlowInv
  <2> QED BY <1>1, <1>2, <1>7, <2>1 DEF KeepInv, AccountInv
<1> QED BY <1>14, <1>15, <1>16, <1>17, SMTT(30) DEF KeepInv

LEMMA CloseKeepsAll ==
  ASSUME TypeInv, IInv, KeepInv, Close
  PROVE  KeepInv'
<1>1. /\ pump.pc = "read" /\ up' = [up EXCEPT !.pc = "gone"] /\ wire' \in {wire, <<>>}
      /\ route' = route /\ said' = said /\ inward' = inward /\ outward' = outward
      /\ pump' = pump /\ frames' = frames /\ heard' = heard /\ log' = log /\ up \in Upstream
  BY TaskParts, SourceParts DEF Close
<1>2. /\ pump.chunk = <<>> /\ pump.mid = <<>> /\ ~pump.failed /\ heard.end = "no"
      /\ \E a, t, m, n, u, v \in Tale : Telling(a, t) /\ OnTheWay(t, m, n, u, v)
  BY <1>1, ReadingStory
<1>3. PICK a \in Tale, t \in Tale, m \in Tale, n \in Tale, u \in Tale, v \in Tale :
        Telling(a, t) /\ OnTheWay(t, m, n, u, v)
  BY <1>2
<1>4. Onward(u, v) /\ Source(v) /\ Onward(v, v) /\ wire \in Seq(Msg)
  BY <1>3, WayParts, OnwardItself, TaskParts
<1>5. Source(v)' /\ Source(u)'
  BY <1>4, CloseTells
<1>6. \E w \in Tale : Along(route.up, route.up, u, pump'.chunk \o wire', w) /\ Source(w)'
  <2>1. CASE wire' = wire
    <3>1. Along(route.up, route.up, u, pump'.chunk \o wire', v)
      BY <1>1, <1>3, <2>1 DEF OnTheWay
    <3> QED BY <1>5, <3>1
  <2>2. CASE wire' = <<>>
    <3>1. pump'.chunk \o wire' = <<>>
      BY <1>1, <1>2, <2>2
    <3>2. PICK d : d = route.up
      OBVIOUS
    <3>3. Along(d, d, u, <<>>, u)
      BY AlongNone
    <3> QED BY <1>5, <3>1, <3>2, <3>3
  <2> QED BY <1>1, <2>1, <2>2
<1>7. PICK w \in Tale : Along(route.up, route.up, u, pump'.chunk \o wire', w) /\ Source(w)'
  BY <1>6
<1>8. Coming(t)'
  BY <1>1, <1>3, <1>7, WayStays
<1>9. Telling(a, t)'
  BY <1>1, <1>3 DEF Telling
<1>10. StoryInv'
  BY <1>8, <1>9, StoryBy
<1>11. up'.why = up.why /\ up'.signed = up.signed /\ up'.complete = up.complete
  BY <1>1 DEF Upstream
<1>12. RestInv'
  BY <1>1 DEF KeepInv, RestInv
<1>13. HeardInv'
  BY <1>1, <1>11, HeardStays DEF KeepInv
<1>14. AccountInv'
  BY <1>1, <1>11, AccountStays DEF KeepInv
<1> QED BY <1>10, <1>12, <1>13, <1>14 DEF KeepInv

-----------------------------------------------------------------------------
(* Errors keep it *)

LEMMA ApologyLeads ==
  ASSUME NEW d \in Dialect, NEW t \in Tale, t.pc \notin Ended
  PROVE  \E v \in Tale : Along("gateway", d, t, Apology, v) /\ v.c = t.c
<1>1. Bare("error") \in Frame /\ IsError(Bare("error")) /\ Bare("error").e # "response.failed"
  BY BareIsFailing, MsgIsEvent DEF Failing, IsError, Bare
<1>2. \E v \in Tale : Goes("gateway", d, t, Bare("error"), v) /\ v.pc = "error" /\ v.c = t.c
  <2>1. PICK f \in Frame : f = Bare("error")
    BY <1>1
  <2>2. PICK g \in Teller : g = "gateway"
    BY TellersAre
  <2>3. IsError(f) /\ (f.e = "response.failed" => d = "responses")
    BY <1>1, <2>1
  <2>4. PICK v \in Tale : Goes(g, d, t, f, v) /\ v.pc = "error" /\ v.c = t.c
    BY <2>3, FailureIs
  <2> QED BY <2>1, <2>2, <2>4
<1>3. PICK v \in Tale : Goes("gateway", d, t, Bare("error"), v) /\ v.pc = "error" /\ v.c = t.c
  BY <1>2
<1>4. PICK w \in Tale : Goes("gateway", d, v, Done, w) /\ w.c = v.c
  BY <1>3, DoneIs
<1>5. Along("gateway", d, t, <<Bare("error"), Done>>, w)
  BY <1>3, <1>4, AlongPair
<1> QED BY <1>3, <1>4, <1>5 DEF Apology

LEMMA MarkLeads ==
  ASSUME NEW d \in Dialect, NEW t \in Tale, t.pc = "error"
  PROVE  \E v \in Tale : Along("gateway", d, t, <<Done>>, v) /\ v.c = t.c
<1>1. PICK v \in Tale : Goes("gateway", d, t, Done, v) /\ v.c = t.c
  BY DoneIs
<1> QED BY <1>1, AlongOne

\* The client is told of the error after what it is told of the answer.
LEMMA ErrorKeepsAll ==
  ASSUME TypeInv, IInv, KeepInv, UNCHANGED <<route, upstream, heard, log>>,
         pump.pc \in {"read", "convert"}, pump'.pc = "send", pump'.failed,
         pump.committed, pump'.committed, pump'.chunk = <<>>, pump'.mid = <<>>,
         pump'.usage = pump.usage, pump'.capture = pump.capture,
         NEW a \in Tale, NEW t \in Tale, NEW w \in Tale, Telling(a, t),
         Along("gateway", route.client, a, frames', w), w.c = t.c
  PROVE  KeepInv'
<1>1. /\ route' = route /\ up' = up /\ said' = said /\ heard' = heard /\ log' = log
  BY DEF upstream
<1>2. Telling(a, w)'
  BY <1>1, TellingNext DEF Telling
<1>3. StoryInv'
  BY <1>2, StoryBy
<1>4. RestInv'
  BY DEF RestInv
<1>5. HeardInv'
  BY <1>1, HeardStays DEF KeepInv
<1>6. pump'.pc # "ended" /\ pump.pc # "ended"
  OBVIOUS
<1>7. AccountInv'
  BY <1>1, <1>6, AccountStays DEF KeepInv
<1> QED BY <1>3, <1>4, <1>5, <1>7 DEF KeepInv

LEMMA FailedKeepsAll ==
  ASSUME TypeInv, IInv, KeepInv, Failed
  PROVE  KeepInv'
<1>0. /\ UNCHANGED <<route, upstream, heard, log>> /\ Frozen /\ pump.pc = "convert" /\ pump.error
      /\ pump.chunk = <<>> /\ pump.mid = <<>> /\ pump \in PumpRecord /\ frames \in Seq(Frame)
  BY TaskParts DEF Failed, Converted, Frozen
<1>1. CASE GiveUp
  BY <1>0, <1>1, GiveUpKeepsAll
<1>2. CASE /\ pump.committed /\ pump' = [pump EXCEPT !.pc = "send", !.failed = TRUE]
           /\ frames' = frames \o IF HasErrorEvent THEN <<Done>> ELSE Apology
  <2>1. /\ pump'.pc = "send" /\ pump'.failed /\ pump'.committed = pump.committed
        /\ pump'.chunk = pump.chunk /\ pump'.mid = pump.mid
        /\ pump'.usage = pump.usage /\ pump'.capture = pump.capture
    BY <1>0, <1>2 DEF PumpRecord
  <2>2. ~pump.failed /\ ~up.complete
    BY <1>0, Undecided DEF IInv, FlowInv, Lost
  <2>3. PICK a \in Tale, t \in Tale : Telling(a, t) /\ Coming(t)
    BY <1>0, <2>2 DEF KeepInv, StoryInv
  <2>4. PICK m \in Tale, n \in Tale, u \in Tale, v \in Tale : OnTheWay(t, m, n, u, v)
    BY <2>3 DEF Coming
  <2>5. t.pc \notin Ended
    BY <2>2, <2>4, EndIsTheEnd
  <2>6. PICK d \in Dialect : d = route.client
    BY RouteIsRoute
  <2>7. Along("gateway", d, a, frames, t)
    BY <2>3, <2>6 DEF Telling
  <2>8. <<Done>> \in Seq(Frame) /\ Apology \in Seq(Frame)
    BY ApologyIsFrames
  <2>9. \E w \in Tale : Along("gateway", d, a, frames', w) /\ w.c = t.c
    <3>1. CASE HasErrorEvent
      <4>1. PICK k \in DOMAIN frames : IsError(frames[k])
        BY <3>1 DEF HasErrorEvent
      <4>2. t.pc = "error"
        BY <1>0, <2>7, <4>1, AlongError
      <4>3. PICK w \in Tale : Along("gateway", d, t, <<Done>>, w) /\ w.c = t.c
        BY <4>2, MarkLeads
      <4>4. Along("gateway", d, a, frames \o <<Done>>, w)
        BY <1>0, <2>7, <2>8, <4>3, AlongJoin
      <4> QED BY <1>2, <3>1, <4>3, <4>4
    <3>2. CASE ~HasErrorEvent
      <4>3. PICK w \in Tale : Along("gateway", d, t, Apology, w) /\ w.c = t.c
        BY <2>5, ApologyLeads
      <4>4. Along("gateway", d, a, frames \o Apology, w)
        BY <1>0, <2>7, <2>8, <4>3, AlongJoin
      <4> QED BY <1>2, <3>2, <4>3, <4>4
    <3> QED BY <3>1, <3>2
  <2>10. PICK w \in Tale : Along("gateway", route.client, a, frames', w) /\ w.c = t.c
    BY <2>6, <2>9
  <2>11. pump.pc \in {"read", "convert"} /\ pump.committed /\ pump'.committed
         /\ pump'.chunk = <<>> /\ pump'.mid = <<>>
    BY <1>0, <1>2, <2>1
  <2> QED BY <1>0, <2>1, <2>3, <2>10, <2>11, ErrorKeepsAll
<1> QED BY <1>1, <1>2 DEF Failed, Become

LEMMA BrokenKeepsAll ==
  ASSUME TypeInv, IInv, KeepInv, Broken
  PROVE  KeepInv'
<1>0. /\ UNCHANGED <<route, upstream, heard, log>> /\ Frozen /\ pump.pc = "read"
      /\ pump \in PumpRecord /\ frames = <<>>
  BY TaskParts DEF Broken, Frozen, IInv, BatchInv
<1>1. CASE GiveUp
  BY <1>0, <1>1, GiveUpKeepsAll
<1>2. CASE /\ pump.committed /\ pump' = [pump EXCEPT !.pc = "send", !.failed = TRUE]
           /\ frames' = Apology
  <2>1. /\ pump'.pc = "send" /\ pump'.failed /\ pump'.committed = pump.committed
        /\ pump'.chunk = pump.chunk /\ pump'.mid = pump.mid
        /\ pump'.usage = pump.usage /\ pump'.capture = pump.capture
    BY <1>0, <1>2 DEF PumpRecord
  <2>2. /\ pump.chunk = <<>> /\ pump.mid = <<>> /\ heard.end = "no"
        /\ \E a, t, m, n, u, v \in Tale : Telling(a, t) /\ OnTheWay(t, m, n, u, v)
    BY <1>0, ReadingStory
  <2>3. PICK a \in Tale, t \in Tale : Telling(a, t)
    BY <2>2
  <2>4. PICK d \in Dialect : d = route.client
    BY RouteIsRoute
  <2>5. Along("gateway", d, a, <<>>, t) /\ Reads(d, heard, a)
    BY <1>0, <2>3, <2>4 DEF Telling
  <2>6. t = a
    BY <2>5, AlongNowhere
  <2>7. a.pc \notin Ended
    BY <2>2, <2>5 DEF Reads
  <2>8. PICK w \in Tale : Along("gateway", d, a, Apology, w) /\ w.c = a.c
    BY <2>7, ApologyLeads
  <2>9. Along("gateway", route.client, a, frames', w) /\ w.c = t.c
    BY <1>2, <2>4, <2>6, <2>8
  <2>10. pump.pc \in {"read", "convert"} /\ pump.committed /\ pump'.committed
         /\ pump'.chunk = <<>> /\ pump'.mid = <<>>
    BY <1>0, <1>2, <2>1, <2>2
  <2> QED BY <1>0, <2>1, <2>3, <2>9, <2>10, ErrorKeepsAll
<1> QED BY <1>1, <1>2 DEF Broken, Become

-----------------------------------------------------------------------------
(* The converters keep it *)

LEMMA HeadOfJoined ==
  ASSUME NEW S, NEW q \in Seq(S), q # <<>>, NEW r \in Seq(S)
  PROVE  /\ Head(q \o r) = Head(q) /\ Tail(q \o r) = Tail(q) \o r
         /\ q \o r \in Seq(S) /\ q \o r # <<>>
<1> DEFINE a == Tail(q \o r)
           b == Tail(q) \o r
<1>1. q \o r \in Seq(S) /\ Len(q \o r) = Len(q) + Len(r) /\ Len(q) # 0 /\ q \o r # <<>>
  OBVIOUS
<1>2. Head(q \o r) = Head(q)
  BY <1>1
<1>3. /\ a \in Seq(S) /\ Len(a) = Len(q) + Len(r) - 1
      /\ \A k \in 1 .. Len(q) + Len(r) - 1 : a[k] = (q \o r)[k + 1]
  BY <1>1, HeadsAndTails
<1>4. /\ Tail(q) \in Seq(S) /\ Len(Tail(q)) = Len(q) - 1
      /\ \A k \in 1 .. Len(q) - 1 : Tail(q)[k] = q[k + 1]
  BY <1>1, HeadsAndTails
<1>5. b \in Seq(S) /\ Len(b) = Len(q) + Len(r) - 1
  BY <1>4
<1>6. ASSUME NEW k \in 1 .. Len(q) + Len(r) - 1 PROVE a[k] = b[k]
  <2>1. CASE k <= Len(q) - 1
    <3>1. k \in 1 .. Len(q) - 1 /\ k + 1 \in 1 .. Len(q)
      BY <2>1
    <3>2. a[k] = q[k + 1]
      BY <1>3, <3>1
    <3>3. b[k] = q[k + 1]
      BY <1>4, <3>1
    <3> QED BY <3>2, <3>3
  <2>2. CASE k > Len(q) - 1
    <3>1. k - (Len(q) - 1) \in 1 .. Len(r) /\ k + 1 - Len(q) = k - (Len(q) - 1)
      BY <2>2
    <3>2. a[k] = r[k + 1 - Len(q)]
      BY <1>3, <2>2, <3>1
    <3>3. b[k] = r[k - (Len(q) - 1)]
      BY <1>4, <2>2, <3>1
    <3> QED BY <3>1, <3>2, <3>3
  <2> QED BY <2>1, <2>2
<1> HIDE DEF a, b
<1>7. a = b
  BY <1>3, <1>5, <1>6
<1> QED BY <1>1, <1>2, <1>7 DEF a, b

LEMMA ConvertingStory ==
  ASSUME TypeInv, IInv, KeepInv, pump.pc = "convert"
  PROVE  /\ ~pump.failed /\ heard.end = "no"
         /\ \E a, t, m, n, u, v \in Tale : Telling(a, t) /\ OnTheWay(t, m, n, u, v)
<1>1. ~pump.failed /\ heard.end = "no"
  BY Undecided
<1>2. PICK a \in Tale, t \in Tale : Telling(a, t) /\ Coming(t)
  BY <1>1 DEF KeepInv, StoryInv
<1>3. PICK m \in Tale, n \in Tale, u \in Tale, v \in Tale : OnTheWay(t, m, n, u, v)
  BY <1>2 DEF Coming
<1> QED BY <1>1, <1>2, <1>3

LEMMA ConvertKeepsAll ==
  ASSUME TypeInv, IInv, KeepInv, Frozen, pump.pc = "convert", pump'.pc = "convert", StoryInv',
         pump'.capture # NoCapture => up.complete /\ pump'.capture = Kept
  PROVE  KeepInv'
<1>1. /\ route' = route /\ up' = up /\ said' = said /\ heard' = heard /\ log' = log
      /\ HeardInv /\ AccountInv
  BY DEF Frozen, upstream, KeepInv
<1>2. heard.end = "no"
  BY Undecided
<1>3. HeardInv'
  BY <1>1, <1>2, HeardNothingYet DEF HeardInv
<1>4. Kept' = Kept
  BY <1>1 DEF Kept, Calls
<1>5. AccountInv'
  BY <1>1, <1>2, <1>4 DEF AccountInv
<1> QED BY <1>3, <1>5 DEF KeepInv, RestInv

LEMMA FramesGo ==
  ASSUME TypeInv, Frozen, NEW a \in Tale, NEW t \in Tale, Telling(a, t), NEW out \in Seq(Frame),
         frames' = frames \o out, NEW w \in Tale, Along("gateway", route.client, t, out, w),
         Beginning(w.c, said)
  PROVE  Telling(a, w)'
<1>1. /\ route' = route /\ said' = said /\ heard' = heard /\ frames \in Seq(Frame)
  BY TaskParts DEF Frozen, upstream
<1>2. Along("gateway", route.client, a, frames', w)
  BY <1>1, AlongJoin DEF Telling
<1> QED BY <1>1, <1>2, TellingNext DEF Telling

\* What is collected of a push.
LEMMA CollectIs ==
  ASSUME TypeInv, NEW y, TypedYield(y)
  PROVE  LET c == Collect(y)
         IN /\ c \in PumpRecord /\ c.pc = pump.pc /\ c.failed = pump.failed
            /\ c.chunk = pump.chunk /\ c.mid = pump.mid
            /\ c.usage = IF y.usage = NoUsage THEN pump.usage ELSE y.usage
            /\ c.capture = IF y.capture = NoCapture THEN pump.capture ELSE y.capture
<1> DEFINE c == Collect(y)
           usage == IF y.usage = NoUsage THEN pump.usage ELSE y.usage
           capture == IF y.capture = NoCapture THEN pump.capture ELSE y.capture
           error == pump.error \/ y.error
<1>1. c = [pump EXCEPT !.error = error, !.usage = usage, !.capture = capture]
  BY DEF Collect
<1>2. pump \in PumpRecord
  BY TaskParts
<1>3. c \in PumpRecord /\ c.pc = pump.pc /\ c.failed = pump.failed
      /\ c.chunk = pump.chunk /\ c.mid = pump.mid
  BY CollectTyped
<1> HIDE DEF usage, capture, error
<1>4. c.usage = usage /\ c.capture = capture
  BY <1>1, <1>2 DEF PumpRecord
<1> HIDE DEF c
<1> QED BY <1>3, <1>4 DEF c, usage, capture

LEMMA PassKeepsAll ==
  ASSUME TypeInv, IInv, KeepInv, Pass
  PROVE  KeepInv'
<1> DEFINE ev == Head(pump.chunk)
           y == PassedThrough(ev)
<1>1. /\ ev \in Msg /\ Tail(pump.chunk) \in Seq(Msg) /\ pump.chunk \in Seq(Msg)
      /\ wire \in Seq(Msg) /\ pump.chunk # <<>> /\ pump.pc = "convert" /\ Passthrough /\ Frozen
  BY HeadsAndTails, TaskParts DEF Pass
<1>2. IsOutward(y.st) /\ TypedYield(y) /\ y.out \in Seq(Frame)
  BY <1>1, PassedYields
<1>3. /\ pump' = [Collect(y) EXCEPT !.chunk = Tail(@)] /\ frames' = frames \o y.out
      /\ outward' = y.st /\ wire' = wire /\ inward' = inward /\ route' = route
      /\ up' = up /\ said' = said
  BY DEF Pass, Frozen, upstream
<1> HIDE DEF y
<1>4. /\ Collect(y) \in PumpRecord /\ Collect(y).pc = pump.pc
      /\ Collect(y).chunk = pump.chunk
      /\ Collect(y).usage = IF y.usage = NoUsage THEN pump.usage ELSE y.usage
      /\ Collect(y).capture = IF y.capture = NoCapture THEN pump.capture ELSE y.capture
  BY <1>2, CollectIs
<1>5. /\ pump'.pc = "convert" /\ pump'.chunk = Tail(pump.chunk)
      /\ pump'.usage = (IF y.usage = NoUsage THEN pump.usage ELSE y.usage)
      /\ pump'.capture = (IF y.capture = NoCapture THEN pump.capture ELSE y.capture)
  BY <1>1, <1>3, <1>4 DEF PumpRecord
<1>6. PICK a \in Tale, t \in Tale, m \in Tale, n \in Tale, u \in Tale, v \in Tale :
        Telling(a, t) /\ OnTheWay(t, m, n, u, v)
  BY <1>1, ConvertingStory
<1>7. Source(v) /\ PassedOn(u, t)
  BY <1>1, <1>6, WayParts
<1>8. May(route.up, route.up, u, ev)
      /\ Along(route.up, route.up, Tell(u, ev), Tail(pump.chunk) \o wire, v)
  <2>1. Along(route.up, route.up, u, pump.chunk \o wire, v)
    BY <1>6 DEF OnTheWay
  <2>2. /\ Head(pump.chunk \o wire) = ev /\ Tail(pump.chunk \o wire) = Tail(pump.chunk) \o wire
        /\ pump.chunk \o wire \in Seq(Msg) /\ pump.chunk \o wire # <<>>
    BY <1>1, HeadOfJoined
  <2> QED BY <2>1, <2>2, AlongHead
<1> HIDE DEF ev
<1>9. u.pc \notin Ended /\ t = u
  <2>1. PICK d \in Dialect : d = route.up
    BY RouteIsRoute
  <2>2. May(d, d, u, ev)
    BY <1>8, <2>1
  <2>3. u.pc \notin Ended
    BY <1>1, <2>2, MayParts
  <2> QED BY <1>7, <2>3, ClosedIs DEF PassedOn
<1>10. /\ PassKnown(u) /\ outward.usage = UsageNoted(u) /\ pump.usage = NoUsage
       /\ pump.capture = NoCapture
  BY <1>7, <1>9 DEF PassedOn, PassKnown, UsageNoted, Ended
<1>11. PassOn(u, ev, y)
  BY <1>1, <1>8, <1>10, PassGoes DEF y
<1>12. PICK w \in Tale : Along("gateway", route.client, u, y.out, w) /\ w = Closed(Tell(u, ev))
  BY <1>11 DEF PassOn
<1>13. Tell(u, ev) \in Tale /\ Onward(Tell(u, ev), v)
  <2>1. Tail(pump.chunk) \o wire \in Seq(Msg)
    BY <1>1, ConcatIsSeq
  <2> QED BY <1>8, <2>1, AlongTales
<1>14. PICK b \in Tale : b = Tell(u, ev)
  BY <1>13
<1>15. Beginning(w.c, said)
  <2>1. w.c = b.c
    BY <1>12, <1>14, ClosedParts
  <2>2. Beginning(b.c, v.c) /\ Beginning(v.c, said)
    BY <1>7, <1>13, <1>14 DEF Onward, Source
  <2> QED BY <2>1, <2>2, TaleParts, SourceParts, BeginningFurther
<1>16. Telling(a, w)'
  BY <1>1, <1>2, <1>3, <1>6, <1>9, <1>12, <1>15, FramesGo
<1>17. PassedOn(b, w)'
  <2>1. pump'.capture = NoCapture
    BY <1>5, <1>10, <1>11 DEF PassOn
  <2>2. outward'.usage = UsageNoted(b) /\ PassKnown(b)
    BY <1>3, <1>11, <1>14 DEF PassOn
  <2>3. pump'.usage = IF b.pc = "over" THEN outward'.usage ELSE NoUsage
    BY <1>3, <1>5, <1>10, <1>11, <1>14 DEF PassOn
  <2> QED BY <1>3, <1>12, <1>14, <2>1, <2>2, <2>3 DEF PassedOn, PassKnown, UsageNoted, In
<1>18. Source(v)'
  BY <1>3, <1>7, SourceStays
<1>19. Along(route.up, route.up, b, pump'.chunk \o wire', v)
  BY <1>3, <1>5, <1>8, <1>14
<1>20. Coming(w)'
  BY <1>1, <1>3, <1>17, <1>18, <1>19, WayNext
<1>21. StoryInv'
  BY <1>16, <1>20, StoryBy
<1>22. pump'.capture = NoCapture
  BY <1>5, <1>10, <1>11 DEF PassOn
<1> QED BY <1>1, <1>5, <1>21, <1>22, ConvertKeepsAll

\* What the first stage adds to what is noted.
LEMMA NotedFirst ==
  ASSUME TypeInv, ~Passthrough, route' = route, NEW u \in Tale, NEW m \in Tale, NEW b \in Tale,
         NEW ev \in Msg, May(route.up, route.up, u, ev), b = Tell(u, ev),
         Noted(m, u), NEW y, FirstOn(u, m, ev, y),
         pump'.usage = IF y.usage = NoUsage THEN pump.usage ELSE y.usage,
         pump'.capture = IF y.capture = NoCapture THEN pump.capture ELSE y.capture
  PROVE  Noted(m, b)' /\ pump'.capture = pump.capture
<1>1. pump'.capture = pump.capture
  BY DEF FirstOn
<1>2. pump.capture = TakenDown(route.client, m)
  BY DEF Noted
<1>3. ASSUME route.client = "messages", b.pc # "error" PROVE pump'.usage = InUsage(b.usage)
  <2>1. ~In("messages")
    BY <1>3 DEF In, Passthrough
  <2>2. u.pc # "error"
    <3>1. ~IsError(ev)
      BY <1>3, ErrorsTell
    <3>2. PICK d \in Dialect : d = route.up
      BY RouteIsRoute
    <3>3. May(d, d, u, ev)
      BY <3>2
    <3> QED BY <3>1, <3>3, MayParts
  <2>3. pump.usage = InUsage(u.usage)
    BY <1>3, <2>2 DEF Noted
  <2>4. InUsage(b.usage) = IF y.usage = NoUsage THEN InUsage(u.usage) ELSE y.usage
    BY <1>3, <2>1 DEF FirstOn
  <2> QED BY <2>3, <2>4
<1>4. ASSUME route.client # "messages",
             (In("messages") /\ m.pc # "error") \/ m.pc \in {"told", "over"}
      PROVE  pump'.usage = m.usage
  <2>1. In("messages") /\ y.usage = NoUsage
    BY <1>4 DEF FirstOn
  <2> QED BY <1>4, <2>1 DEF Noted
<1>5. Noted(m, b)'
  BY <1>1, <1>2, <1>3, <1>4 DEF Noted, In
<1> QED BY <1>1, <1>5

\* What the second adds.
LEMMA NotedSecond ==
  ASSUME TypeInv, route' = route, NEW u \in Tale, NEW m \in Tale, NEW t \in Tale, NEW b \in Tale,
         NEW ev \in Msg, May(route.up, "messages", m, ev), b = Tell(m, ev),
         Noted(m, u), NEW y, SecondOn(route.client, m, t, route.include, ev, y),
         pump'.usage = IF y.usage = NoUsage THEN pump.usage ELSE y.usage,
         pump'.capture = IF y.capture = NoCapture THEN pump.capture ELSE y.capture
  PROVE  Noted(b, u)' /\ pump'.capture = TakenDown(route.client, b)
<1>1. PICK d \in Dialect : d = route.up
  BY RouteIsRoute
<1>2. May(d, "messages", m, ev)
  BY <1>1
<1>3. /\ m.pc \notin Ended
      /\ ev.e # "message_stop" => b.pc \notin Ended
      /\ ev.e = "message_stop" => m.pc = "told" /\ b.pc = "over"
      /\ b.pc = "told" => m.pc = "told" \/ ev.e = "message_delta"
  BY <1>2, MessagesEnd
<1>4. pump.capture = NoCapture
  BY <1>3 DEF Noted, TakenDown
<1>5. pump'.capture = TakenDown(route.client, b)
  BY <1>4 DEF SecondOn
<1>6. ASSUME route.client = "messages", u.pc # "error" PROVE pump'.usage = InUsage(u.usage)
  BY <1>6 DEF Noted, SecondOn
<1>7. ASSUME route.client # "messages",
             (In("messages") /\ b.pc # "error") \/ b.pc \in {"told", "over"}
      PROVE  pump'.usage = b.usage
  <2>1. b.usage = IF y.usage = NoUsage THEN m.usage ELSE y.usage
    BY <1>7 DEF SecondOn
  <2>2. CASE y.usage # NoUsage
    BY <2>1, <2>2
  <2>3. CASE y.usage = NoUsage
    <3>1. b.usage = m.usage /\ pump'.usage = pump.usage
      BY <2>1, <2>3
    <3>2. CASE In("messages") /\ b.pc # "error"
      <4>1. ~IsError(ev)
        BY <3>2, ErrorsTell
      <4>2. ev.e # "Done"
        BY MsgParts
      <4>3. m.pc # "error"
        BY <1>2, <4>1, <4>2 DEF May, MessagesMay
      <4> QED BY <1>7, <3>1, <3>2, <4>3 DEF Noted
    <3>3. CASE ~In("messages") /\ b.pc \in {"told", "over"}
      <4>1. ev.e # "message_delta"
        <5>1. SUFFICES ASSUME ev.e = "message_delta" PROVE FALSE
          OBVIOUS
        <5>2. d \in {"chat", "responses"}
          BY <1>1, <3>3 DEF In, Dialect
        <5>3. ev.usage # NoUsage
          BY <1>2, <5>1, <5>2 DEF May, MessagesMay, IsError
        <5> QED BY <1>7, <2>3, <5>1, <5>3 DEF SecondOn
      <4>2. m.pc \in {"told", "over"}
        BY <1>3, <3>3, <4>1 DEF Ended
      <4> QED BY <1>7, <3>1, <4>2 DEF Noted
    <3> QED BY <1>7, <3>2, <3>3
  <2> QED BY <2>2, <2>3
<1>8. Noted(b, u)'
  BY <1>5, <1>6, <1>7 DEF Noted, In
<1> QED BY <1>5, <1>8

LEMMA InwardsKeepsAll ==
  ASSUME TypeInv, IInv, KeepInv, Inwards
  PROVE  KeepInv'
<1> DEFINE ev == Head(pump.chunk)
           y == FirstStage(ev)
<1>1. /\ ev \in Msg /\ Tail(pump.chunk) \in Seq(Msg) /\ pump.chunk \in Seq(Msg)
      /\ wire \in Seq(Msg) /\ pump.chunk # <<>> /\ pump.mid = <<>> /\ pump.pc = "convert"
      /\ ~Passthrough /\ Frozen
  BY HeadsAndTails, TaskParts DEF Inwards
<1>2. y.st \in Inward /\ TypedYield(y) /\ y.out \in Seq(Msg)
  BY <1>1, FirstStageYields
<1>3. /\ pump' = [Collect(y) EXCEPT !.chunk = Tail(@), !.mid = y.out] /\ inward' = y.st
      /\ wire' = wire /\ outward' = outward /\ frames' = frames /\ route' = route
      /\ up' = up /\ said' = said /\ heard' = heard
  BY DEF Inwards, FirstStage, Frozen, upstream
<1> HIDE DEF y
<1>4. /\ Collect(y) \in PumpRecord /\ Collect(y).pc = pump.pc
      /\ Collect(y).chunk = pump.chunk
      /\ Collect(y).usage = IF y.usage = NoUsage THEN pump.usage ELSE y.usage
      /\ Collect(y).capture = IF y.capture = NoCapture THEN pump.capture ELSE y.capture
  BY <1>2, CollectIs
<1>5. /\ pump'.pc = "convert" /\ pump'.chunk = Tail(pump.chunk) /\ pump'.mid = y.out
      /\ pump'.usage = (IF y.usage = NoUsage THEN pump.usage ELSE y.usage)
      /\ pump'.capture = (IF y.capture = NoCapture THEN pump.capture ELSE y.capture)
  BY <1>1, <1>3, <1>4 DEF PumpRecord
<1>6. PICK a \in Tale, t \in Tale, m \in Tale, n \in Tale, u \in Tale, v \in Tale :
        Telling(a, t) /\ OnTheWay(t, m, n, u, v)
  BY <1>1, ConvertingStory
<1>7. /\ Source(v) /\ FirstMakes(route.up, u, inward, n)
      /\ SecondMakes(route.client, m, outward, t, route.include) /\ Noted(m, u)
  BY <1>1, <1>6, WayParts
<1>8. May(route.up, route.up, u, ev)
      /\ Along(route.up, route.up, Tell(u, ev), Tail(pump.chunk) \o wire, v)
  <2>1. Along(route.up, route.up, u, pump.chunk \o wire, v)
    BY <1>6 DEF OnTheWay
  <2>2. /\ Head(pump.chunk \o wire) = ev /\ Tail(pump.chunk \o wire) = Tail(pump.chunk) \o wire
        /\ pump.chunk \o wire \in Seq(Msg) /\ pump.chunk \o wire # <<>>
    BY <1>1, HeadOfJoined
  <2> QED BY <2>1, <2>2, AlongHead
<1> HIDE DEF ev
<1>9. n = m
  <2>1. Along(route.up, "messages", m, <<>>, n)
    BY <1>1, <1>6 DEF OnTheWay
  <2> QED BY <2>1, AlongNowhere
<1>10. FirstMakes(route.up, u, inward, m)
  BY <1>7, <1>9
<1>11. FirstOn(u, m, ev, y)
  BY <1>1, <1>8, <1>10, FirstGoes DEF y
<1>12. PICK w \in Tale :
         Along(route.up, "messages", m, y.out, w) /\ FirstMakes(route.up, Tell(u, ev), y.st, w)
  BY <1>11 DEF FirstOn
<1>13. Tell(u, ev) \in Tale
  <2>1. Tail(pump.chunk) \o wire \in Seq(Msg)
    BY <1>1, ConcatIsSeq
  <2> QED BY <1>8, <2>1, AlongTales
<1>14. PICK b \in Tale : b = Tell(u, ev)
  BY <1>13
<1>15. Noted(m, b)' /\ pump'.capture = pump.capture
  BY <1>1, <1>3, <1>5, <1>7, <1>8, <1>11, <1>14, NotedFirst
<1>16. Source(v)'
  BY <1>3, <1>7, SourceStays
<1>17. Along(route.up, route.up, b, pump'.chunk \o wire', v)
  BY <1>3, <1>5, <1>8, <1>14
<1>18. /\ Along(route.up, "messages", m, pump'.mid, w)
       /\ FirstMakes(route.up, b, inward', w)
       /\ SecondMakes(route.client, m, outward', t, route.include)
  BY <1>3, <1>5, <1>7, <1>12, <1>14
<1>19. Coming(t)'
  BY <1>1, <1>3, <1>15, <1>16, <1>17, <1>18, WayNext
<1>20. Telling(a, t)'
  BY <1>3, <1>6 DEF Telling
<1>21. StoryInv'
  BY <1>19, <1>20, StoryBy
<1>22. pump'.capture # NoCapture => up.complete /\ pump'.capture = Kept
  BY <1>15 DEF KeepInv, AccountInv
<1> QED BY <1>1, <1>5, <1>21, <1>22, ConvertKeepsAll

LEMMA OutwardsKeepsAll ==
  ASSUME TypeInv, IInv, KeepInv, Outwards
  PROVE  KeepInv'
<1> DEFINE ev == Head(pump.mid)
           y == SecondStage(ev)
<1>1. /\ ev \in Msg /\ Tail(pump.mid) \in Seq(Msg) /\ pump.mid \in Seq(Msg)
      /\ pump.mid # <<>> /\ pump.pc = "convert" /\ ~Passthrough /\ Frozen
  BY HeadsAndTails, TaskParts, FlowParts DEF Outwards
<1>2. IsOutward(y.st) /\ TypedYield(y) /\ y.out \in Seq(Frame)
  BY <1>1, SecondStageYields, SecondStageFrames
<1>3. /\ pump' = [Collect(y) EXCEPT !.mid = Tail(@)] /\ frames' = frames \o y.out
      /\ outward' = y.st /\ wire' = wire /\ inward' = inward /\ route' = route
      /\ up' = up /\ said' = said
  BY DEF Outwards, SecondStage, Frozen, upstream
<1> HIDE DEF y
<1>4. /\ Collect(y) \in PumpRecord /\ Collect(y).pc = pump.pc
      /\ Collect(y).chunk = pump.chunk /\ Collect(y).mid = pump.mid
      /\ Collect(y).usage = IF y.usage = NoUsage THEN pump.usage ELSE y.usage
      /\ Collect(y).capture = IF y.capture = NoCapture THEN pump.capture ELSE y.capture
  BY <1>2, CollectIs
<1>5. /\ pump'.pc = "convert" /\ pump'.chunk = pump.chunk /\ pump'.mid = Tail(pump.mid)
      /\ pump'.usage = (IF y.usage = NoUsage THEN pump.usage ELSE y.usage)
      /\ pump'.capture = (IF y.capture = NoCapture THEN pump.capture ELSE y.capture)
  BY <1>1, <1>3, <1>4 DEF PumpRecord
<1>6. PICK a \in Tale, t \in Tale, m \in Tale, n \in Tale, u \in Tale, v \in Tale :
        Telling(a, t) /\ OnTheWay(t, m, n, u, v)
  BY <1>1, ConvertingStory
<1>7. /\ Onward(u, v) /\ Source(v) /\ FirstMakes(route.up, u, inward, n)
      /\ SecondMakes(route.client, m, outward, t, route.include) /\ Noted(m, u)
  BY <1>1, <1>6, WayParts
<1>8. May(route.up, "messages", m, ev)
      /\ Along(route.up, "messages", Tell(m, ev), Tail(pump.mid), n)
  <2>1. Along(route.up, "messages", m, pump.mid, n)
    BY <1>1, <1>6 DEF OnTheWay
  <2> QED BY <1>1, <2>1, AlongHead
<1> HIDE DEF ev
<1>9. SecondOn(route.client, m, t, route.include, ev, y)
  BY <1>1, <1>7, <1>8, SecondGoes DEF y
<1>10. PICK w \in Tale :
         /\ Along("gateway", route.client, t, y.out, w)
         /\ SecondMakes(route.client, Tell(m, ev), y.st, w, route.include)
  BY <1>9 DEF SecondOn
<1>11. Tell(m, ev) \in Tale /\ Onward(Tell(m, ev), n)
  BY <1>1, <1>8, AlongTales
<1>12. PICK b \in Tale : b = Tell(m, ev)
  BY <1>11
<1>13. Noted(b, u)' /\ pump'.capture = TakenDown(route.client, b)
  BY <1>1, <1>3, <1>5, <1>7, <1>8, <1>9, <1>12, NotedSecond
<1>14. Source(v)'
  BY <1>3, <1>7, SourceStays
<1>15. Along(route.up, route.up, u, pump'.chunk \o wire', v)
  BY <1>3, <1>5, <1>6 DEF OnTheWay
<1>16. /\ Along(route.up, "messages", b, pump'.mid, n)
       /\ FirstMakes(route.up, u, inward', n)
       /\ SecondMakes(route.client, b, outward', w, route.include)
       /\ Onward(b, n) /\ SecondMakes(route.client, b, y.st, w, route.include)
  BY <1>3, <1>5, <1>7, <1>8, <1>10, <1>11, <1>12
<1>17. Coming(w)'
  BY <1>1, <1>3, <1>13, <1>14, <1>15, <1>16, WayNext
<1>18. Beginning(w.c, said)
  <2>1. Beginning(w.c, u.c)
    BY <1>7, <1>16, StagesBegin
  <2>2. Beginning(u.c, v.c) /\ Beginning(v.c, said)
    BY <1>7 DEF Onward, Source
  <2> QED BY <2>1, <2>2, TaleParts, SourceParts, BeginningFurther
<1>19. Telling(a, w)'
  BY <1>1, <1>2, <1>3, <1>6, <1>10, <1>18, FramesGo
<1>20. StoryInv'
  BY <1>17, <1>19, StoryBy
<1>21. pump'.capture # NoCapture => up.complete /\ pump'.capture = Kept
  <2>1. SUFFICES ASSUME pump'.capture # NoCapture
                 PROVE  up.complete /\ pump'.capture = Kept
    OBVIOUS
  <2>2. b.pc \in Ended /\ pump'.capture = [thinking |-> b.signed, ids |-> CallIds(b.c)]
    BY <1>13, <2>1 DEF TakenDown
  <2>3. up.complete /\ b.c = said /\ b.signed = up.signed
    BY <1>7, <1>16, <2>2, MadeToTheEnd
  <2>4. CallIds(b.c) = Calls
    BY <2>3 DEF CallIds, Calls
  <2> QED BY <2>2, <2>3, <2>4 DEF Kept
<1> QED BY <1>1, <1>5, <1>20, <1>21, ConvertKeepsAll, SMTT(30)

-----------------------------------------------------------------------------
(* Sending keeps it *)

LEMMA SendKeepsAll ==
  ASSUME TypeInv, IInv, KeepInv, Send, TellInv'
  PROVE  KeepInv'
<1> DEFINE f == Head(frames)
<1>1. /\ pump.pc = "send" /\ frames # <<>> /\ heard' = Hears(f) /\ frames \in Seq(Frame)
      /\ f \in Frame /\ Tail(frames) \in Seq(Frame) /\ pump \in PumpRecord
      /\ route' = route /\ up' = up /\ said' = said /\ wire' = wire /\ inward' = inward
      /\ outward' = outward /\ log' = log
  BY HeadsAndTails, TaskParts DEF Send, upstream
<1>2. \/ f = Done /\ pump' = [pump EXCEPT !.pc = "closing"] /\ frames' = <<>>
      \/ f # Done /\ pump' = pump /\ frames' = Tail(frames)
  BY DEF Send, Become
<1>3. /\ pump'.pc \in {"send", "closing"} /\ pump'.failed = pump.failed
      /\ pump'.usage = pump.usage /\ pump'.capture = pump.capture
      /\ pump'.chunk = pump.chunk /\ pump'.mid = pump.mid /\ pump'.committed = pump.committed
      /\ pump'.pc = "send" => pump' = pump /\ frames' = Tail(frames)
  BY <1>1, <1>2 DEF PumpRecord
<1>4. StoryInv /\ RestInv /\ HeardInv /\ AccountInv
  BY DEF KeepInv
<1>5. PICK a \in Tale, t \in Tale : Telling(a, t) /\ (~pump.failed => Coming(t))
  BY <1>1, <1>4 DEF StoryInv
<1>6. PICK d \in Dialect : d = route.client
  BY RouteIsRoute
<1>7. Reads(d, heard, a) /\ Along("gateway", d, a, frames, t) /\ Beginning(t.c, said)
  BY <1>5, <1>6 DEF Telling
<1> HIDE DEF f
<1>8. May("gateway", d, a, f) /\ Along("gateway", d, Tell(a, f), Tail(frames), t)
  BY <1>1, <1>7, AlongHead DEF f
<1>9. Tell(a, f) \in Tale /\ Onward(Tell(a, f), t)
  BY <1>1, <1>8, AlongTales
<1>10. PICK b \in Tale : b = Tell(a, f)
  BY <1>9
<1>11. Reads(d, heard', b)
  <2>1. Reads(route.client, heard, a) /\ May("gateway", route.client, a, f)
    BY <1>6, <1>7, <1>8
  <2>2. Reads(route.client, Hears(f), Tell(a, f))
    BY <1>1, <2>1, HearsMore
  <2> QED BY <1>1, <1>6, <1>10, <2>2
<1>12. Onward(b, t) /\ Along("gateway", d, b, Tail(frames), t)
  BY <1>8, <1>9, <1>10
<1>13. StoryInv'
  <2>1. CASE pump'.pc = "closing"
    BY <2>1 DEF StoryInv
  <2>2. CASE pump'.pc = "send"
    <3>1. Telling(b, t)'
      BY <1>1, <1>3, <1>6, <1>7, <1>11, <1>12, <2>2 DEF Telling
    <3>2. ASSUME ~pump'.failed PROVE Coming(t)'
      <4>1. Coming(t)
        BY <1>3, <1>5, <3>2
      <4>2. PICK m \in Tale, n \in Tale, u \in Tale, v \in Tale : OnTheWay(t, m, n, u, v)
        BY <4>1 DEF Coming
      <4>3. Along(route.up, route.up, u, pump'.chunk \o wire', v)
        BY <1>1, <1>3, <4>2 DEF OnTheWay
      <4>4. Source(v)
        BY <4>2, WayParts
      <4>5. Source(v)'
        BY <1>1, <4>4, SourceStays
      <4> QED BY <1>1, <1>3, <4>2, <4>3, <4>5, WayStays
    <3> QED BY <3>1, <3>2, StoryBy
  <2> QED BY <1>3, <2>1, <2>2
<1>14. RestInv'
  BY <1>1, <1>3, <1>4 DEF RestInv
<1>15. Beginning(heard'.said, said')
  <2>1. SameWords(heard'.said, b.c)
    BY <1>11 DEF Reads
  <2>2. Beginning(b.c, said)
    BY <1>7, <1>12, TaleParts, SourceParts, BeginningFurther DEF Onward
  <2> QED BY <1>1, <2>1, <2>2, SameWordsBegin
<1>16. ~heard'.confused /\ (heard'.closed => heard'.end # "no")
       /\ (heard'.end = "over" => b.pc \in Ended)
  BY <1>11 DEF Reads, Ended
<1>17. ASSUME heard'.end = "over" PROVE Outcome(heard)'
  <2>1. ~pump.failed
    BY <1>3, <1>17 DEF TellInv
  <2>2. Coming(t)
    BY <1>5, <2>1
  <2>3. PICK m \in Tale, n \in Tale, u \in Tale, v \in Tale : OnTheWay(t, m, n, u, v)
    BY <2>2 DEF Coming
  <2>4. PICK h : h = heard'
    OBVIOUS
  <2>5. Reads(d, h, b) /\ b.pc \in Ended
    BY <1>11, <1>16, <1>17, <2>4
  <2>6. t.pc \in Ended /\ Knows(d, h, t)
    BY <1>12, <2>5, ReadsTheEnd
  <2>7. Knows(route.client, h, t)
    BY <1>6, <2>6
  <2>8. Outcome(h)
    BY <2>3, <2>6, <2>7, OutcomePassed, OutcomeConverted
  <2>9. /\ SameWords(h.said, said')
        /\ route'.client # "responses" => h.why = EndReason'
        /\ route'.client = "responses" => h.final = said'.items
        /\ Told(h.usage) = EndUsage' /\ Told(pump'.usage) = Billed'
        /\ Captures' /\ up'.signed # <<>> /\ Calls' # <<>> => pump'.capture # NoCapture
    BY <1>1, <1>3, <2>8, OutcomeStays
  <2> QED BY <2>4, <2>9 DEF Outcome
<1>18. HeardInv'
  BY <1>15, <1>16, <1>17 DEF HeardInv
<1>19. AccountInv'
  BY <1>1, <1>3, <1>4, AccountStays
<1> QED BY <1>13, <1>14, <1>18, <1>19 DEF KeepInv

-----------------------------------------------------------------------------
(* The theorems *)

LEMMA InitKeepsAll == Init => KeepInv
<1> SUFFICES ASSUME Init PROVE KeepInv
  OBVIOUS
<1>0. TypeInv
  BY InitTyped
<1>1. /\ up.pc = "start" /\ up.kind = "none" /\ up.signed = <<>> /\ said = NoContent
      /\ wire = <<>> /\ inward = InwardInit /\ outward = OutwardInit /\ frames = <<>>
      /\ pump.pc = "read" /\ pump.chunk = <<>> /\ pump.mid = <<>> /\ ~pump.failed
      /\ pump.usage = NoUsage /\ pump.capture = NoCapture
  BY DEF Init
<1>2. /\ ~heard.on /\ heard.open = NoBlock /\ heard.blocks = 0 /\ heard.said = NoContent
      /\ heard.usage = NoUsage /\ heard.why = "none" /\ heard.end = "no" /\ ~heard.closed
      /\ ~heard.confused /\ log.capture = NoCapture
  BY DEF Init
<1>3. Untold \in Tale
  BY UntoldIsTale
<1>4. /\ Untold.pc = "start" /\ Untold.kind = "none" /\ Untold.n = 0 /\ Untold.c = NoContent
      /\ Untold.why = "none" /\ Untold.usage = NoUsage /\ ~Untold.marked
      /\ Untold.signed = <<>>
  BY DEF Untold
<1>5. Beginning(Untold.c, said)
  BY <1>1, <1>3, <1>4, TaleParts, BeginningItself
<1>6. Telling(Untold, Untold)
  <2>1. Reads(route.client, heard, Untold)
    BY <1>2, <1>4 DEF Reads, SameWords, Ended
  <2>2. PICK d : d = route.client
    OBVIOUS
  <2>3. Along("gateway", d, Untold, <<>>, Untold)
    BY <1>3, AlongNone
  <2> QED BY <1>1, <1>5, <2>1, <2>2, <2>3 DEF Telling
<1>7. Coming(Untold)
  <2>1. Source(Untold)
    BY <1>1, <1>4, <1>5 DEF Source, Ended
  <2>2. PICK d : d = route.up
    OBVIOUS
  <2>3. Along(d, d, Untold, <<>>, Untold) /\ Along(d, "messages", Untold, <<>>, Untold)
    BY <1>3, AlongNone
  <2>4. pump.chunk \o wire = <<>>
    BY <1>1
  <2>5. PassedOn(Untold, Untold)
    BY <1>1, <1>3, <1>4, ClosedIs DEF PassedOn, Ended, OutwardInit, InUsage
  <2>6. FirstMakes(route.up, Untold, inward, Untold)
    <3>1. DOMAIN <<>> = {} /\ inward.tool = FALSE /\ inward.index = 0
      BY <1>1 DEF InwardInit
    <3>2. Untold.c.tools = <<>>
      BY <1>4 DEF NoContent
    <3>3. ChatStage(Untold, inward, Untold)
      BY <1>1, <1>4, <3>1, <3>2 DEF ChatStage, Ended
    <3>4. ResponsesStage(Untold, inward, Untold)
      BY <1>1, <1>4, <3>1, <3>2 DEF ResponsesStage, Ended
    <3> QED BY <1>4, <3>3, <3>4 DEF FirstMakes
  <2>7. SecondMakes(route.client, Untold, outward, Untold, route.include)
    <3>1. CallIds(Untold.c) = <<>> /\ ToolsOf(Untold) = 0 /\ Untold.c.items = <<>>
      BY <1>4 DEF CallIds, NoContent, ToolsOf
    <3>2. /\ outward.thinking = <<>> /\ outward.ids = <<>> /\ outward.usage = NoUsage
          /\ outward.count = 0 /\ DOMAIN outward.blocks = {} /\ outward.items = <<>>
      BY <1>1 DEF OutwardInit
    <3>3. ChatBeing(Untold, outward, Untold)
      BY <1>4, <3>1, <3>2 DEF ChatBeing, Thinks
    <3>4. ChatMade(Untold, outward, Untold, route.include)
      BY <1>4, <3>1, <3>2, <3>3 DEF ChatMade, SameWords, Ended
    <3>5. ResponsesBeing(Untold, outward, Untold)
      BY <1>4, <3>1, <3>2 DEF ResponsesBeing
    <3>6. ResponsesMade(Untold, outward, Untold)
      BY <1>4, <3>2, <3>5 DEF ResponsesMade, Ended
    <3>7. Untold = Closed(Untold)
      BY <1>3, <1>4, ClosedIs DEF Ended
    <3> QED BY <1>4, <3>4, <3>6, <3>7 DEF SecondMakes
  <2>8. Noted(Untold, Untold)
    BY <1>1, <1>4 DEF Noted, TakenDown, InUsage, Ended
  <2>9. OnTheWay(Untold, Untold, Untold, Untold, Untold)
    BY <1>1, <2>1, <2>2, <2>3, <2>4, <2>5, <2>6, <2>7, <2>8 DEF OnTheWay, Flow
  <2> QED BY <1>3, <2>9 DEF Coming
<1>8. StoryInv
  BY <1>3, <1>6, <1>7 DEF StoryInv
<1>9. RestInv
  BY <1>1 DEF RestInv
<1>10. HeardInv
  BY <1>2, <1>4, <1>5 DEF HeardInv
<1>11. AccountInv
  BY <1>1, <1>2 DEF AccountInv
<1> QED BY <1>8, <1>9, <1>10, <1>11 DEF KeepInv

LEMMA UnchangedKeepsAll ==
  ASSUME TypeInv, KeepInv, UNCHANGED vars
  PROVE  KeepInv'
<1>1. /\ route' = route /\ up' = up /\ said' = said /\ wire' = wire /\ inward' = inward
      /\ outward' = outward /\ pump' = pump /\ frames' = frames /\ heard' = heard /\ log' = log
      /\ StoryInv /\ RestInv /\ HeardInv /\ AccountInv
  BY DEF vars, upstream, KeepInv
<1>2. StoryInv'
  <2>1. SUFFICES ASSUME pump.pc \in {"read", "convert", "send"} PROVE StoryInv'
    BY <1>1 DEF StoryInv
  <2>2. PICK a \in Tale, t \in Tale : Telling(a, t) /\ (~pump.failed => Coming(t))
    BY <1>1, <2>1 DEF StoryInv
  <2>3. Telling(a, t)'
    BY <1>1, <2>2 DEF Telling
  <2>4. ASSUME ~pump'.failed PROVE Coming(t)'
    <3>1. Coming(t)
      BY <1>1, <2>2, <2>4
    <3>2. PICK m \in Tale, n \in Tale, u \in Tale, v \in Tale : OnTheWay(t, m, n, u, v)
      BY <3>1 DEF Coming
    <3>3. Along(route.up, route.up, u, pump'.chunk \o wire', v)
      BY <1>1, <3>2 DEF OnTheWay
    <3>4. Source(v)
      BY <3>2, WayParts
    <3>5. Source(v)'
      BY <1>1, <3>4, SourceStays
    <3> QED BY <1>1, <3>2, <3>3, <3>5, WayStays
  <2> QED BY <2>3, <2>4, StoryBy
<1>3. RestInv'
  BY <1>1 DEF RestInv
<1>4. HeardInv'
  BY <1>1, HeardStays
<1>5. Kept' = Kept
  BY <1>1 DEF Kept, Calls
<1>6. AccountInv'
  BY <1>1, <1>5 DEF AccountInv
<1> QED BY <1>2, <1>3, <1>4, <1>6 DEF KeepInv

LEMMA StepKeepsAll ==
  ASSUME ~ErrorThenDone
  PROVE  TypeInv /\ IInv /\ KeepInv /\ [Next]_vars => KeepInv'
<1> SUFFICES ASSUME TypeInv, IInv, KeepInv, [Next]_vars PROVE KeepInv'
  OBVIOUS
<1>1. CASE Close
  BY <1>1, CloseKeepsAll
<1>2. CASE Says /\ ~Close
  <2>1. \/ Begin \/ Piece \/ Fail
        \/ \E kind \in BlockKind : Open(kind)
        \/ \E signed \in BOOLEAN : Shut(signed)
        \/ \E why \in Reason, whole \in BOOLEAN : End(why, whole)
    BY <1>2 DEF Says
  <2>2. up.pc \in {"start", "open", "block"}
    BY <2>1 DEF Begin, Piece, Fail, Open, Shut, End
  <2> QED BY <2>1, <2>2, SpeaksKeepsAll
<1>3. CASE Send
  <2>1. TellInv'
    BY <1>3, StepKeeps DEF IInv
  <2> QED BY <1>3, <2>1, SendKeepsAll
<1>4. CASE Pumps /\ ~Send
  BY <1>4, ReadKeepsAll, PassKeepsAll, InwardsKeepsAll, OutwardsKeepsAll, FailedKeepsAll,
     FruitlessKeepsAll, FruitfulKeepsAll, BrokenKeepsAll, SendFailsKeepsAll, SentKeepsAll,
     SettleKeepsAll
  DEF Pumps
<1>5. CASE Elapse
  BY <1>5, ElapseKeepsAll
<1>6. CASE Leave
  BY <1>6, LeaveKeepsAll
<1>7. CASE UNCHANGED vars
  BY <1>7, UnchangedKeepsAll
<1> QED BY <1>1, <1>2, <1>3, <1>4, <1>5, <1>6, <1>7 DEF Next

LEMMA AllKept ==
  ASSUME ~ErrorThenDone
  PROVE  Spec => [](TypeInv /\ IInv /\ KeepInv)
<1>1. Init => TypeInv /\ IInv /\ KeepInv
  BY InitTyped, InitKeeps, InitKeepsAll
<1>2. TypeInv /\ IInv /\ KeepInv /\ [Next]_vars => (TypeInv /\ IInv /\ KeepInv)'
  BY StepTyped, StepKeeps, StepKeepsAll
<1> QED BY <1>1, <1>2, PTL DEF Spec

\* Whatever two dialects meet, and wherever the stream is cut, fails or ends, the client is
\* never sent what its own dialect forbids, and no stream is closed without a word on how it
\* ended (the four converters, stream_error_frame, send_stream_frames).
THEOREM WellFormedAlways ==
  ASSUME ~ErrorThenDone
  PROVE  Spec => []WellFormed
<1>1. KeepInv => WellFormed
  BY DEF KeepInv, HeardInv, WellFormed
<1> QED BY <1>1, AllKept, PTL

\* A client that has heard anything and waits for the end is told the truth about it: that
\* the answer is over only if the upstream has completed it; and what is logged, success or
\* failure, is what a client that waited for the end was told, whatever is converted into
\* what and wherever the stream is cut or breaks.  Of the upstream it is assumed that a chat
\* error is not followed by [DONE] (start_stream_response).
THEOREM FailureAlwaysTold ==
  ASSUME ~ErrorThenDone
  PROVE  Spec => []FailureIsTold
<1>1. IInv /\ KeepInv => FailureIsTold
  BY DEF KeepInv, HeardInv, IInv, TellInv, FailureIsTold
<1> QED BY <1>1, AllKept, PTL

LEMMA ContentByInvariant == TypeInv /\ KeepInv => ContentIsKept
<1> SUFFICES ASSUME TypeInv, KeepInv PROVE ContentIsKept
  OBVIOUS
<1>1. heard.said \in Content /\ said \in Content
  BY TaskParts, SourceParts DEF Client
<1>2. Beginning(heard.said, said) /\ (heard.end = "over" => Outcome(heard))
  BY DEF KeepInv, HeardInv
<1>3. /\ heard.said.text \in Seq(Nat) /\ heard.said.thinking \in Seq(Nat)
      /\ heard.said.tools \in Seq(ToolCalled)
      /\ DOMAIN heard.said.tools = 1 .. Len(heard.said.tools) /\ Len(heard.said.tools) \in Nat
      /\ \A k \in DOMAIN heard.said.tools : heard.said.tools[k].text \in Seq(Nat)
  BY <1>1, ContentParts
<1>4. /\ said.text \in Seq(Nat) /\ said.thinking \in Seq(Nat) /\ said.tools \in Seq(ToolCalled)
      /\ DOMAIN said.tools = 1 .. Len(said.tools) /\ Len(said.tools) \in Nat
      /\ \A k \in DOMAIN said.tools : said.tools[k].text \in Seq(Nat)
  BY <1>1, ContentParts
<1>5. IsPrefix(heard.said.text, said.text) /\ IsPrefix(heard.said.thinking, said.thinking)
      /\ Len(heard.said.tools) <= Len(said.tools)
  BY <1>2, <1>3, <1>4, WithinIsPrefix DEF Beginning
<1>6. ASSUME NEW k \in DOMAIN heard.said.tools
      PROVE  /\ heard.said.tools[k].id = said.tools[k].id
             /\ IsPrefix(heard.said.tools[k].text, said.tools[k].text)
  <2>1. heard.said.tools[k].text \in Seq(Nat) /\ said.tools[k].text \in Seq(Nat)
    BY <1>3, <1>4, <1>5
  <2>2. /\ heard.said.tools[k].id = said.tools[k].id
        /\ Within(heard.said.tools[k].text, said.tools[k].text)
    BY <1>2 DEF Beginning
  <2> QED BY <2>1, <2>2, WithinIsPrefix
<1>7. ASSUME heard.end = "over"
      PROVE  /\ [heard.said EXCEPT !.items = said.items] = said /\ SameReason
             /\ route.client = "responses" => heard.final = said.items
  <2>1. Outcome(heard)
    BY <1>2, <1>7
  <2>2. [heard.said EXCEPT !.items = said.items] = said
    BY <1>1, <2>1 DEF Outcome, SameWords, Content
  <2>3. route.client \in {"chat", "messages", "responses"}
    BY RouteIsRoute DEF Dialect
  <2>4. SameReason
    BY <2>1, <2>3 DEF Outcome, SameReason, EndReason, ReasonOf
  <2> QED BY <2>1, <2>2, <2>4 DEF Outcome
<1> QED BY <1>5, <1>6, <1>7 DEF ContentIsKept

\* Nothing of what the upstream says is lost, doubled, moved or given to another tool call,
\* and a client that is told that the answer is over has the whole of it and knows how it
\* ended, in any dialect, for answers of any length cut anywhere (push_event of the four
\* converters).
THEOREM ContentAlwaysKept ==
  ASSUME ~ErrorThenDone
  PROVE  Spec => []ContentIsKept
BY ContentByInvariant, AllKept, PTL

\* What is kept for the next turn and for the account is what the upstream has said and
\* reported: signed thinking is stored whole and with every tool call of its turn or not at
\* all, and usage reaches the log and the client in the convention of each (the captures,
\* usage.rs).
THEOREM AccountAlwaysTrue ==
  ASSUME ~ErrorThenDone
  PROVE  Spec => []AccountIsTrue
<1>1. KeepInv => AccountIsTrue
  <2>1. SUFFICES ASSUME KeepInv PROVE AccountIsTrue
    OBVIOUS
  <2>2. log.capture \in {NoCapture, [thinking |-> up.signed, ids |-> Calls]}
    BY <2>1 DEF KeepInv, AccountInv, Kept
  <2>3. ASSUME pump.pc = "ended", heard.end = "over"
        PROVE  /\ Outcome(heard) /\ log.capture = pump.capture /\ log.usage = pump.usage
    BY <2>1, <2>3 DEF KeepInv, AccountInv, HeardInv
  <2> QED BY <2>2, <2>3 DEF AccountIsTrue, Outcome, EndUsage
<1> QED BY <1>1, AllKept, PTL
=============================================================================
