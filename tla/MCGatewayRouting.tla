--------------------------- MODULE MCGatewayRouting ---------------------------
(* Two channels, the second a failover for the first, a client that asks for  *)
(* everything, the periodic probe rounds and those asked for.                 *)
EXTENDS GatewayRouting

CONSTANTS c1, c2, r1, timer, manual

MCRank == [c \in Channel |-> IF c = c1 THEN 0 ELSE 1]
MCKinds == [r \in Request |-> {"stream", "plain", "count", "ws"}]
MCServes ==
  [r \in Request |-> [stream |-> Channel, plain |-> Channel, count |-> {c2}, ws |-> {c1}]]
MCStarts == [c \in Channel |-> IF c = c1 THEN {"up", "down"} ELSE {"up"}]
=============================================================================
