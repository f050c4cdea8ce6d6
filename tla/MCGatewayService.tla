-------------------------- MODULE MCGatewayService --------------------------
(* A small instance of GatewayService for TLC. *)
EXTENDS GatewayService, TLC

CONSTANTS p1, p2

\* GatewayConfig::default(): off, on its own port, with a prober.
MCDefault == [enabled |-> FALSE, port |-> p1, interval |-> 60]
MCFound == {MCDefault, [MCDefault EXCEPT !.enabled = TRUE]}
=============================================================================
