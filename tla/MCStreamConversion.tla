------------------------- MODULE MCStreamConversion -------------------------
(* A small instance of StreamConversion for TLC. *)
EXTENDS StreamConversion

MCBill(prompt, read, write, output) ==
  [f \in UsageField |-> CASE f = "prompt" -> prompt [] f = "read" -> read
                          [] f = "write" -> write [] f = "output" -> output]
\* A prompt of which a part was cached; one that is smaller than what was cached of it.
MCCached == MCBill(4, 1, 2, 5)
MCSmall == MCBill(1, 1, 1, 2)

MCRoute(u, c, i, b) == [up |-> u, client |-> c, include |-> i, bill |-> b]
\* Every pair of dialects; some of them with a smaller prompt, or without usage.
MCRoutes ==
  {MCRoute(u, c, TRUE, MCCached) : u \in Dialect, c \in Dialect}
    \cup {MCRoute("chat", "responses", TRUE, MCSmall),
          MCRoute("messages", "chat", TRUE, NoUsage),
          MCRoute("messages", "chat", FALSE, MCCached)}
=============================================================================
