--------------------------- MODULE MCOwnerRuntime ---------------------------
(* Small instances of OwnerRuntime for TLC. *)
EXTENDS OwnerRuntime, TLC

CONSTANTS user, admin

\* One process runs commands, the other one starts the daemon or restarts it.
MCGoals == (user :> {"run"}) @@ (admin :> {"restart"})

\* One process does everything, one thing after the other, and may give up waiting.
MCAllGoals == [c \in Client |-> {"run", "restart"}]

\* Daemons are interchangeable, and so are commands.
MCSymmetry == Permutations(Op) \cup Permutations(Daemon)
=============================================================================
