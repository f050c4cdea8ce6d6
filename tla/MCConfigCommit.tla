--------------------------- MODULE MCConfigCommit ---------------------------
(* Small instances of ConfigCommit for TLC. *)
EXTENDS ConfigCommit, TLC

CONSTANTS old, new, ext, absent, a, b

\* Whole-file images of two configurations.
OldCfg == [f \in File |-> old]
NewCfg == [f \in File |-> new]

MCBytes == {old, new, ext, absent}

\* a is stored and current; b is a stored, inactive connection.
MCInitConns == (a :> OldCfg) @@ (b :> NewCfg)
\* a is current; b does not exist yet.
MCInitOne == (a :> OldCfg) @@ (b :> None)

Switch(c, cfg) == [orig |-> c, conn |-> c, cfg |-> cfg, gateway |-> FALSE]
\* Switch to the stored connection b, or back to a.
SwitchInput == {Switch(b, NewCfg)}
BothInput == {Switch(b, NewCfg), Switch(a, OldCfg)}
\* Create b and apply it; with and without a gateway route.
CreateInput == {[orig |-> None, conn |-> b, cfg |-> NewCfg, gateway |-> g] : g \in BOOLEAN}

MCReceiptSymmetry == Permutations(Receipt)
=============================================================================
