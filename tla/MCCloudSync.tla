---------------------------- MODULE MCCloudSync ----------------------------
(* Two devices that start with different connections and different skills. *)
EXTENDS CloudSync, TLC

CONSTANTS d1, d2
MCDevice == {d1, d2}
MCFirst == d1 :> 0 @@ d2 :> 1
MCKnown == 1
=============================================================================
