------------------------ MODULE MCInventoryRecovery -------------------------
(* Small instances of InventoryRecovery for TLC. *)
EXTENDS InventoryRecovery, TLC

CONSTANTS k1, k2, alice

AllAlice == k1 :> alice @@ k2 :> alice
OneEach == k1 :> 1 @@ k2 :> 1

=============================================================================
