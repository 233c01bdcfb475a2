---------------------------- MODULE MCInventory ----------------------------
(* Inventory on one SKU at two warehouses, three reservations.             *)
EXTENDS Inventory, TLC

Symmetry == Permutations(Res)
=============================================================================
