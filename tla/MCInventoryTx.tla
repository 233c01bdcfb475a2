--------------------------- MODULE MCInventoryTx ---------------------------
(* InventoryTx with small tables; hashtext() keeps all keys apart.         *)
EXTENDS InventoryTx

Apart == [k \in Sku \X Warehouse |-> k]
=============================================================================
