---------------------------- MODULE MCPurchasing ----------------------------
(* Two SKUs or one, two sessions, up to two or three purchase orders. *)
EXTENDS Purchasing, TLC

Alike == Permutations(Session) \cup Permutations(Sku)

=============================================================================
