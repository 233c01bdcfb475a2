-------------------------- MODULE MCReturnRefund ---------------------------
(* ReturnRefund on orders of one line with a taxable value and one tax.     *)
EXTENDS ReturnRefund

CONSTANTS Taxable, Tax

MCPart == {"taxable", "tax"}
MCParts == [p \in MCPart |-> IF p = "taxable" THEN Taxable ELSE Tax]
=============================================================================
