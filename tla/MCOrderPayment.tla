-------------------------- MODULE MCOrderPayment ---------------------------
(* OrderPayment with few lines and sessions.                                *)
EXTENDS OrderPayment
=============================================================================
