------------------------- MODULE MCFinancialActions -------------------------
(***************************************************************************)
(* Two devices and three actions, made on either of them in any order.     *)
(***************************************************************************)
EXTENDS FinancialActions

CONSTANTS d1, d2, a1, a2, a3
=============================================================================
