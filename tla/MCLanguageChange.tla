--------------------------- MODULE MCLanguageChange ---------------------------
(***************************************************************************)
(* One account, English and Arabic.                                        *)
(***************************************************************************)
EXTENDS LanguageChange

CONSTANTS user, public, en, ar
=============================================================================
