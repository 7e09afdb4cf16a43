--------------------------- MODULE MCResendLimiter ---------------------------
(***************************************************************************)
(* Functions that resend mails to one address.                             *)
(***************************************************************************)
EXTENDS ResendLimiter, TLC

CONSTANTS h1, h2
Symmetry == Permutations({h1, h2})

\* No action and none of the properties of resend_limit reads denied.
WithoutDenied == <<now, sentAt, row, handler, signUps, lastId, mails>>
=============================================================================
