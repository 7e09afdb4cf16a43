-------------------------- MODULE MCOwnerAwareSync --------------------------
\* Small instances of OwnerAwareSync: two users share the phone, and one of
\* them also starts a financial action.
EXTENDS OwnerAwareSync, TLC
=============================================================================
