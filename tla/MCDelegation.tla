---------------------------- MODULE MCDelegation ----------------------------
\* Delegation for TLC.
EXTENDS Delegation, TLC
=============================================================================
