----------------------------- MODULE MCLowering -----------------------------
\* The replay by itself.
EXTENDS Lowering, MCTerms
=============================================================================
