----------------------------- MODULE MCTheories -----------------------------
\* The theory loop by itself.
EXTENDS Theories, MCTerms
=============================================================================
