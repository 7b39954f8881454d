----------------------------- MODULE MCSession ------------------------------
\* The session by itself.
EXTENDS Session, MCScripts
=============================================================================
