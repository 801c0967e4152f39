------------------------------- MODULE MCShell -------------------------------
EXTENDS Shell

============================================================================
