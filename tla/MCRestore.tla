----------------------------- MODULE MCRestore -----------------------------
EXTENDS RestoreTransaction
=============================================================================
