--------------------------- MODULE MCHmpySession ---------------------------
EXTENDS HmpySession
=============================================================================
