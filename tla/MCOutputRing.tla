---------------------------- MODULE MCOutputRing ----------------------------
EXTENDS OutputRing
=============================================================================
