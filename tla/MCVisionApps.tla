---------------------------- MODULE MCVisionApps ----------------------------
EXTENDS VisionApps
=============================================================================
