-------------------------- MODULE MCSettingsStore --------------------------
EXTENDS SettingsStore
=============================================================================
