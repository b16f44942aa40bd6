---------------------------- MODULE MCUadeOutput ----------------------------
EXTENDS UadeOutput
=============================================================================
