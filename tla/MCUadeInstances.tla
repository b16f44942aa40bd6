-------------------------- MODULE MCUadeInstances --------------------------
EXTENDS UadeInstances
=============================================================================
