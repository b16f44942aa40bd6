--------------------------- MODULE MCUadeSession ---------------------------
EXTENDS UadeSession
=============================================================================
