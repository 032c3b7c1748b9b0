---------------------------- MODULE MCCastStart ----------------------------
EXTENDS CastStart
CONSTANTS s1, s2
=============================================================================
