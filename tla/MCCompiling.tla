---------------------------- MODULE MCCompiling ----------------------------
EXTENDS Compiling

CONSTANTS root, x

MCInputNames == <<root>>
=============================================================================
