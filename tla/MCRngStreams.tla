---------------------------- MODULE MCRngStreams ----------------------------
EXTENDS RngStreams

CONSTANT s1   \* a seed
=============================================================================
