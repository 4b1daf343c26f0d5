-------------------------- MODULE MCRingTransport --------------------------
EXTENDS RingTransport

MCLens == {2, 4}
=============================================================================
