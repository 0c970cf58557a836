------------------------- MODULE MCCtrCloudSession ---------------------------
EXTENDS CtrCloudSession, TLC

CONSTANTS u1, u2, factory
=============================================================================
