------------------------------ MODULE MCCtrLrw ------------------------------
EXTENDS CtrLrw
CONSTANTS u1, c1, c2, t1
=============================================================================
