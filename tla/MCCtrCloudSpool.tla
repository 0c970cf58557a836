-------------------------- MODULE MCCtrCloudSpool ---------------------------
(* Small instances of CtrCloudSpool for TLC. *)
EXTENDS CtrCloudSpool
=============================================================================
