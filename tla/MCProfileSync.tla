---------------------------- MODULE MCProfileSync ---------------------------
(* Small instances of ProfileSync for TLC.                                 *)
EXTENDS ProfileSync
=============================================================================
