------------------------------ MODULE MCImport ------------------------------
(* A small instance of Import for TLC.                                     *)
EXTENDS Import
=============================================================================
