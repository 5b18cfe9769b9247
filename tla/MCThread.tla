------------------------------ MODULE MCThread ------------------------------
(***************************************************************************)
(* An instance of Thread for TLC.                                          *)
(***************************************************************************)
EXTENDS Thread

CONSTANTS o1, o2, o3, i1, i2
=============================================================================
