------------------------------ MODULE MCCnProc ------------------------------
(***************************************************************************)
(* Instances of CnProc for TLC.                                            *)
(***************************************************************************)
EXTENDS CnProc, TLC

ProcSymmetry == Permutations(Procs)
=============================================================================
