----------------------------- MODULE MCUiBridge -----------------------------
(***************************************************************************)
(* UiBridge for TLC.  What the recursive definitions of the reader and of  *)
(* the transform compute is evaluated here, for every file and every block; *)
(* the theorems of UiBridge_proofs about the system take it as a           *)
(* hypothesis.                                                             *)
(***************************************************************************)
EXTENDS UiBridge

ASSUME ReaderAssumption == ReaderIsRight
ASSUME EngineAssumption == FreshIsRight
=============================================================================
