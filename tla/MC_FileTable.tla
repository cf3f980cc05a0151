---------------------------- MODULE MC_FileTable ----------------------------
(* Model-checking instance of FileTable: model values for the processes   *)
(* and the vnodes. No symmetry is declared: FirstProc owns the console    *)
(* descriptors and the others start unborn, so no two processes of the   *)
(* configuration are interchangeable.                                     *)
EXTENDS FileTable, TLC

CONSTANTS p1, p2, p3, f1, f2

=============================================================================
