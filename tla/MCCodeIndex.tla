---------------------------- MODULE MCCodeIndex ----------------------------
(* Small instances of CodeIndex for TLC. *)
EXTENDS CodeIndex, TLC

CONSTANTS f1, f2, c1

\* Files are interchangeable.  (Not used where liveness is checked.)
FileSymmetry == Permutations(File)
=============================================================================
