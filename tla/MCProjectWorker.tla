-------------------------- MODULE MCProjectWorker --------------------------
(* Small instances of ProjectWorker for TLC. *)
EXTENDS ProjectWorker, TLC

CONSTANTS f1, f2, c1, c2

FileSymmetry == Permutations(File)
RunnerSymmetry == Permutations(Call)

\* A restart over a graph that is up to date.
UpToDate == WorkerInit /\ hash = content
RestartSpec == UpToDate /\ [][WorkerNext]_workerVars
RestartUnticked == UpToDate /\ UntickedSpec
=============================================================================
