---------------------------- MODULE MCImportTask ----------------------------
(* Small instances of ImportTask.  Workers are alike; a run that checks     *)
(* liveness does without the symmetry.                                      *)
EXTENDS ImportTask, TLC

WorkerSymmetry == Permutations(Workers)
=============================================================================
