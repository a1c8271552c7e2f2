---------------------------- MODULE MCFlashJobs ----------------------------
(* Small instances of FlashJobs for TLC.                                    *)
EXTENDS FlashJobs, TLC

\* Tasks, and the task handles, are interchangeable (safety runs only).
Symmetry == Permutations(Psram) \cup Permutations(Workers)
=============================================================================
