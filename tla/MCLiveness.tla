----------------------------- MODULE MCLiveness -----------------------------
(* One document for TLC's liveness runs, where symmetry is not sound: the   *)
(* first upload's ids are fixed instead, which loses no behaviour up to the *)
(* renaming of ids.                                                         *)
EXTENDS DocumentLifecycle

CONSTANTS FirstVersion, FirstGeneration

LiveInit == FirstUpload(FirstVersion, FirstGeneration)

LiveSpec == LiveInit /\ [][Next]_vars /\ Fairness
=============================================================================
