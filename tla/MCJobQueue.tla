------------------------------ MODULE MCJobQueue ------------------------------
(***************************************************************************)
(* Small instances of JobQueue for TLC.  The worker threads are            *)
(* interchangeable; the symmetry is used in safety runs only.              *)
(***************************************************************************)
EXTENDS JobQueue, TLC

Symmetry == Permutations(Worker)
=============================================================================
