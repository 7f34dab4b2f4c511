------------------------- MODULE MCObservationCapture -------------------------
(* Instance of ObservationCapture for TLC: the threads are alike.          *)
EXTENDS ObservationCapture, TLC

Symmetry == Permutations(Threads)
=============================================================================
