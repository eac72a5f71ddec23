--------------------------- MODULE MCApiRequests ---------------------------
(* Model values and symmetry for checking ApiRequests with TLC.            *)
EXTENDS ApiRequests, TLC

\* Pool threads are interchangeable; used by the safety runs only.
WorkerSymmetry == Permutations(Workers)
=============================================================================
