------------------------- MODULE MCFlightLifecycle -------------------------
(* Small instances of FlightLifecycle for TLC. *)
EXTENDS FlightLifecycle, TLC

CONSTANTS f1, f2, l1, l2, r1, r2, w1, w2

\* Two uploads of one and the same log file.
SameLog == (f1 :> l1) @@ (f2 :> l1)

\* One upload.
OneLog == f1 :> l1

Symmetric == Permutations({r1, r2}) \cup Permutations({w1, w2})
=============================================================================
