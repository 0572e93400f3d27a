---------------------- MODULE MCInvestigationLifecycle ----------------------
(* Small instances of InvestigationLifecycle for TLC. *)
EXTENDS InvestigationLifecycle, TLC

CONSTANTS i1, i2, w1, w2, c1, c2

Symmetric == Permutations({i1, i2}) \cup Permutations({w1, w2})
                 \cup Permutations({c1, c2})
=============================================================================
