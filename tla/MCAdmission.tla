----------------------------- MODULE MCAdmission -----------------------------
(* Quotas for TLC: investigations per two ticks, uploads per one tick; one of *)
(* the callers sends the key that may be configured, the other sends none.    *)
EXTENDS Admission, TLC

CONSTANTS r1, r2, r3, k1, c1, c2, f1

RequestsDef == {r1, r2, r3}
KeysDef     == {k1}
ClientsDef  == {c1, c2}
FlightsDef  == {f1}
KeyOfDef    == c1 :> k1 @@ c2 :> NoKey
LimitDef    == "investigations" :> 1 @@ "uploads" :> 1
WindowDef   == "investigations" :> 2 @@ "uploads" :> 1

Symmetry == Permutations(RequestsDef)
=============================================================================
