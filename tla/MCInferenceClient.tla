-------------------------- MODULE MCInferenceClient --------------------------
(* A small instance of InferenceClient for TLC: one critical and two domain  *)
(* agents, two providers that fall back to one another.                      *)
EXTENDS InferenceClient, TLC

CONSTANTS t1, t2, t3, ollama, anthropic, openai, big, small

LimitDef   == (ollama :> 1) @@ (anthropic :> 0) @@ (openai :> 0)
ModelOfDef == (t1 :> big) @@ (t2 :> small) @@ (t3 :> small)
FamilyDef  == (big :> anthropic) @@ (small :> Nobody)
=============================================================================
