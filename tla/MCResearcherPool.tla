-------------------------- MODULE MCResearcherPool --------------------------
(* An instance of the researcher pool for TLC: the two submissions carry   *)
(* the same task ID, and each of the two workers may take one.             *)
EXTENDS ResearcherPool, TLC

CONSTANTS s1, s2, a

MCIdOf == s1 :> a @@ s2 :> a
=============================================================================
