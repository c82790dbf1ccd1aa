--------------------------- MODULE MCActivityAgent --------------------------
(* A GPU that says nothing; the accounts are given in the .cfg.             *)
EXTENDS ActivityAgent

MCGpu == {Unknown}
=============================================================================
