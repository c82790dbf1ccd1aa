--------------------------- MODULE MCIdleShutdown ---------------------------
(* A GPU that says nothing; the account is given in the .cfg.               *)
EXTENDS IdleShutdown

MCGpu == {Unknown}
=============================================================================
