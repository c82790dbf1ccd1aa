----------------------------- MODULE MCGpuCache -----------------------------
(* Handler threads, which are interchangeable.                              *)
EXTENDS GpuCache, TLC

HandlerSymmetry == Permutations(Handlers)
=============================================================================
