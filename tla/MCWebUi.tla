------------------------------- MODULE MCWebUi ------------------------------
(* A broker that is waking or ready: one state for each of the intervals.   *)
EXTENDS WebUi

MCStates == {"waking", "ready"}
=============================================================================
