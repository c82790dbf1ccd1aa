--------------------------- MODULE MCBrokerHistory --------------------------
(* One report, of a locked console: the user signals are not at stake.      *)
EXTENDS BrokerHistory

Locked == [ok |-> TRUE, any_session_active |-> "yes",
           sessions |-> {[state |-> "Active", locked |-> "yes", idle |-> Unknown]},
           gpu |-> Unknown]

MCReports == {Locked}
=============================================================================
