----------------------------- MODULE MCChatProxy ----------------------------
(* Two chats for the proxy, one locked console for the idle tick.           *)
EXTENDS ChatProxy, TLC

Locked == [ok |-> TRUE, any_session_active |-> "yes",
           sessions |-> {[state |-> "Active", locked |-> "yes", idle |-> Unknown]},
           gpu |-> Unknown]

MCReports == {Locked}
NoReports == {}
ChatSymmetry == Permutations(Chats)
=============================================================================
