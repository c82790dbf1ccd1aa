------------------------------ MODULE MCBroker ------------------------------
(* Reports for model checking Broker: a user at the console, a locked       *)
(* console; no answer is NoReport.                                          *)
EXTENDS Broker

Console(locked) == [state |-> "Active", locked |-> locked, idle |-> Unknown]
AnswerWith(sessions) ==
    [ok |-> TRUE, any_session_active |-> "yes", sessions |-> sessions, gpu |-> Unknown]

InUse  == AnswerWith({Console("no")})
Locked == AnswerWith({Console("yes")})

MCReports == {InUse, Locked}
NoReports == {}
=============================================================================
