---------------------------- MODULE MCIdleOrder -----------------------------
(* Small values for IdleOrder: one tick for every idle limit, at most one   *)
(* session on the PC, a threshold in the middle of the readings.            *)
EXTENDS IdleOrder

SomeSessions == {s \in [state : {"Active", "Disconnected"}, locked : Tristate,
                        idle : {Unknown, 0, 1}] :
                    s.state = "Disconnected" => s.locked = "unknown" /\ s.idle = 0}

MCReports ==
    [ok : BOOLEAN, any_session_active : {"yes", "unknown"},
     sessions : {{}} \cup {{s} : s \in SomeSessions}, gpu : {Unknown, 0, 2}]

MCAges    == {Never, 0, 3}
MCStreams == 0..1
=============================================================================
