------------------------------ MODULE IdleOrder -----------------------------
(***************************************************************************)
(* Two orders on the signals the idle decision reads, and a walk over      *)
(* them.  The decision is judged by how its verdict moves along the        *)
(* orders, which no list of example inputs shows.                          *)
(***************************************************************************)
EXTENDS IdlePolicy

CONSTANTS
    Reports,        \* the reports the walk visits
    Ages,           \* the ages, Never among them
    Streams         \* the stream counts

ASSUME WalkConstants == /\ Reports \subseteq Report
                        /\ Ages \subseteq Age
                        /\ Streams \subseteq Int

VARIABLE signals    \* the arguments of the next call of should_idle_shutdown

(***************************************************************************)
(* a is at least as quiet as b: every signal of a speaks for idleness at   *)
(* least as much as it does in b.                                          *)
(***************************************************************************)
LongerAgo(a, b) == a = Never \/ (b # Never /\ a >= b)

QuieterSession(a, b) ==
    /\ a.state = b.state \/ a.state = "Disconnected"
    /\ a.locked = b.locked \/ a.locked = "yes"
    /\ a.idle = b.idle \/ (b.idle = Unknown) \/ (a.idle # Unknown /\ a.idle >= b.idle)

QuieterReport(a, b) ==
    /\ b.ok => a.ok
    /\ b.any_session_active # "unknown" => a.any_session_active # "unknown"
    /\ \A s \in a.sessions : \E t \in b.sessions : QuieterSession(s, t)
    /\ a.gpu = b.gpu \/ (a.gpu # Unknown /\ b.gpu # Unknown /\ a.gpu <= b.gpu)

Quieter(a, b) ==
    /\ b.state = "ready" => a.state = "ready"
    /\ a.keep_awake => b.keep_awake
    /\ a.streams <= b.streams
    /\ b.ready # Never => a.ready # Never /\ a.ready >= b.ready
    /\ LongerAgo(a.llm, b.llm) /\ LongerAgo(a.wake, b.wake)
    /\ b.report_age # Never => a.report_age # Never /\ a.report_age <= b.report_age
    /\ \/ a.report = b.report
       \/ /\ a.report # NoReport
          /\ b.report # NoReport => QuieterReport(a.report, b.report)

(***************************************************************************)
(* a differs from b only in answers that b has and a lacks: no report, a   *)
(* null field, or ok:false.  The GPU reading is apart, BlurredGpu.         *)
(***************************************************************************)
BlurredSession(a, b) ==
    /\ a.state = b.state
    /\ a.locked \in {b.locked, "unknown"}
    /\ a.idle \in {b.idle, Unknown}

BlurredReport(a, b) ==
    /\ a.ok => b.ok
    /\ a.any_session_active \in {b.any_session_active, "unknown"}
    /\ \A t \in b.sessions : \E s \in a.sessions : BlurredSession(s, t)
    /\ a.gpu = b.gpu

BlurredGpu(a, b) ==
    /\ a.report # NoReport /\ b.report # NoReport
    /\ a = [b EXCEPT !.report.gpu = Unknown]

Blurred(a, b) ==
    /\ a.state = b.state /\ a.keep_awake = b.keep_awake /\ a.streams = b.streams
    /\ a.llm = b.llm /\ a.wake = b.wake
    /\ a.ready \in {b.ready, Never}
    /\ a.report_age \in {b.report_age, Never}
    /\ \/ a.report = NoReport
       \/ b.report # NoReport /\ BlurredReport(a.report, b.report)

-----------------------------------------------------------------------------
Visited == [state : {"ready", "waking"}, keep_awake : BOOLEAN, streams : Streams,
            ready : Ages, llm : Ages, wake : Ages,
            report : Reports \cup {NoReport}, report_age : Ages]

TypeOK == signals \in Visited

Init == TypeOK

(* One signal at a time takes any other value.                             *)
StateMoves     == \E v \in {"ready", "waking"} : signals' = [signals EXCEPT !.state = v]
KeepAwakeMoves == signals' = [signals EXCEPT !.keep_awake = ~@]
StreamsMove    == \E n \in Streams : signals' = [signals EXCEPT !.streams = n]
ClocksMove     == \E a \in Ages : \/ signals' = [signals EXCEPT !.ready = a]
                                  \/ signals' = [signals EXCEPT !.llm = a]
                                  \/ signals' = [signals EXCEPT !.wake = a]
                                  \/ signals' = [signals EXCEPT !.report_age = a]
ReportMoves    == \E r \in Reports \cup {NoReport} : signals' = [signals EXCEPT !.report = r]

Next == StateMoves \/ KeepAwakeMoves \/ StreamsMove \/ ClocksMove \/ ReportMoves

Spec == Init /\ [][Next]_signals

(***************************************************************************)
(* A call that follows one with an idle verdict and sees nothing but       *)
(* quieter signals (a longer silence, a session locked or gone, a lower    *)
(* GPU load, a pin taken off) finds the PC idle again: no guard of the     *)
(* decision has its comparison the wrong way round.                        *)
(***************************************************************************)
QuietStaysIdle ==
    [][Quieter(signals', signals) /\ ShouldIdleShutdown(signals)
         => ShouldIdleShutdown(signals')]_signals

(***************************************************************************)
(* "Every ambiguous or missing signal means user is active" (idle.py): a   *)
(* busy verdict never turns idle because the agent stopped answering       *)
(* something it had answered, GPU load apart.                              *)
(***************************************************************************)
BlurNeverIdles ==
    [][Blurred(signals', signals) /\ ShouldIdleShutdown(signals')
         => ShouldIdleShutdown(signals)]_signals

(***************************************************************************)
(* The same of the GPU reading, as agent.py's contract has it: "any null   *)
(* field MUST be treated by the broker as user is active".                 *)
(***************************************************************************)
NullGpuNeverIdles ==
    [][BlurredGpu(signals', signals) /\ ShouldIdleShutdown(signals')
         => ShouldIdleShutdown(signals)]_signals

(***************************************************************************)
(* "Unknown lock state or unknown idle time counts as in-use" (idle.py,    *)
(* _session_in_use): with such a session no verdict is idle.               *)
(***************************************************************************)
UnknownLockIsInUse ==
    ShouldIdleShutdown(signals) =>
        \A s \in signals.report.sessions : ~(s.state = "Active" /\ s.locked = "unknown")
=============================================================================
