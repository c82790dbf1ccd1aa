----------------------------- MODULE IdlePolicy -----------------------------
(***************************************************************************)
(* The idle auto-shutdown decision of app/services/idle.py: a pure         *)
(* function of what the broker knows when the agent's activity report      *)
(* arrives.  Instants of the monotonic clock are ages here (ticks elapsed  *)
(* since the instant), and Never is the age of an instant that is None.    *)
(***************************************************************************)
EXTENDS Integers

CONSTANTS
    IdleEnabled,    \* settings.idle_shutdown_enabled
    IdleShutdown,   \* settings.idle_shutdown_minutes, in ticks
    WakeGrace,      \* settings.idle_post_wake_grace_minutes, in ticks
    ActivityPoll,   \* settings.idle_activity_poll_interval, in ticks
    UserThreshold,  \* settings.idle_user_threshold_minutes
    GpuThreshold,   \* settings.idle_gpu_util_threshold, 0 disables the check
    NoReport        \* None where a report from the agent is expected

Never   == -1       \* None where an instant is expected
Unknown == -1       \* null idle_seconds or gpu_util_percent

ASSUME PolicyConstants ==
    /\ IdleEnabled \in BOOLEAN
    /\ IdleShutdown \in Nat \ {0}
    /\ WakeGrace \in Nat
    /\ ActivityPoll \in Nat \ {0}
    /\ UserThreshold \in Nat
    /\ GpuThreshold \in Nat

(***************************************************************************)
(* What GET /activity returns.  The fields the decision does not read are  *)
(* left out.                                                               *)
(***************************************************************************)
Tristate == {"yes", "no", "unknown"}
Session  == [state : {"Active", "Disconnected"}, locked : Tristate,
             idle : Nat \cup {Unknown}]
Report   == [ok : BOOLEAN, any_session_active : Tristate,
             sessions : SUBSET Session, gpu : Nat \cup {Unknown}]

ASSUME NoReportIsNone == NoReport \notin Report

(***************************************************************************)
(* The arguments of should_idle_shutdown.                                  *)
(***************************************************************************)
State   == {"offline", "waking", "host_up", "ollama_starting", "ready", "timeout", "error"}
Age     == Nat \cup {Never}
Signals == [state : State, keep_awake : BOOLEAN, streams : Int,
            ready : Age, llm : Age, wake : Age,
            report : Report \cup {NoReport}, report_age : Age]

\* Defect for the idle_order run: null idle_seconds compared as a number that passes.
SessionInUseIfKnown(s) ==
    /\ s.state = "Active"
    /\ s.locked # "yes"
    /\ s.idle # Unknown /\ s.idle < UserThreshold

SessionInUse(s) ==
    /\ s.state = "Active"
    /\ s.locked # "yes"
    /\ s.idle = Unknown \/ s.idle < UserThreshold

\* Defect for the idle_order run: the GPU comparison the wrong way round.
GpuQuiet(gpu) == GpuThreshold > 0 /\ gpu # Unknown /\ gpu < GpuThreshold

GpuBusy(gpu) == GpuThreshold > 0 /\ gpu # Unknown /\ gpu > GpuThreshold

ReportAllows(r) ==
    /\ r.ok
    /\ r.any_session_active # "unknown"
    /\ \A s \in r.sessions : ~SessionInUse(s)
    /\ ~GpuBusy(r.gpu)

(* now - max(instants) < limit, an instant that is None counting as 0.0.   *)
LongAgo(age, limit) == age # Never => age >= limit

ShouldIdleShutdown(in) ==
    /\ IdleEnabled
    /\ in.state = "ready"
    /\ ~in.keep_awake
    /\ ~(in.streams > 0)
    /\ in.ready # Never
    /\ \A age \in {in.ready, in.llm, in.wake} : LongAgo(age, IdleShutdown)
    /\ LongAgo(in.wake, WakeGrace)
    /\ in.report # NoReport
    /\ in.report_age # Never /\ in.report_age <= 2 * ActivityPoll
    /\ ReportAllows(in.report)
=============================================================================
