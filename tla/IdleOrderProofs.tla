-------------------------- MODULE IdleOrderProofs ---------------------------
(***************************************************************************)
(* The idle decision respects both orders of IdleOrder, whatever the       *)
(* thresholds, the reports and the ages.                                   *)
(***************************************************************************)
EXTENDS IdleOrder, TLAPS

(***************************************************************************)
(* A quieter session is no more in use, and one that says less no less.    *)
(***************************************************************************)
LEMMA QuieterSessionUse ==
    ASSUME NEW s \in Session, NEW t \in Session, QuieterSession(s, t), SessionInUse(s)
    PROVE  SessionInUse(t)
  BY PolicyConstants DEF QuieterSession, SessionInUse, Session, Unknown, Tristate

LEMMA BlurredSessionUse ==
    ASSUME NEW s \in Session, NEW t \in Session, BlurredSession(s, t), SessionInUse(t)
    PROVE  SessionInUse(s)
  BY PolicyConstants DEF BlurredSession, SessionInUse, Session, Unknown, Tristate

(***************************************************************************)
(* The same of whole reports.                                              *)
(***************************************************************************)
LEMMA QuieterReportAllows ==
    ASSUME NEW r \in Report, NEW q \in Report, QuieterReport(r, q), ReportAllows(q)
    PROVE  ReportAllows(r)
  <1>1. r.ok /\ r.any_session_active # "unknown"
    BY DEF QuieterReport, ReportAllows
  <1>2. ASSUME NEW s \in r.sessions PROVE ~SessionInUse(s)
    <2>1. PICK t \in q.sessions : QuieterSession(s, t)
      BY DEF QuieterReport
    <2>2. s \in Session /\ t \in Session
      BY DEF Report
    <2>3. ~SessionInUse(t)
      BY DEF ReportAllows
    <2>4. QED BY <2>1, <2>2, <2>3, QuieterSessionUse
  <1>3. ~GpuBusy(r.gpu)
    BY PolicyConstants DEF QuieterReport, ReportAllows, GpuBusy, Report, Unknown
  <1>4. QED BY <1>1, <1>2, <1>3 DEF ReportAllows

LEMMA BlurredReportAllows ==
    ASSUME NEW r \in Report, NEW q \in Report, BlurredReport(r, q), ReportAllows(r)
    PROVE  ReportAllows(q)
  <1>1. q.ok /\ q.any_session_active # "unknown"
    BY DEF BlurredReport, ReportAllows
  <1>2. ASSUME NEW t \in q.sessions PROVE ~SessionInUse(t)
    <2>1. PICK s \in r.sessions : BlurredSession(s, t)
      BY DEF BlurredReport
    <2>2. s \in Session /\ t \in Session
      BY DEF Report
    <2>3. ~SessionInUse(s)
      BY DEF ReportAllows
    <2>4. QED BY <2>1, <2>2, <2>3, BlurredSessionUse
  <1>3. ~GpuBusy(q.gpu)
    BY DEF BlurredReport, ReportAllows
  <1>4. QED BY <1>1, <1>2, <1>3 DEF ReportAllows

(***************************************************************************)
(* Quieter signals keep an idle verdict idle, and signals with fewer       *)
(* answers keep a busy verdict busy, as facts about any two calls.         *)
(***************************************************************************)
LEMMA VerdictQuieter ==
    ASSUME NEW a \in Signals, NEW b \in Signals, Quieter(a, b), ShouldIdleShutdown(b)
    PROVE  ShouldIdleShutdown(a)
  <1>1. /\ IdleEnabled /\ a.state = "ready" /\ ~a.keep_awake /\ ~(a.streams > 0)
        /\ a.ready # Never
    BY DEF Quieter, ShouldIdleShutdown, Signals
  <1>2. /\ LongAgo(a.ready, IdleShutdown) /\ LongAgo(a.llm, IdleShutdown)
        /\ LongAgo(a.wake, IdleShutdown) /\ LongAgo(a.wake, WakeGrace)
    BY PolicyConstants
    DEF Quieter, LongerAgo, ShouldIdleShutdown, LongAgo, Signals, Age, Never
  <1>3. a.report_age # Never /\ a.report_age <= 2 * ActivityPoll
    BY PolicyConstants DEF Quieter, ShouldIdleShutdown, Signals, Age, Never
  <1>4. a.report # NoReport /\ ReportAllows(a.report)
    BY QuieterReportAllows DEF Quieter, ShouldIdleShutdown, Signals
  <1>5. QED BY <1>1, <1>2, <1>3, <1>4 DEF ShouldIdleShutdown

LEMMA VerdictBlurred ==
    ASSUME NEW a \in Signals, NEW b \in Signals, Blurred(a, b), ShouldIdleShutdown(a)
    PROVE  ShouldIdleShutdown(b)
  <1>1. b.report # NoReport /\ ReportAllows(b.report)
    BY BlurredReportAllows DEF Blurred, ShouldIdleShutdown, Signals
  <1>2. b.ready = a.ready /\ b.report_age = a.report_age
    BY DEF Blurred, ShouldIdleShutdown
  <1>3. QED BY <1>1, <1>2 DEF Blurred, ShouldIdleShutdown

(***************************************************************************)
(* Every state of the walk holds signals a call can be made with.          *)
(***************************************************************************)
LEMMA VisitedAreSignals == ASSUME NEW v \in Visited PROVE v \in Signals
  <1>1. /\ v.state \in {"ready", "waking"}
        /\ v.keep_awake \in BOOLEAN /\ v.streams \in Streams
        /\ v.ready \in Ages /\ v.llm \in Ages /\ v.wake \in Ages /\ v.report_age \in Ages
        /\ v.report \in Reports \cup {NoReport}
    BY DEF Visited
  <1>2. /\ v.state \in State /\ v.streams \in Int
        /\ v.ready \in Age /\ v.llm \in Age /\ v.wake \in Age /\ v.report_age \in Age
        /\ v.report \in Report \cup {NoReport}
    BY <1>1, WalkConstants DEF State
  <1>3. v = [state |-> v.state, keep_awake |-> v.keep_awake, streams |-> v.streams,
             ready |-> v.ready, llm |-> v.llm, wake |-> v.wake,
             report |-> v.report, report_age |-> v.report_age]
    BY DEF Visited
  <1>4. QED BY <1>1, <1>2, <1>3 DEF Signals

THEOREM TypeCorrect == Spec => []TypeOK
  <1>1. Init => TypeOK
    BY DEF Init
  <1>2. TypeOK /\ [Next]_signals => TypeOK'
    BY DEF TypeOK, Visited, Next, StateMoves, KeepAwakeMoves, StreamsMove, ClocksMove,
           ReportMoves
  <1>3. QED BY <1>1, <1>2, PTL DEF Spec

(***************************************************************************)
(* should_idle_shutdown is monotone: once idle, anything quieter is idle.  *)
(***************************************************************************)
THEOREM QuietStaysIdleTheorem == Spec => QuietStaysIdle
  <1>1. TypeOK /\ TypeOK'
          => [Quieter(signals', signals) /\ ShouldIdleShutdown(signals)
                => ShouldIdleShutdown(signals')]_signals
    BY VerdictQuieter, VisitedAreSignals DEF TypeOK
  <1>2. QED BY <1>1, TypeCorrect, PTL DEF QuietStaysIdle

(***************************************************************************)
(* should_idle_shutdown fails safe: losing an answer, GPU load apart,      *)
(* never makes a busy PC idle.                                             *)
(***************************************************************************)
THEOREM BlurNeverIdlesTheorem == Spec => BlurNeverIdles
  <1>1. TypeOK /\ TypeOK'
          => [Blurred(signals', signals) /\ ShouldIdleShutdown(signals')
                => ShouldIdleShutdown(signals)]_signals
    BY VerdictBlurred, VisitedAreSignals DEF TypeOK
  <1>2. QED BY <1>1, TypeCorrect, PTL DEF BlurNeverIdles
=============================================================================
