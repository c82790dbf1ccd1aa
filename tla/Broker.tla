------------------------------- MODULE Broker -------------------------------
(***************************************************************************)
(* The broker of app/: the BrokerState singleton, the poll loop that       *)
(* drives it, the power, keep-awake and chat routes that touch it between  *)
(* two awaits of the loop, and the gaming PC they act on.                  *)
(*                                                                         *)
(* One asyncio event loop runs everything, so what lies between two awaits *)
(* is one step.  A tick of time is one poll_interval; an instant of the    *)
(* monotonic clock is kept as its age in ticks (Never when it is None).    *)
(* The chat proxy appears here only by what it may do to the shared state; *)
(* ChatProxy.tla has its handlers.                                         *)
(***************************************************************************)
EXTENDS IdlePolicy

CONSTANTS
    Reports,            \* the reports GET /activity may answer with
    PcMacSet,           \* settings.pc_mac is not empty
    AgentUrlSet,        \* settings.shutdown_agent_url is not empty
    HostTimeout,        \* settings.host_reachability_timeout, in ticks
    WolResend,          \* settings.wol_resend_interval, in ticks
    ModelTtl,           \* _MODEL_CACHE_TTL, in ticks
    RetriggerGuard,     \* _IDLE_RETRIGGER_GUARD, in ticks
    ConsecutiveChecks,  \* settings.idle_consecutive_checks
    MaxStreams,         \* bound: chats in flight at once; with 0 the proxy is not used
    UsesPowerOff,       \* bound: POST /api/power/off is used
    MaxAwait,           \* bound: ticks an awaited call takes before its timeout
    Horizon             \* bound: ages of a wake and of a packet stop growing here

ASSUME BrokerConstants ==
    /\ Reports \subseteq Report
    /\ {PcMacSet, AgentUrlSet, UsesPowerOff} \subseteq BOOLEAN
    /\ {HostTimeout, ModelTtl, RetriggerGuard, MaxStreams, MaxAwait, Horizon} \subseteq Nat
    /\ WolResend \in Nat \ {0} /\ ConsecutiveChecks \in Nat \ {0}

\* The horizon lies beyond every limit an age is compared with.
ASSUME HorizonIsFar ==
    /\ Horizon > HostTimeout + 1 + 3 * MaxAwait
    /\ Horizon > WolResend + 1 + 3 * MaxAwait
    /\ Horizon >= IdleShutdown /\ Horizon >= WakeGrace

\* The default settings leave room for a second packet: 300 s against 30 s.
ASSUME TimeToResend == HostTimeout >= WolResend + 1 + MaxAwait

\* An agent call is over before the retrigger guard is: 10 s against 300 s.
ASSUME GuardOutlastsCall == RetriggerGuard >= MaxAwait

VARIABLES
    \* fields of BrokerState
    state, pc_reachable, ollama_reachable, models, keep_awake,
    active_llm_streams, idle_strikes, activity_report,
    age,            \* ages of its instants, by the name of what happened
    \* the poll task
    loop,           \* the await it is at, or "apply": resumed with the answers
    waited,         \* ticks spent at that await
    pc_up, ollama_up, listed,   \* locals of _refresh
    \* requests to the agent's POST /shutdown, by who made them
    call,
    \* the PC
    power, ollama

status   == <<state, pc_reachable, ollama_reachable>>
proxied  == <<models, active_llm_streams>>
idleVars == <<keep_awake, idle_strikes, activity_report>>
polled   == <<pc_up, ollama_up, listed>>
loopVars == <<loop, waited, polled>>
pcVars   == <<power, ollama>>
brokerVars == <<status, proxied, idleVars, age, loopVars>>
vars == <<brokerVars, call, pcVars>>

Stamps == {"wake", "wol", "llm", "ready", "report", "trigger", "models"}
Callers == {"idle_tick", "power_off"}

Awaits == {"probe", "health", "models", "activity", "shutdown", "sleep"}

TypeOK ==
    /\ state \in State
    /\ pc_reachable \in BOOLEAN /\ ollama_reachable \in BOOLEAN /\ keep_awake \in BOOLEAN
    /\ models \in {"empty", "some"}
    /\ active_llm_streams \in 0..MaxStreams
    /\ idle_strikes \in 0..ConsecutiveChecks - 1
    /\ activity_report \in Reports \cup {NoReport}
    /\ age \in [Stamps -> Age]
    /\ loop \in Awaits \cup {"apply"} /\ waited \in 0..MaxAwait
    /\ pc_up \in BOOLEAN /\ ollama_up \in BOOLEAN /\ listed \in {"none", "empty", "some"}
    /\ call \in [Callers -> {"none", "sent", "answered"}]
    /\ power \in {"off", "booting", "up", "stopping"} /\ ollama \in BOOLEAN

-----------------------------------------------------------------------------
(***************************************************************************)
(* __init__ and the start of the poll task (main.lifespan).                *)
(***************************************************************************)
Init ==
    /\ state = "offline" /\ pc_reachable = FALSE /\ ollama_reachable = FALSE
    /\ models = "empty" /\ active_llm_streams = 0
    /\ keep_awake = FALSE /\ idle_strikes = 0 /\ activity_report = NoReport
    /\ age = [s \in Stamps |-> Never]
    /\ loop = "probe" /\ waited = 0
    /\ pc_up = FALSE /\ ollama_up = FALSE /\ listed = "none"
    /\ call = [c \in Callers |-> "none"]
    /\ power \in {"off", "up"} /\ ollama \in {FALSE, power = "up"}

-----------------------------------------------------------------------------
(***************************************************************************)
(* _refresh: three calls on the network, then the lock section, in which   *)
(* nothing is awaited.                                                     *)
(***************************************************************************)
Await(point) == loop' = point /\ waited' = 0

AgentAnswers  == power \in {"up", "stopping"}
OllamaAnswers == AgentAnswers /\ ollama

ModelsCacheStale == age["models"] = Never \/ age["models"] > ModelTtl

\* Line 101.  Any probe may time out; only a PC that listens accepts one.
ProbeAnswered ==
    /\ loop = "probe"
    /\ pc_up' \in {FALSE, AgentAnswers}
    /\ Await(IF pc_up' THEN "health" ELSE "apply")
    /\ UNCHANGED <<status, proxied, idleVars, age, ollama_up, listed, call, pcVars>>

\* Lines 102-105.
HealthAnswered ==
    /\ loop = "health"
    /\ ollama_up' \in {FALSE, OllamaAnswers}
    /\ Await(IF ollama_up' /\ ModelsCacheStale THEN "models" ELSE "apply")
    /\ UNCHANGED <<status, proxied, idleVars, age, pc_up, listed, call, pcVars>>

\* Lines 106-109.  A failure is logged and leaves models None.
ModelsAnswered ==
    /\ loop = "models"
    /\ listed' \in {"none"} \cup {l \in {"empty", "some"} : OllamaAnswers}
    /\ Await("apply")
    /\ UNCHANGED <<status, proxied, idleVars, age, pc_up, ollama_up, call, pcVars>>

\* Defects for the wake run: the timeout never fires, or fires before a retry.
NeverTimedOut    == FALSE
TimedOutAtOnce   == age["wake"] # Never
WakeTimedOut == age["wake"] # Never /\ age["wake"] > HostTimeout

\* Defect for the wake run: a poll that finds the PC down ends the wake.
WakeDropped ==
    IF pc_up THEN IF ollama_up THEN "ready" ELSE "ollama_starting"
    ELSE IF state \in {"timeout", "error"} THEN state
    ELSE "offline"
NextState ==
    IF pc_up THEN IF ollama_up THEN "ready" ELSE "ollama_starting"
    ELSE IF state = "waking" /\ WakeTimedOut THEN "timeout"
    ELSE IF state \in {"waking", "timeout", "error"} THEN state
    ELSE "offline"

\* Defect for the wake run: a packet is re-sent only when none was sent before.
ResendOnce == NextState = "waking" /\ ~pc_up /\ PcMacSet /\ age["wol"] = Never
ResendDue ==
    /\ NextState = "waking" /\ ~pc_up
    /\ PcMacSet
    /\ age["wol"] = Never \/ age["wol"] >= WolResend

\* One UDP broadcast: it wakes a PC that is off, or is lost; or the send raises,
\* which ends the caller, who has nothing left to do, and sends nothing.
SendMagicPacket ==
    /\ power' \in {power, IF power = "off" THEN "booting" ELSE power}
    /\ UNCHANGED ollama

\* Defects for the history and idle runs: the tick ignores the state, or never
\* fires twice.
DueInAnyState(current) ==
    /\ IdleEnabled
    /\ ~(age["trigger"] # Never /\ age["trigger"] < RetriggerGuard)
    /\ ~(age["report"] # Never /\ age["report"] < ActivityPoll)
DueOnce(current) ==
    /\ IdleEnabled /\ current = "ready"
    /\ age["trigger"] = Never
    /\ ~(age["report"] # Never /\ age["report"] < ActivityPoll)
\* Guards of _idle_tick, lines 167-179, in the state _refresh leaves.
IdleTickDue(current) ==
    /\ IdleEnabled /\ current = "ready"
    /\ ~(age["trigger"] # Never /\ age["trigger"] < RetriggerGuard)
    /\ ~(age["report"] # Never /\ age["report"] < ActivityPoll)

\* Lines 132-137.
ReadySince ==
    CASE state # "ready" /\ NextState = "ready" -> 0
      [] state = "ready" /\ NextState # "ready" -> Never
      [] OTHER -> age["ready"]

\* Defect for the history run: leaving ready keeps the strikes of the row.
StrikesKept   == idle_strikes
StrikesCarried == IF state = "ready" /\ NextState # "ready" THEN 0 ELSE idle_strikes

\* Lines 111-163, and the walk to the next await in _idle_tick or _poll_loop.
ApplyRefresh ==
    /\ loop = "apply"
    /\ state' = NextState
    /\ pc_reachable' = pc_up /\ ollama_reachable' = ollama_up
    /\ models' = IF ~pc_up THEN "empty" ELSE IF listed = "none" THEN models ELSE listed
    /\ age' = [age EXCEPT !["ready"]  = ReadySince,
                          !["models"] = IF ~pc_up THEN Never
                                        ELSE IF listed = "none" THEN @ ELSE 0,
                          !["wol"]    = IF ResendDue THEN 0 ELSE @]
    /\ idle_strikes' = StrikesCarried
    /\ IF ResendDue THEN SendMagicPacket ELSE UNCHANGED pcVars
    /\ Await(IF IdleTickDue(NextState) THEN "activity" ELSE "sleep")
    /\ pc_up' = FALSE /\ ollama_up' = FALSE /\ listed' = "none"
    /\ UNCHANGED <<active_llm_streams, keep_awake, activity_report, call>>

-----------------------------------------------------------------------------
(***************************************************************************)
(* _idle_tick from the answer of GET /activity on.  The verdict is over    *)
(* the state as it is then, not as it was when the tick began.             *)
(***************************************************************************)
\* Defects for the idle and history runs: chats or the wake are not looked at.
VerdictWithoutStreams(report) ==
    ShouldIdleShutdown([state |-> state, keep_awake |-> keep_awake, streams |-> 0,
                        ready |-> age["ready"], llm |-> Never, wake |-> age["wake"],
                        report |-> report, report_age |-> 0])
VerdictWithoutWake(report) ==
    ShouldIdleShutdown([state |-> state, keep_awake |-> keep_awake,
                        streams |-> active_llm_streams,
                        ready |-> age["ready"], llm |-> age["llm"], wake |-> Never,
                        report |-> report, report_age |-> 0])
\* Defect for the idle run: the report of the last tick is judged.
VerdictOfLastReport(report) ==
    ShouldIdleShutdown([state |-> state, keep_awake |-> keep_awake,
                        streams |-> active_llm_streams,
                        ready |-> age["ready"], llm |-> age["llm"], wake |-> age["wake"],
                        report |-> activity_report, report_age |-> 0])
Verdict(report) ==
    ShouldIdleShutdown([state |-> state, keep_awake |-> keep_awake,
                        streams |-> active_llm_streams,
                        ready |-> age["ready"], llm |-> age["llm"], wake |-> age["wake"],
                        report |-> report, report_age |-> 0])

\* Defect for the idle run: the row is one verdict longer.
RowOverrun  == idle_strikes + 1 > ConsecutiveChecks
RowComplete == idle_strikes + 1 >= ConsecutiveChecks

\* None on any failure of the call.
ActivityAnswered(report) ==
    /\ loop = "activity"
    /\ report # NoReport => AgentUrlSet /\ AgentAnswers
    /\ activity_report' = report
    /\ UNCHANGED <<status, proxied, keep_awake, polled, pcVars>>

\* Lines 196-200.
BusyVerdict(report) ==
    /\ ActivityAnswered(report) /\ ~Verdict(report)
    /\ idle_strikes' = 0
    /\ age' = [age EXCEPT !["report"] = 0]
    /\ Await("sleep")
    /\ UNCHANGED call

\* Lines 202-207.
IdleStrike(report) ==
    /\ ActivityAnswered(report) /\ Verdict(report)
    /\ ~RowComplete
    /\ idle_strikes' = idle_strikes + 1
    /\ age' = [age EXCEPT !["report"] = 0]
    /\ Await("sleep")
    /\ UNCHANGED call

\* Lines 209-215.
TriggerShutdown(report) ==
    /\ ActivityAnswered(report) /\ Verdict(report)
    /\ RowComplete
    /\ idle_strikes' = 0
    /\ age' = [age EXCEPT !["report"] = 0, !["trigger"] = 0]
    /\ call' = [call EXCEPT !["idle_tick"] = "sent"]
    /\ Await("shutdown")

\* Lines 216-218: a failure is logged, nothing is taken back.
TriggerReturns ==
    /\ loop = "shutdown"
    /\ call' = [call EXCEPT !["idle_tick"] = "none"]
    /\ Await("sleep")
    /\ UNCHANGED <<status, proxied, idleVars, age, polled, pcVars>>

IdleTick == \/ \E r \in Reports \cup {NoReport} :
                 BusyVerdict(r) \/ IdleStrike(r) \/ TriggerShutdown(r)
            \/ TriggerReturns

PollStep == ProbeAnswered \/ HealthAnswered \/ ModelsAnswered \/ ApplyRefresh \/ IdleTick

-----------------------------------------------------------------------------
(***************************************************************************)
(* POST /api/power/on (power_on, request_wake).  Any request stamps the    *)
(* wake; one that finds the PC waking or up sends nothing.                 *)
(***************************************************************************)
PcAwakeStates == {"host_up", "ollama_starting", "ready", "waking"}

WakeWhileAwake ==
    /\ PcMacSet /\ state \in PcAwakeStates
    /\ age' = [age EXCEPT !["wake"] = 0]
    /\ UNCHANGED <<status, proxied, idleVars, loopVars, call, pcVars>>

WakeFromSleep ==
    /\ PcMacSet /\ state \notin PcAwakeStates
    /\ state' = "waking"
    /\ age' = [age EXCEPT !["wake"] = 0, !["wol"] = 0]
    /\ SendMagicPacket
    /\ UNCHANGED <<pc_reachable, ollama_reachable, proxied, idleVars, loopVars, call>>

RequestWake == WakeWhileAwake \/ WakeFromSleep

\* POST /api/power/off.  Bound: one such request at a time.
PowerOff ==
    /\ AgentUrlSet /\ UsesPowerOff
    /\ call["power_off"] = "none"
    /\ call' = [call EXCEPT !["power_off"] = "sent"]
    /\ UNCHANGED <<brokerVars, pcVars>>

PowerOffReturns ==
    /\ call["power_off"] # "none"
    /\ call' = [call EXCEPT !["power_off"] = "none"]
    /\ UNCHANGED <<brokerVars, pcVars>>

\* Defect for the history run: unpinning keeps the strikes of the row.
PinOnly(enabled) ==
    /\ keep_awake' = enabled
    /\ UNCHANGED <<status, proxied, idle_strikes, activity_report, age, loopVars, call, pcVars>>
\* POST /api/idle/keep_awake.
SetKeepAwake(enabled) ==
    /\ keep_awake' = enabled
    /\ idle_strikes' = 0
    /\ UNCHANGED <<status, proxied, activity_report, age, loopVars, call, pcVars>>

(***************************************************************************)
(* What the chat proxy may do to the broker state at any moment: count a   *)
(* chat in or out and note the activity, or fill in the model list.        *)
(***************************************************************************)
ProxyChats ==
    /\ MaxStreams > 0
    /\ active_llm_streams' \in {active_llm_streams - 1, active_llm_streams,
                                active_llm_streams + 1} \cap 0..MaxStreams
    /\ age' = [age EXCEPT !["llm"] = 0]
    /\ UNCHANGED <<status, models, idleVars, loopVars, call, pcVars>>

ProxyLists ==
    /\ MaxStreams > 0
    /\ models' \in {"empty", "some"}
    /\ UNCHANGED <<status, active_llm_streams, idleVars, age, loopVars, call, pcVars>>

\* The broker process dies and starts again; every field is lost.
Restart ==
    /\ state' = "offline" /\ pc_reachable' = FALSE /\ ollama_reachable' = FALSE
    /\ models' = "empty" /\ active_llm_streams' = 0
    /\ keep_awake' = FALSE /\ idle_strikes' = 0 /\ activity_report' = NoReport
    /\ age' = [s \in Stamps |-> Never]
    /\ Await("probe")
    /\ pc_up' = FALSE /\ ollama_up' = FALSE /\ listed' = "none"
    /\ call' = [c \in Callers |-> "none"]
    /\ UNCHANGED pcVars

-----------------------------------------------------------------------------
(***************************************************************************)
(* The PC: external but for the agent's do_POST, which answers 202 before  *)
(* it runs the command.                                                    *)
(***************************************************************************)
\* The command stops the PC, with /f whatever runs on it; in a dry run, and
\* when it fails, nothing happens.
RunShutdown == power' \in {power, "stopping"}

AgentAccepts(caller) ==
    /\ call[caller] = "sent" /\ AgentAnswers
    /\ call' = [call EXCEPT ![caller] = "answered"]
    /\ RunShutdown
    /\ UNCHANGED <<brokerVars, ollama>>

PowerButton == /\ power \in {"off", "up"}
               /\ power' = IF power = "off" THEN "booting" ELSE "stopping"
               /\ UNCHANGED <<brokerVars, call, ollama>>
PcBoots     == /\ power = "booting" /\ power' = "up"
               /\ UNCHANGED <<brokerVars, call, ollama>>
PcStops     == /\ power = "stopping" /\ power' = "off" /\ ollama' = FALSE
               /\ UNCHANGED <<brokerVars, call>>
PowerLoss   == /\ power # "off" /\ power' = "off" /\ ollama' = FALSE
               /\ UNCHANGED <<brokerVars, call>>
OllamaFlips == /\ power = "up" /\ ollama' = ~ollama
               /\ UNCHANGED <<brokerVars, call, power>>

Pc == PowerButton \/ PcBoots \/ PcStops \/ OllamaFlips

-----------------------------------------------------------------------------
(***************************************************************************)
(* Time.  The loop sleeps one tick; an awaited call is over, answered or   *)
(* timed out, within MaxAwait.  Resuming with an answer takes no time.     *)
(***************************************************************************)
Cap == [s \in Stamps |-> CASE s \in {"wake", "wol"}  -> Horizon
                           [] s \in {"llm", "ready"} -> IdleShutdown
                           [] s = "report"           -> ActivityPoll
                           [] s = "trigger"          -> RetriggerGuard
                           [] s = "models"           -> ModelTtl + 1]

Older(a, cap) == IF a = Never \/ a >= cap THEN a ELSE a + 1

Tick ==
    /\ \/ loop = "sleep" /\ Await("probe")
       \/ /\ loop \notin {"sleep", "apply"} /\ waited < MaxAwait
          /\ waited' = waited + 1 /\ UNCHANGED loop
    /\ age' = [s \in Stamps |-> Older(age[s], Cap[s])]
    /\ UNCHANGED <<status, proxied, idleVars, polled, call, pcVars>>

Operator == RequestWake \/ PowerOff \/ PowerOffReturns \/ \E b \in BOOLEAN : SetKeepAwake(b)

Next ==
    \/ PollStep
    \/ Operator
    \/ ProxyChats \/ ProxyLists
    \/ \E c \in Callers : AgentAccepts(c)
    \/ Pc \/ PowerLoss
    \/ Restart
    \/ Tick

SafeSpec == Init /\ [][Next]_vars

\* Every await of the loop has a timeout and the event loop runs what is ready.
Fairness == WF_vars(PollStep) /\ WF_vars(Tick)

Spec == SafeSpec /\ Fairness

-----------------------------------------------------------------------------
(***************************************************************************)
(* The flags GET /api/status shows agree with the state, ready_since is    *)
(* set exactly while ready, and no strike outlives readiness: though the   *)
(* fields are written by three handlers, no mix of them is ever seen.      *)
(***************************************************************************)
StatusConsistent ==
    /\ pc_reachable <=> state \in {"ollama_starting", "ready"}
    /\ ollama_reachable <=> state = "ready"
    /\ age["ready"] # Never <=> state = "ready"
    /\ idle_strikes > 0 => state = "ready"

(***************************************************************************)
(* While the idle tick awaits the agent the PC stays ready: nothing takes  *)
(* back, during the await, the guard _idle_tick read before it.            *)
(***************************************************************************)
TickOwnsReady == loop \in {"activity", "shutdown"} => state = "ready"

\* Ticks since the lock section of _refresh was last at the state it left.
Slack ==
    CASE loop = "sleep"  -> 0
      [] loop = "probe"  -> 1 + waited
      [] loop = "health" -> 1 + MaxAwait + waited
      [] loop = "models" -> 1 + 2 * MaxAwait + waited
      [] loop = "apply"  -> IF pc_up THEN 1 + 3 * MaxAwait ELSE 1 + MaxAwait
      [] OTHER           -> 0

(***************************************************************************)
(* A wake is given up in time: waking lasts no longer than the configured  *)
(* timeout after the last request and the poll cycle that notices.         *)
(***************************************************************************)
WakeDeadline ==
    state = "waking" => age["wake"] # Never /\ age["wake"] <= HostTimeout + Slack

(***************************************************************************)
(* One lost packet does not sink the wake: while waking, the last packet   *)
(* is never older than the resend interval and the poll cycle that is due. *)
(***************************************************************************)
ResendCadence ==
    state = "waking" => age["wol"] # Never /\ age["wol"] < WolResend + Slack

(***************************************************************************)
(* A wake is not given up on its first packet: at the step to timeout, a   *)
(* packet was sent after the request whose deadline has passed.            *)
(***************************************************************************)
RetriedBeforeGiveUp ==
    [][state = "waking" /\ state' = "timeout" => age["wol"] < age["wake"]]_vars

(***************************************************************************)
(* A chat can be in flight while the shutdown the idle verdict asked for   *)
(* is under way only if it came after the verdict: none was overlooked.    *)
(***************************************************************************)
LateComersOnly ==
    loop = "shutdown" /\ active_llm_streams > 0
      => age["llm"] # Never /\ age["llm"] <= age["trigger"]

(***************************************************************************)
(* Waking is left again and again, unless the operator presses power-on    *)
(* for ever: each press restarts the timeout.                              *)
(***************************************************************************)
WakeSettles == []<>(state # "waking") \/ []<>(age["wake"] = 0)

Calm ==
    /\ state = "ready" /\ ~keep_awake /\ active_llm_streams = 0
    /\ age["wake"] # 0 /\ age["llm"] # 0
    /\ activity_report # NoReport /\ ReportAllows(activity_report)

\* Somebody resets a row of strikes from outside the loop.
RowBroken == idle_strikes > 0 /\ idle_strikes' = 0 /\ UNCHANGED loop

(***************************************************************************)
(* A PC that is ready, unpinned, unused and reported idle from some time   *)
(* on is asked to shut down, and again if it stays on: neither the strike  *)
(* count nor the retrigger guard nor the report cache wedges the tick.     *)
(***************************************************************************)
IdleShutdownRequested ==
    <>[]Calm => []<>(loop = "shutdown") \/ []<><<RowBroken>>_vars

-----------------------------------------------------------------------------
\* What WakeLife sees of the broker.
Phase ==
    CASE state \in {"host_up", "ollama_starting", "ready"} -> "awake"
      [] state = "waking"  -> "waking"
      [] state = "timeout" -> "given_up"
      [] OTHER             -> "asleep"

Retried == state = "waking" /\ age["wol"] < age["wake"]

Life == INSTANCE WakeLife
            WITH phase <- Phase, asked <- age["wake"] # Never, retried <- Retried

(***************************************************************************)
(* However polls, requests, lost packets and late answers interleave, a    *)
(* wake once asked for stays a wake until the PC is seen up or it is given *)
(* up after a retry, and a given-up one stays so until the PC is seen or   *)
(* asked for again; only a restart of the broker forgets it.               *)
(***************************************************************************)
ImplementsWakeLife == Life!LifeSpec

-----------------------------------------------------------------------------
\* What IdleWatch sees of the broker.
WatchOf == CASE loop = "activity" -> "asking" [] loop = "shutdown" -> "commanding"
             [] OTHER -> "none"

Watch == INSTANCE IdleWatch
            WITH watch   <- WatchOf,
                 since   <- IF WatchOf = "none" THEN 0 ELSE waited,
                 allowed <- activity_report # NoReport /\ ReportAllows(activity_report),
                 command <- call["idle_tick"]

(***************************************************************************)
(* To the agent the broker is a client that commands a shutdown only when  *)
(* the answer it has just received allows one, once per answer, and that   *)
(* gives up on a call in bounded time: no earlier report, no late answer   *)
(* and no restart in between makes it command another.                     *)
(***************************************************************************)
ImplementsIdleWatch == Watch!WatchSpec
=============================================================================
