---------------------------- MODULE BrokerHistory ---------------------------
(***************************************************************************)
(* Broker with what its users remember and it may have forgotten: when the *)
(* PC was last asked to wake or chatted with, and when keep-awake was last *)
(* set.  A restart of the broker leaves these alone.                       *)
(***************************************************************************)
EXTENDS Broker

RowSpan == (ConsecutiveChecks - 1) * ActivityPoll

VARIABLES
    used,       \* ticks since the last POST /api/power/on or activity of a chat,
                \* up to IdleShutdown
    pinned      \* ticks since the last POST /api/idle/keep_awake, up to RowSpan

history == <<used, pinned>>
hvars   == <<vars, history>>

HistoryTypeOK == used \in Age /\ pinned \in Age

HInit == Init /\ used = Never /\ pinned = Never

AskWake == RequestWake /\ used' = 0 /\ UNCHANGED pinned

Chat == ProxyChats /\ used' = 0 /\ UNCHANGED pinned

Pin == (\E b \in BOOLEAN : SetKeepAwake(b)) /\ pinned' = 0 /\ UNCHANGED used

HTick ==
    /\ Tick
    /\ used' = Older(used, IdleShutdown)
    /\ pinned' = Older(pinned, RowSpan)

Unremarked ==
    /\ \/ PollStep \/ PowerOff \/ PowerOffReturns \/ ProxyLists
       \/ (\E c \in Callers : AgentAccepts(c)) \/ Pc \/ PowerLoss \/ Restart
    /\ UNCHANGED history

HNext == AskWake \/ Chat \/ Pin \/ HTick \/ Unremarked

HSpec == HInit /\ [][HNext]_hvars

-----------------------------------------------------------------------------
Triggers == loop = "activity" /\ loop' = "shutdown"

(***************************************************************************)
(* "Powers the PC off after sustained inactivity" (README): no shutdown is *)
(* triggered before IdleShutdown has passed since the PC was last asked to *)
(* wake or chatted with, though a broker restarted in between knows of     *)
(* neither; nor, as long as it is no longer than that, within the grace    *)
(* that IDLE_POST_WAKE_GRACE_MINUTES promises after a wake.                *)
(***************************************************************************)
NoAutoOffWhileUsed == [][Triggers => used = Never \/ used >= IdleShutdown]_hvars

(***************************************************************************)
(* Touching keep-awake starts the row of idle verdicts over: no shutdown   *)
(* is triggered before ConsecutiveChecks fresh reports have come since.    *)
(***************************************************************************)
PinRestartsRow ==
    [][Triggers => pinned = Never \/ pinned >= RowSpan]_hvars
=============================================================================
