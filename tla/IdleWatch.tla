----------------------------- MODULE IdleWatch ------------------------------
(***************************************************************************)
(* The broker as the shutdown agent sees it, without its states, strikes   *)
(* and settings: a client that asks for the activity and may command a     *)
(* shutdown.  Broker implements it (ImplementsIdleWatch there);            *)
(* IdleShutdown puts the agent at its other end.                           *)
(***************************************************************************)
EXTENDS Naturals

CONSTANT MaxAwait   \* bound: ticks a call takes before its timeout

ASSUME WatchConstants == MaxAwait \in Nat

VARIABLES
    watch,      \* none, asking (GET /activity) or commanding (POST /shutdown)
    since,      \* ticks the call has taken
    allowed,    \* the last answer was a report that allows a shutdown
    command     \* the POST: none, sent, answered by the agent

watchVars == <<watch, since, allowed, command>>

WatchTypeOK ==
    /\ watch \in {"none", "asking", "commanding"} /\ since \in 0..MaxAwait
    /\ allowed \in BOOLEAN /\ command \in {"none", "sent", "answered"}

WatchInit == watch = "none" /\ since = 0 /\ allowed = FALSE /\ command = "none"

Call(next) == watch' = next /\ since' = 0

Asks == watch = "none" /\ Call("asking") /\ UNCHANGED <<allowed, command>>

\* An answer that is not acted on, whatever it says, or none.
Disregards ==
    /\ watch = "asking" /\ Call("none")
    /\ allowed' \in BOOLEAN /\ UNCHANGED command

\* The one way to a shutdown: the answer just received allows it.
Commands ==
    /\ watch = "asking" /\ Call("commanding")
    /\ allowed' = TRUE /\ command' = "sent"

Accepted == command = "sent" /\ command' = "answered" /\ UNCHANGED <<watch, since, allowed>>

\* Answered, failed or timed out: the command is not repeated or kept.
Returns ==
    /\ watch = "commanding" /\ Call("none")
    /\ command' = "none" /\ UNCHANGED allowed

WatchTick ==
    /\ watch # "none" /\ since < MaxAwait
    /\ since' = since + 1 /\ UNCHANGED <<watch, allowed, command>>

\* The broker dies and is started again.
Dies == Call("none") /\ allowed' = FALSE /\ command' = "none"

WatchNext == Asks \/ Disregards \/ Commands \/ Accepted \/ Returns \/ WatchTick \/ Dies

WatchSpec == WatchInit /\ [][WatchNext]_watchVars
=============================================================================
