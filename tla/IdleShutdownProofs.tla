------------------------- MODULE IdleShutdownProofs -------------------------
(***************************************************************************)
(* Agent and broker together never cut off the owner of the PC.  What is   *)
(* proved of the agent alone holds here, as every step of the composition  *)
(* is a step of each part or leaves it alone; what is new is the fact on   *)
(* its way from one to the other.                                          *)
(***************************************************************************)
EXTENDS IdleShutdown, ActivityProofs

LEMMA AwaitType == MaxAwait \in Nat /\ 0 \in 0..MaxAwait
  BY WatchConstants

LEMMA WatchTypeStep ==
    ASSUME WatchTypeOK, [WatchNext]_watchVars
    PROVE  WatchTypeOK'
  <1>1. CASE Asks \/ Disregards \/ Commands \/ Returns \/ Dies
    BY <1>1, AwaitType DEF WatchTypeOK, Asks, Disregards, Commands, Returns, Dies, Call
  <1>2. CASE Accepted
    BY <1>2 DEF WatchTypeOK, Accepted
  <1>3. CASE WatchTick
    BY <1>3, AwaitType DEF WatchTypeOK, WatchTick
  <1>4. CASE UNCHANGED watchVars
    BY <1>4 DEF WatchTypeOK, watchVars
  <1>5. QED BY <1>1, <1>2, <1>3, <1>4 DEF WatchNext

\* Each step of the whole is a step of the agent, or none, and of the broker, or none.
LEMMA PartsStep ==
    ASSUME [SNext]_svars
    PROVE  [ANext]_avars /\ [WatchNext]_watchVars
  <1>1. CASE Around
    BY <1>1 DEF Around, ANext, watchVars
  <1>2. CASE Serve \/ Continue \/ Answer
    BY <1>2 DEF Serve, Continue, Answer, ANext, Handling, watchVars
  <1>3. CASE SendQuery \/ Receive \/ GiveUpQuery \/ RunCommand \/ EndCommand \/ BrokerDies
    BY <1>3 DEF SendQuery, Receive, GiveUpQuery, RunCommand, EndCommand, BrokerDies, WatchNext
  <1>4. CASE OneTick
    BY <1>4 DEF OneTick, ANext, WatchNext
  <1>5. CASE UNCHANGED svars
    BY <1>5 DEF svars
  <1>6. QED BY <1>1, <1>2, <1>3, <1>4, <1>5 DEF SNext

(***************************************************************************)
(* The composition implements the agent and the broker's view of it, so    *)
(* both keep the promises proved of them.                                  *)
(***************************************************************************)
THEOREM PartsTheorem == SSpec => ASpec /\ WatchSpec
  <1>1. SInit => AInit /\ WatchInit
    BY DEF SInit
  <1>2. QED BY <1>1, PartsStep, PTL DEF SSpec, ASpec, WatchSpec

-----------------------------------------------------------------------------
(***************************************************************************)
(* The way of a fact: the request of the present call is younger than the  *)
(* call, so is the answer with what it overlooks, and so is the command.   *)
(***************************************************************************)
AskInv     == query \in Queries /\ (query # "none" => watch = "asking")
RequestInv == query = "served" /\ handler # "none" => waited <= since
AnswerInv  == query = "allows" => at_work[Owner] <= MaxFileAge + MaxSkew + since
CommandInv ==
    command # "none" =>
        /\ watch = "commanding"
        /\ at_work[Owner] <= MaxFileAge + MaxSkew + MaxAwait + since

WayInv == AskInv /\ RequestInv /\ AnswerInv /\ CommandInv

LEMMA WayNumbers ==
    ASSUME OwnerInv, WatchTypeOK
    PROVE  /\ at_work[Owner] \in Nat /\ waited \in Nat /\ since \in Nat /\ since <= MaxAwait
           /\ MaxFileAge \in Nat /\ MaxSkew \in Nat /\ MaxAwait \in Nat
  BY OwnerNumbers, AwaitType, LagType DEF WatchTypeOK

\* What the people do and the reporter notes never adds to the time at work.
LEMMA AroundKeeps ==
    ASSUME OwnerInv, OwnerInv', WatchTypeOK, WayInv, Around
    PROVE  WayInv'
  <1>1. UNCHANGED <<handler, waited, watch, since, command, query>>
    BY DEF Around, watchVars, Someone, SitsDown, Leaves, Locks, Inputs, Reporting,
       ReporterStarts, ReporterDies, ReporterWrites, ClockStepped, request
  <1>2. at_work'[Owner] \in Nat /\ at_work'[Owner] <= at_work[Owner]
    <2>1. at_work'[Owner] \in Nat
      BY LagType DEF OwnerInv, ActivityTypeOK
    <2>2. CASE \E u \in Users : Someone(u)
      <3>1. Remember(0)
        BY <2>2 DEF Someone, SitsDown, Leaves, Locks, Inputs
      <3>2. at_work'[Owner] <= at_work[Owner] + 0
        BY <3>1, AtWorkMoves DEF OwnerInv
      <3>3. QED BY <2>1, <3>2, OwnerNumbers
    <2>3. CASE Reporting \/ \E by \in {-1, 1} : ClockStepped(by)
      <3>1. at_work' = at_work
        BY <2>3 DEF Reporting, ReporterStarts, ReporterDies, ReporterWrites, ClockStepped
      <3>2. QED BY <3>1, OwnerNumbers
    <2>4. QED BY <2>2, <2>3 DEF Around
  <1>3. QED
    BY <1>1, <1>2, WayNumbers DEF WayInv, AskInv, RequestInv, AnswerInv, CommandInv

\* What the handler builds for the present call is as old as the call.
LEMMA ServingKeeps ==
    ASSUME OwnerInv, WatchTypeOK, WayInv, Serve \/ Continue \/ Answer
    PROVE  WayInv'
  <1>1. UNCHANGED <<at_work, watch, since, command>>
    BY DEF Serve, Continue, Answer, watchVars, EnumerateSessions, EnumerationFails,
       BuildReport, Reply
  <1>2. CommandInv'
    BY <1>1 DEF WayInv, CommandInv
  <1>3. CASE Serve
    <2>1. query = "sent" /\ query' = "served" /\ waited' = 0
      BY <1>3 DEF Serve, EnumerateSessions, EnumerationFails
    <2>2. QED
      BY <1>1, <1>2, <2>1, WayNumbers
      DEF WayInv, AskInv, RequestInv, AnswerInv, Queries
  <1>4. CASE Continue
    BY <1>1, <1>2, <1>4
    DEF Continue, BuildReport, WayInv, AskInv, RequestInv, AnswerInv
  <1>5. CASE Answer
    <2>1. /\ handler = "ready" /\ handler' = "none"
          /\ \/ query' = query
             \/ /\ query = "served" /\ query' \in {"allows", "busy"}
                /\ query' = "allows" => ReportAllows(report)
      BY <1>5 DEF Answer, Reply
    <2>2. AskInv' /\ RequestInv'
      BY <1>1, <2>1 DEF WayInv, AskInv, RequestInv, Queries
    <2>3. AnswerInv'
      <3>1. CASE query' = query
        BY <1>1, <3>1 DEF WayInv, AnswerInv
      <3>2. CASE query = "served" /\ query' = "allows"
        <4>1. Allows
          BY <2>1, <3>2 DEF Allows
        <4>2. at_work[Owner] <= MaxFileAge + MaxSkew + waited
          BY <4>1 DEF OwnerInv, ReportInv
        <4>3. waited <= since
          BY <2>1, <3>2 DEF WayInv, RequestInv
        <4>4. at_work[Owner] <= MaxFileAge + MaxSkew + since
          BY <4>2, <4>3, WayNumbers
        <4>5. QED BY <1>1, <4>4 DEF AnswerInv
      <3>3. QED BY <2>1, <3>1, <3>2 DEF AnswerInv
    <2>4. QED BY <1>2, <2>2, <2>3 DEF WayInv
  <1>6. QED BY <1>3, <1>4, <1>5

\* The broker commands on an answer of its present call, or on none.
LEMMA BrokerKeeps ==
    ASSUME OwnerInv, WatchTypeOK, WayInv,
           SendQuery \/ Receive \/ GiveUpQuery \/ RunCommand \/ EndCommand \/ BrokerDies
    PROVE  WayInv'
  <1>1. UNCHANGED <<at_work, handler, waited>>
    BY DEF SendQuery, Receive, GiveUpQuery, RunCommand, EndCommand, BrokerDies, avars, request
  <1>2. CASE SendQuery
    BY <1>1, <1>2 DEF SendQuery, Asks, Call, WayInv, AskInv, RequestInv, AnswerInv,
       CommandInv, Queries
  <1>3. CASE GiveUpQuery \/ (Receive /\ Disregards)
    <2>1. query' = "none" /\ watch = "asking" /\ command' = command
      BY <1>3 DEF GiveUpQuery, Receive, Disregards
    <2>2. command = "none"
      BY <2>1 DEF WayInv, CommandInv
    <2>3. QED
      BY <2>1, <2>2 DEF WayInv, AskInv, RequestInv, AnswerInv, CommandInv, Queries
  <1>4. CASE Receive /\ Commands
    <2>1. /\ query' = "none" /\ query = "allows"
          /\ watch' = "commanding" /\ since' = 0
      BY <1>4 DEF Receive, Commands, Disregards, Call
    <2>2. at_work[Owner] <= MaxFileAge + MaxSkew + MaxAwait + 0
      BY <2>1, WayNumbers DEF WayInv, AnswerInv
    <2>3. QED
      BY <1>1, <2>1, <2>2 DEF WayInv, AskInv, RequestInv, AnswerInv, CommandInv, Queries
  <1>5. CASE RunCommand
    BY <1>1, <1>5 DEF RunCommand, Accepted, WayInv, AskInv, RequestInv, AnswerInv, CommandInv
  <1>6. CASE EndCommand
    <2>1. watch = "commanding" /\ query' = query /\ command' = "none"
      BY <1>6 DEF EndCommand, Returns
    <2>2. query = "none"
      BY <2>1 DEF WayInv, AskInv
    <2>3. QED
      BY <2>1, <2>2 DEF WayInv, AskInv, RequestInv, AnswerInv, CommandInv, Queries
  <1>7. CASE BrokerDies
    BY <1>7 DEF BrokerDies, Dies, WayInv, AskInv, RequestInv, AnswerInv, CommandInv, Queries
  <1>8. QED BY <1>2, <1>3, <1>4, <1>5, <1>6, <1>7 DEF Receive

\* One clock: a tick adds as much to the call as to the request and the work.
LEMMA TickKeeps ==
    ASSUME OwnerInv, OwnerInv', WatchTypeOK, WayInv, OneTick
    PROVE  WayInv'
  <1>1. /\ query' = query /\ handler' = handler
        /\ handler # "none" => waited' = waited + 1
        /\ Remember(1)
    BY DEF OneTick, TimeTick
  <1>2. at_work'[Owner] \in Nat /\ at_work'[Owner] <= at_work[Owner] + 1
    BY <1>1, AtWorkMoves, LagType DEF OwnerInv, ActivityTypeOK
  <1>3. CASE watch = "none"
    <2>1. query = "none" /\ command = "none"
      BY <1>3 DEF WayInv, AskInv, CommandInv
    <2>2. command' = "none"
      BY <1>3, <2>1 DEF OneTick, watchVars
    <2>3. QED
      BY <1>1, <2>1, <2>2 DEF WayInv, AskInv, RequestInv, AnswerInv, CommandInv
  <1>4. CASE watch # "none"
    <2>1. since' = since + 1 /\ watch' = watch /\ command' = command
      BY <1>4 DEF OneTick, WatchTick
    <2>2. AskInv'
      BY <1>1, <2>1 DEF WayInv, AskInv
    <2>3. RequestInv'
      BY <1>1, <2>1, WayNumbers DEF WayInv, RequestInv
    <2>4. AnswerInv' /\ CommandInv'
      BY <1>1, <1>2, <2>1, WayNumbers DEF WayInv, AnswerInv, CommandInv
    <2>5. QED BY <2>2, <2>3, <2>4 DEF WayInv
  <1>5. QED BY <1>3, <1>4

LEMMA WayStep ==
    ASSUME OwnerInv, OwnerInv', WatchTypeOK, WayInv, [SNext]_svars
    PROVE  WayInv'
  <1>1. CASE UNCHANGED svars
    BY <1>1 DEF svars, avars, request, watchVars, WayInv, AskInv, RequestInv, AnswerInv, CommandInv
  <1>2. QED
    BY <1>1, AroundKeeps, ServingKeeps, BrokerKeeps, TickKeeps DEF SNext

LEMMA WayInvariant == SSpec => [](OwnerInv /\ WatchTypeOK /\ WayInv)
  <1>1. WatchInit => WatchTypeOK
    BY AwaitType DEF WatchInit, WatchTypeOK
  <1>2. SInit => WayInv
    BY DEF SInit, WatchInit, AInit, WayInv, AskInv, RequestInv, AnswerInv, CommandInv, Queries
  <1>3. WatchTypeOK /\ [WatchNext]_watchVars => WatchTypeOK'
    BY WatchTypeStep
  <1>4. QED
    BY <1>1, <1>2, <1>3, PartsTheorem, OwnerInvariant, WayStep, PTL DEF SSpec, WatchSpec

(***************************************************************************)
(* No report that allows a shutdown overlooks the owner in the composition *)
(* either, where requests are lost, late and given up on.                  *)
(***************************************************************************)
THEOREM ComposedOwnerTheorem == SSpec => []OwnerNotOverlooked
  BY PartsTheorem, OwnerTheorem, PTL

(***************************************************************************)
(* The idle shutdown never cuts off an owner who has been at work for      *)
(* longer than the age of the file, what the clock was set back and the    *)
(* two calls of the broker: for any settings, users and lengths of calls.  *)
(***************************************************************************)
THEOREM NotCutOffTheorem == SSpec => []OwnerNotCutOff
  <1>1. OwnerInv /\ WatchTypeOK /\ WayInv => OwnerNotCutOff
    BY WayNumbers DEF WayInv, CommandInv, OwnerNotCutOff, Reach
  <1>2. QED BY <1>1, WayInvariant, PTL
=============================================================================
