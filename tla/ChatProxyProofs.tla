--------------------------- MODULE ChatProxyProofs --------------------------
(***************************************************************************)
(* The chat proxy counts right, and implements Broker; what BrokerProofs   *)
(* shows of the broker therefore holds with the real routes around it.     *)
(***************************************************************************)
EXTENDS ChatProxy, BrokerProofs, FiniteSetTheorems

(***************************************************************************)
(* How the set of chats in flight follows the stage of one of them.        *)
(***************************************************************************)
LEMMA InFlightFinite ==
    /\ IsFiniteSet(InFlight)
    /\ Cardinality(InFlight) \in 0..Cardinality(Chats)
    /\ Cardinality(Chats) \in Nat
  <1>1. InFlight \in SUBSET Chats
    BY DEF InFlight
  <1>2. /\ IsFiniteSet(InFlight) /\ Cardinality(InFlight) <= Cardinality(Chats)
        /\ Cardinality(InFlight) \in Nat /\ Cardinality(Chats) \in Nat
    BY <1>1, ChatsFitBound, FS_Subset, FS_CardinalityType
  <1>3. QED BY <1>2

LEMMA OneMoves ==
    ASSUME ProxyTypeOK, NEW c \in Chats, NEW stage \in Stages, Goes(c, stage)
    PROVE  /\ chat' \in [Chats -> Stages]
           /\ InFlight' = IF stage \in Counted THEN InFlight \cup {c} ELSE InFlight \ {c}
           /\ c \in InFlight <=> chat[c] \in Counted
  BY DEF ProxyTypeOK, Goes, InFlight

LEMMA CountFollows ==
    ASSUME ProxyTypeOK, StreamCount, NEW c \in Chats, NEW stage \in Stages, Goes(c, stage)
    PROVE  Cardinality(InFlight') = active_llm_streams
             + (IF stage \in Counted THEN 1 ELSE 0)
             - (IF chat[c] \in Counted THEN 1 ELSE 0)
  <1>1. IsFiniteSet(InFlight) /\ Cardinality(InFlight) \in Nat
    BY InFlightFinite
  <1>2. CASE stage \in Counted
    <2>1. InFlight' = InFlight \cup {c} /\ (c \in InFlight <=> chat[c] \in Counted)
      BY <1>2, OneMoves
    <2>2. Cardinality(InFlight \cup {c})
            = IF c \in InFlight THEN Cardinality(InFlight) ELSE Cardinality(InFlight) + 1
      BY <1>1, FS_AddElement
    <2>3. QED BY <1>1, <1>2, <2>1, <2>2 DEF StreamCount
  <1>3. CASE stage \notin Counted
    <2>1. InFlight' = InFlight \ {c} /\ (c \in InFlight <=> chat[c] \in Counted)
      BY <1>3, OneMoves
    <2>2. Cardinality(InFlight \ {c})
            = IF c \in InFlight THEN Cardinality(InFlight) - 1 ELSE Cardinality(InFlight)
      BY <1>1, FS_RemoveElement
    <2>3. QED BY <1>1, <1>3, <2>1, <2>2 DEF StreamCount
  <1>4. QED BY <1>2, <1>3

-----------------------------------------------------------------------------
CountInv == ProxyTypeOK /\ StreamCount

(***************************************************************************)
(* One chat step, as what it does to the count.                            *)
(***************************************************************************)
ChatStep(c) == Begins(c) \/ Progress(c) \/ Chunk(c) \/ ClientGone(c)

LEMMA ChatStepCounts ==
    ASSUME CountInv, NEW c \in Chats, ChatStep(c)
    PROVE  CountInv' /\ (UNCHANGED vars \/ \E n \in {-1, 0, 1} : Counts(n))
  <1>i. active_llm_streams \in Nat /\ ProxyTypeOK /\ StreamCount
    BY InFlightFinite DEF CountInv, StreamCount
  <1>0. ASSUME UNCHANGED <<vars, chat, listing>>, gone' \subseteq Chats, silent' \subseteq Chats
        PROVE  CountInv'
    BY <1>0, <1>i DEF CountInv, ProxyTypeOK, StreamCount, InFlight, vars, brokerVars, proxied
  <1>1. ASSUME NEW stage \in Stages, NEW n \in {-1, 0, 1}, Goes(c, stage),
               gone' \subseteq Chats, silent' \subseteq Chats, listing' = listing,
               active_llm_streams' = active_llm_streams + n,
               n = (IF stage \in Counted THEN 1 ELSE 0) - (IF chat[c] \in Counted THEN 1 ELSE 0)
        PROVE  CountInv'
    <2>1. Cardinality(InFlight') = active_llm_streams'
      BY <1>i, <1>1, CountFollows
    <2>2. ProxyTypeOK'
      BY <1>i, <1>1, OneMoves DEF ProxyTypeOK
    <2>3. QED BY <2>1, <2>2 DEF CountInv, StreamCount
  <1>s. Stages = {"none", "body", "first", "whole", "open", "orphan"}
        /\ Counted = {"first", "whole", "open", "orphan"}
    BY DEF Stages, Counted
  <1>g. gone \subseteq Chats /\ silent \subseteq Chats
    BY <1>i DEF ProxyTypeOK
  <1>e. ASSUME chat[c] \in Counted, Ends(c) PROVE CountInv' /\ Counts(-1)
    <2>1. Goes(c, "none") /\ Counts(-1) /\ listing' = listing
          /\ gone' \subseteq Chats /\ silent' \subseteq Chats
      BY <1>e, <1>g DEF Ends
    <2>2. active_llm_streams' = active_llm_streams + (-1)
      BY <2>1 DEF Counts
    <2>3. QED BY <1>1, <1>s, <1>e, <2>1, <2>2
  <1>2. CASE ChatRequest(c) \/ AliasBody(c)
    <2>1. /\ chat[c] \in {"none", "body"} /\ Counts(1)
          /\ Goes(c, "first") \/ Goes(c, "whole")
          /\ UNCHANGED <<gone, silent, listing>>
      BY <1>2 DEF ChatRequest, AliasBody
    <2>2. active_llm_streams' = active_llm_streams + 1
      BY <2>1 DEF Counts
    <2>3. QED BY <1>1, <1>s, <1>g, <2>1, <2>2
  <1>3. CASE AliasRequest(c) \/ AliasRejected(c)
    <2>1. /\ chat[c] \in {"none", "body"} /\ UNCHANGED <<vars, gone, silent, listing>>
          /\ Goes(c, "body") \/ Goes(c, "none")
      BY <1>3 DEF AliasRequest, AliasRejected
    <2>2. active_llm_streams' = active_llm_streams + 0
      BY <1>i, <2>1 DEF vars, brokerVars, proxied
    <2>3. QED BY <1>1, <1>s, <1>g, <2>1, <2>2
  <1>4. CASE FirstChunk(c)
    <2>1. /\ chat[c] = "first" /\ Counts(0) /\ UNCHANGED <<gone, silent, listing>>
          /\ Goes(c, "orphan") \/ Goes(c, "open")
      BY <1>4 DEF FirstChunk
    <2>2. active_llm_streams' = active_llm_streams + 0
      BY <2>1 DEF Counts
    <2>3. QED BY <1>1, <1>s, <1>g, <2>1, <2>2
  <1>5. CASE FirstFails(c) \/ StreamEnd(c) \/ WholeDone(c) \/ Finalized(c)
    BY <1>5, <1>e, <1>s DEF FirstFails, StreamEnd, WholeDone, Finalized
  <1>6. CASE Chunk(c)
    <2>1. Counts(0) /\ UNCHANGED proxyVars
      BY <1>6 DEF Chunk
    <2>2. active_llm_streams' = active_llm_streams
      BY <1>i, <2>1 DEF Counts
    <2>3. CountInv'
      BY <1>i, <2>1, <2>2 DEF CountInv, ProxyTypeOK, StreamCount, InFlight, proxyVars
    <2>4. QED BY <2>1, <2>3
  <1>7. CASE ClientGone(c)
    <2>1. CASE chat[c] \in {"first", "whole"} /\ gone' = gone \cup {c}
               /\ UNCHANGED <<vars, chat, silent, listing>>
      BY <1>0, <1>g, <2>1
    <2>2. CASE chat[c] = "open" /\ Ends(c)
      BY <1>e, <1>s, <2>2
    <2>3. CASE chat[c] = "open" /\ Goes(c, "orphan") /\ UNCHANGED <<vars, gone, silent, listing>>
      <3>1. active_llm_streams' = active_llm_streams + 0
        BY <1>i, <2>3 DEF vars, brokerVars, proxied
      <3>2. QED BY <1>1, <1>s, <1>g, <2>3, <3>1
    <2>4. QED BY <1>7, <2>1, <2>2, <2>3 DEF ClientGone
  <1>8. QED
    BY <1>2, <1>3, <1>4, <1>5, <1>6, <1>7 DEF ChatStep, Begins, Progress

(***************************************************************************)
(* The steps of the loop, the operator, the PC and the clock do not count. *)
(***************************************************************************)
LEMMA OthersCountNone ==
    ASSUME PollStep \/ Operator \/ Pc \/ PowerLoss \/ Tick \/ \E c \in Callers : AgentAccepts(c)
    PROVE  active_llm_streams' = active_llm_streams
  BY DEF PollStep, ProbeAnswered, HealthAnswered, ModelsAnswered, ApplyRefresh, IdleTick,
     BusyVerdict, IdleStrike, TriggerShutdown, TriggerReturns, ActivityAnswered, Operator,
     RequestWake, WakeWhileAwake, WakeFromSleep, PowerOff, PowerOffReturns, SetKeepAwake,
     Pc, PowerButton, PcBoots, PcStops, PowerLoss, OllamaFlips, Tick, AgentAccepts,
     brokerVars, proxied

(***************************************************************************)
(* Every exit of every handler gives back what its entry took.             *)
(***************************************************************************)
THEOREM CountTheorem == PSpec => []CountInv
  <1>1. PInit => CountInv
    <2> SUFFICES ASSUME PInit PROVE CountInv
      OBVIOUS
    <2>1. InFlight = {}
      BY DEF PInit, InFlight, Counted
    <2>2. QED
      BY <2>1, FS_EmptySet DEF PInit, Init, CountInv, ProxyTypeOK, StreamCount, Stages
  <1>2. CountInv /\ [PNext]_pvars => CountInv'
    <2> SUFFICES ASSUME CountInv, [PNext]_pvars PROVE CountInv'
      OBVIOUS
    <2>1. CASE LoopStep \/ TimePasses \/ Elsewhere
      <3>1. active_llm_streams' = active_llm_streams /\ UNCHANGED proxyVars
        BY <2>1, OthersCountNone DEF LoopStep, TimePasses, Elsewhere
      <3>2. QED BY <3>1 DEF CountInv, ProxyTypeOK, StreamCount, InFlight, proxyVars
    <2>2. ASSUME NEW c \in Chats, ChatStep(c) PROVE CountInv'
      BY <2>2, ChatStepCounts
    <2>3. CASE ModelsRequest \/ ModelsReply \/ ModelsStored
      <3>1. /\ UNCHANGED <<active_llm_streams, chat, gone, silent>>
            /\ listing' \in {"none", "asked", "empty", "some"}
        BY <2>3 DEF ModelsRequest, ModelsReply, ModelsStored, vars, brokerVars, proxied
      <3>2. QED BY <3>1 DEF CountInv, ProxyTypeOK, StreamCount, InFlight
    <2>4. CASE ProxyPowerLoss
      <3>1. /\ UNCHANGED <<active_llm_streams, chat, gone, listing>>
            /\ silent' \subseteq Chats
        BY <2>4, OthersCountNone DEF ProxyPowerLoss, InFlight
      <3>2. QED BY <3>1 DEF CountInv, ProxyTypeOK, StreamCount, InFlight
    <2>5. CASE ProxyRestart
      <3>1. /\ active_llm_streams' = 0 /\ chat' = [c \in Chats |-> "none"]
            /\ gone' = {} /\ silent' = {} /\ listing' = "none"
        BY <2>5 DEF ProxyRestart, Restart
      <3>2. InFlight' = {}
        BY <3>1 DEF InFlight, Counted
      <3>3. QED BY <3>1, <3>2, FS_EmptySet DEF CountInv, ProxyTypeOK, StreamCount, Stages
    <2>6. CASE UNCHANGED pvars
      BY <2>6 DEF pvars, vars, brokerVars, proxied, proxyVars, CountInv, ProxyTypeOK,
         StreamCount, InFlight
    <2>7. QED
      BY <2>1, <2>2, <2>3, <2>4, <2>5, <2>6 DEF PNext, ChatStep
  <1>3. QED BY <1>1, <1>2, PTL DEF PSpec

THEOREM StreamCountTheorem == PSpec => []StreamCount
  <1>1. CountInv => StreamCount
    BY DEF CountInv
  <1>2. QED BY <1>1, CountTheorem, PTL

(***************************************************************************)
(* Each step of the proxy is a step of Broker or leaves its variables      *)
(* alone: refinement under the identity mapping.                           *)
(***************************************************************************)
THEOREM RefinementTheorem == PSpec => ImplementsBroker
  <1>1. PInit => Init
    BY DEF PInit
  <1>2. CountInv /\ CountInv' /\ [PNext]_pvars => [Next]_vars
    <2> SUFFICES ASSUME CountInv, CountInv', [PNext]_pvars PROVE [Next]_vars
      OBVIOUS
    <2>0. MaxStreams > 0
      <3>1. Cardinality(Chats) # 0
        BY ChatsFitBound, FS_EmptySet
      <3>2. QED BY <3>1, InFlightFinite, ChatsFitBound
    <2>1. CASE LoopStep \/ TimePasses \/ Elsewhere
      BY <2>1 DEF LoopStep, TimePasses, Elsewhere, Next
    <2>2. ASSUME NEW c \in Chats, ChatStep(c) PROVE [Next]_vars
      <3>1. CASE UNCHANGED vars
        BY <3>1
      <3>2. CASE \E n \in {-1, 0, 1} : Counts(n)
        <4>1. PICK n \in {-1, 0, 1} : Counts(n)
          BY <3>2
        <4>2. active_llm_streams \in Nat /\ active_llm_streams' \in 0..MaxStreams
          <5>1. active_llm_streams \in Nat
            BY InFlightFinite DEF CountInv, StreamCount
          <5>2. active_llm_streams' = Cardinality(InFlight')
            BY DEF CountInv, StreamCount
          <5>3. InFlight' \in SUBSET Chats
            BY DEF InFlight
          <5>4. Cardinality(InFlight') \in Nat /\ Cardinality(InFlight') <= Cardinality(Chats)
            BY <5>3, ChatsFitBound, FS_Subset, FS_CardinalityType
          <5>5. QED BY <5>1, <5>2, <5>4, InFlightFinite, ChatsFitBound
        <4>4. ProxyChats
          BY <2>0, <4>1, <4>2 DEF Counts, ProxyChats
        <4>5. QED BY <4>4 DEF Next
      <3>3. QED BY <2>2, <3>1, <3>2, ChatStepCounts
    <2>3. CASE ModelsRequest \/ ModelsReply
      BY <2>3 DEF ModelsRequest, ModelsReply
    <2>4. CASE ModelsStored
      <3>1. models' \in {"empty", "some"}
        BY <2>4 DEF ModelsStored
      <3>2. ProxyLists
        BY <2>0, <2>4, <3>1 DEF ModelsStored, ProxyLists
      <3>3. QED BY <3>2 DEF Next
    <2>5. CASE ProxyPowerLoss \/ ProxyRestart
      BY <2>5 DEF ProxyPowerLoss, ProxyRestart, Next
    <2>6. CASE UNCHANGED pvars
      BY <2>6 DEF pvars
    <2>7. QED
      BY <2>1, <2>2, <2>3, <2>4, <2>5, <2>6 DEF PNext, ChatStep
  <1>3. QED BY <1>1, <1>2, CountTheorem, PTL DEF PSpec, SafeSpec, ImplementsBroker

(***************************************************************************)
(* The wake deadline, the resend cadence, the consistent status and the    *)
(* chats a verdict may overlook, with the real routes around the loop.     *)
(***************************************************************************)
THEOREM ProxyInheritsTheorem ==
    PSpec => [](StatusConsistent /\ WakeDeadline /\ ResendCadence /\ LateComersOnly)
  BY RefinementTheorem, StatusTheorem, DeadlineTheorem, CadenceTheorem, LateComersTheorem,
     PTL DEF ImplementsBroker

(***************************************************************************)
(* What Broker implements, the routes in full implement too: the life of a *)
(* wake, the watch on idleness, and the attempts a wake gets.              *)
(***************************************************************************)
THEOREM ProxyImplementsTheorem ==
    PSpec => ImplementsWakeLife /\ ImplementsIdleWatch /\ RetriedBeforeGiveUp
  BY RefinementTheorem, LifeTheorem, WatchTheorem, RetryTheorem, PTL DEF ImplementsBroker
=============================================================================
