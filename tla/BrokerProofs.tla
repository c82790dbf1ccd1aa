----------------------------- MODULE BrokerProofs ---------------------------
(***************************************************************************)
(* What is proved of Broker, for every configuration its ASSUMEs allow.    *)
(* All theorems are about SafeSpec: none needs fairness.                   *)
(***************************************************************************)
EXTENDS Broker, TLAPS

(***************************************************************************)
(* The clock: ages stay ages, and grow by at most one.                     *)
(***************************************************************************)
LEMMA OlderType ==
    ASSUME NEW a \in Age, NEW cap
    PROVE  Older(a, cap) \in Age
  BY DEF Older, Age, Never

LEMMA OlderGrows ==
    ASSUME NEW a \in Age, NEW cap, a # Never
    PROVE  /\ Older(a, cap) \in {a, a + 1}
           /\ Older(a, cap) # Never
  BY DEF Older, Age, Never

LEMMA TickAges ==
    ASSUME TypeOK, Tick, NEW s \in Stamps
    PROVE  /\ age'[s] = Older(age[s], Cap[s])
           /\ age[s] = Never => age'[s] = Never
           /\ age[s] # Never => age'[s] # Never /\ age'[s] \in {age[s], age[s] + 1}
  <1>1. age[s] \in Age
    BY DEF TypeOK
  <1>2. age'[s] = Older(age[s], Cap[s])
    BY DEF Tick
  <1>3. QED BY <1>1, <1>2, OlderGrows DEF Older

(***************************************************************************)
(* Type correctness.                                                       *)
(***************************************************************************)
THEOREM TypeCorrect == SafeSpec => []TypeOK
  <1> USE BrokerConstants
  <1>1. Init => TypeOK
    <2> SUFFICES ASSUME Init PROVE TypeOK
      OBVIOUS
    <2>1. ollama \in BOOLEAN /\ power \in {"off", "booting", "up", "stopping"}
      <3>1. power \in {"off", "up"} /\ (ollama = FALSE \/ ollama = (power = "up"))
        BY DEF Init
      <3>2. (power = "up") \in BOOLEAN
        OBVIOUS
      <3>3. QED BY <3>1, <3>2
    <2>2. age \in [Stamps -> Age]
      BY DEF Init, Age, Never
    <2>3. idle_strikes \in 0..ConsecutiveChecks - 1 /\ active_llm_streams \in 0..MaxStreams
          /\ waited \in 0..MaxAwait
      BY DEF Init
    <2>4. QED BY <2>1, <2>2, <2>3 DEF Init, TypeOK, State, Awaits
  <1>2. TypeOK /\ [Next]_vars => TypeOK'
    <2> SUFFICES ASSUME TypeOK, [Next]_vars PROVE TypeOK'
      OBVIOUS
    <2>1. CASE ProbeAnswered
      <3>1. pc_up' \in BOOLEAN
        <4>1. AgentAnswers \in BOOLEAN
          BY DEF AgentAnswers
        <4>2. QED BY <2>1, <4>1 DEF ProbeAnswered
      <3>2. waited' \in 0..MaxAwait /\ loop' \in Awaits \cup {"apply"}
        BY <2>1 DEF ProbeAnswered, Await, Awaits
      <3>3. QED
        BY <2>1, <3>1, <3>2 DEF TypeOK, ProbeAnswered, status, proxied, idleVars, pcVars
    <2>2. CASE HealthAnswered
      <3>1. ollama_up' \in BOOLEAN
        BY <2>2, Zenon DEF HealthAnswered, OllamaAnswers
      <3>2. waited' \in 0..MaxAwait /\ loop' \in Awaits \cup {"apply"}
        BY <2>2 DEF HealthAnswered, Await, Awaits
      <3>3. QED
        BY <2>2, <3>1, <3>2 DEF TypeOK, HealthAnswered, status, proxied, idleVars, pcVars
    <2>3. CASE ModelsAnswered
      BY <2>3 DEF TypeOK, ModelsAnswered, Await, Awaits, status, proxied, idleVars, pcVars
    <2>4. CASE ApplyRefresh
      <3>1. NextState \in State
        BY DEF NextState, TypeOK, State
      <3>2. ReadySince \in Age
        BY DEF ReadySince, TypeOK, Age, Never, Stamps
      <3>3. age' \in [Stamps -> Age]
        BY <2>4, <3>2 DEF ApplyRefresh, TypeOK, Stamps, Age, Never
      <3>4. power' \in {"off", "booting", "up", "stopping"} /\ ollama' \in BOOLEAN
        BY <2>4 DEF ApplyRefresh, SendMagicPacket, TypeOK, pcVars
      <3>5. idle_strikes' \in 0..ConsecutiveChecks - 1
        BY <2>4 DEF ApplyRefresh, StrikesCarried, TypeOK
      <3>6. models' \in {"empty", "some"}
        BY <2>4 DEF ApplyRefresh, TypeOK
      <3>7. loop' \in Awaits \cup {"apply"} /\ waited' \in 0..MaxAwait
        BY <2>4 DEF ApplyRefresh, Await, Awaits
      <3>8. /\ pc_reachable' \in BOOLEAN /\ ollama_reachable' \in BOOLEAN
            /\ pc_up' \in BOOLEAN /\ ollama_up' \in BOOLEAN
            /\ listed' \in {"none", "empty", "some"}
        BY <2>4 DEF ApplyRefresh, TypeOK
      <3>9. QED
        BY <2>4, <3>1, <3>3, <3>4, <3>5, <3>6, <3>7, <3>8 DEF TypeOK, ApplyRefresh
    <2>5. CASE IdleTick
      <3>1. ASSUME NEW r \in Reports \cup {NoReport}, BusyVerdict(r) PROVE TypeOK'
        BY <3>1 DEF TypeOK, BusyVerdict, ActivityAnswered, Await, Awaits, Stamps, Age,
           status, proxied, polled, pcVars
      <3>2. ASSUME NEW r \in Reports \cup {NoReport}, IdleStrike(r) PROVE TypeOK'
        BY <3>2 DEF TypeOK, IdleStrike, RowComplete, ActivityAnswered, Await, Awaits, Stamps,
           Age, status, proxied, polled, pcVars
      <3>3. ASSUME NEW r \in Reports \cup {NoReport}, TriggerShutdown(r) PROVE TypeOK'
        BY <3>3 DEF TypeOK, TriggerShutdown, ActivityAnswered, Await, Awaits, Stamps, Age,
           Callers, status, proxied, polled, pcVars
      <3>4. CASE TriggerReturns
        BY <3>4 DEF TypeOK, TriggerReturns, Await, Awaits, Callers, status, proxied,
           idleVars, polled, pcVars
      <3>5. QED BY <2>5, <3>1, <3>2, <3>3, <3>4 DEF IdleTick
    <2>6. CASE Operator
      <3>1. CASE WakeWhileAwake
        BY <3>1 DEF TypeOK, WakeWhileAwake, Stamps, Age, status, proxied, idleVars,
           loopVars, polled, pcVars
      <3>2. CASE WakeFromSleep
        BY <3>2 DEF TypeOK, WakeFromSleep, SendMagicPacket, State, Stamps, Age, proxied,
           idleVars, loopVars, polled
      <3>3. CASE PowerOff \/ PowerOffReturns
        BY <3>3 DEF TypeOK, PowerOff, PowerOffReturns, Callers, brokerVars, status, proxied,
           idleVars, loopVars, polled, pcVars
      <3>4. ASSUME NEW b \in BOOLEAN, SetKeepAwake(b) PROVE TypeOK'
        BY <3>4 DEF TypeOK, SetKeepAwake, status, proxied, loopVars, polled, pcVars
      <3>5. QED BY <2>6, <3>1, <3>2, <3>3, <3>4 DEF Operator, RequestWake
    <2>7. CASE ProxyChats \/ ProxyLists
      BY <2>7 DEF TypeOK, ProxyChats, ProxyLists, Stamps, Age, status, idleVars, loopVars,
         polled, pcVars
    <2>8. ASSUME NEW c \in Callers, AgentAccepts(c) PROVE TypeOK'
      BY <2>8 DEF TypeOK, AgentAccepts, RunShutdown, brokerVars, status, proxied, idleVars, loopVars, polled
    <2>9. CASE Pc \/ PowerLoss
      <3>1. power' \in {"off", "booting", "up", "stopping"} /\ ollama' \in BOOLEAN
        BY <2>9 DEF TypeOK, Pc, PowerButton, PcBoots, PcStops, PowerLoss, OllamaFlips
      <3>2. UNCHANGED <<brokerVars, call>>
        BY <2>9 DEF Pc, PowerButton, PcBoots, PcStops, PowerLoss, OllamaFlips
      <3>3. QED
        BY <3>1, <3>2 DEF TypeOK, brokerVars, status, proxied, idleVars, loopVars, polled
    <2>10. CASE Restart
      <3>1. age' \in [Stamps -> Age] /\ call' \in [Callers -> {"none", "sent", "answered"}]
        BY <2>10 DEF Restart, Age, Never
      <3>2. /\ idle_strikes' \in 0..ConsecutiveChecks - 1
            /\ active_llm_streams' \in 0..MaxStreams /\ waited' \in 0..MaxAwait
        BY <2>10 DEF Restart, Await
      <3>3. QED
        BY <2>10, <3>1, <3>2 DEF TypeOK, Restart, State, Await, Awaits, pcVars
    <2>11. CASE Tick
      <3>1. age' \in [Stamps -> Age]
        BY <2>11, OlderType DEF TypeOK, Tick
      <3>2. QED
        BY <2>11, <3>1 DEF TypeOK, Tick, Await, Awaits, status, proxied, idleVars, polled,
           pcVars
    <2>12. CASE UNCHANGED vars
      BY <2>12 DEF TypeOK, vars, brokerVars, status, proxied, idleVars, loopVars, polled, pcVars
    <2>13. QED
      BY <2>1, <2>2, <2>3, <2>4, <2>5, <2>6, <2>7, <2>8, <2>9, <2>10, <2>11, <2>12
      DEF Next, PollStep
  <1>3. QED BY <1>1, <1>2, PTL DEF SafeSpec

-----------------------------------------------------------------------------
(***************************************************************************)
(* What StatusConsistent rests on: the locals of _refresh say what the     *)
(* awaits behind the loop have answered, only a broker with a MAC wakes,   *)
(* and the tick holds the loop only in ready.                              *)
(***************************************************************************)
Answered ==
    /\ ollama_up => pc_up
    /\ listed # "none" => pc_up
    /\ pc_up => loop \in {"health", "models", "apply"}
    /\ loop \in {"health", "models"} => pc_up

StatusInv == StatusConsistent /\ TickOwnsReady /\ Answered /\ (state = "waking" => PcMacSet)

LEMMA NextStateRange ==
    ASSUME TypeOK, Answered
    PROVE  /\ pc_up <=> NextState \in {"ollama_starting", "ready"}
           /\ NextState = "ready" <=> ollama_up
           /\ NextState = "waking" => state = "waking" /\ ~pc_up
  <1>1. CASE pc_up
    BY <1>1 DEF NextState, TypeOK
  <1>2. CASE ~pc_up
    BY <1>2 DEF NextState, Answered, TypeOK
  <1>3. QED BY <1>1, <1>2

LEMMA StatusStep ==
    ASSUME TypeOK, StatusInv, [Next]_vars
    PROVE  StatusInv'
  <1> USE BrokerConstants
  <1>1. CASE ProbeAnswered
    <2>1. UNCHANGED <<state, pc_reachable, ollama_reachable, age, idle_strikes, ollama_up, listed>>
      BY <1>1 DEF ProbeAnswered, status, idleVars
    <2>2. /\ loop = "probe" /\ loop' = IF pc_up' THEN "health" ELSE "apply"
      BY <1>1 DEF ProbeAnswered, Await
    <2>3. Answered'
      BY <2>1, <2>2 DEF Answered, StatusInv
    <2>4. QED BY <2>1, <2>2, <2>3 DEF StatusInv, StatusConsistent, TickOwnsReady
  <1>2. CASE HealthAnswered
    BY <1>2 DEF StatusInv, StatusConsistent, TickOwnsReady, Answered, HealthAnswered, Await,
       status, idleVars
  <1>3. CASE ModelsAnswered
    BY <1>3 DEF StatusInv, StatusConsistent, TickOwnsReady, Answered, ModelsAnswered, Await,
       status, idleVars
  <1>4. CASE ApplyRefresh
    <2>1. /\ state' = NextState /\ pc_reachable' = pc_up /\ ollama_reachable' = ollama_up
          /\ idle_strikes' = StrikesCarried /\ age'["ready"] = ReadySince
          /\ ~pc_up' /\ ~ollama_up' /\ listed' = "none"
          /\ loop' = IF IdleTickDue(NextState) THEN "activity" ELSE "sleep"
      BY <1>4 DEF ApplyRefresh, Await, TypeOK, Stamps
    <2>2. (age["ready"] # Never <=> state = "ready") /\ (idle_strikes > 0 => state = "ready")
      BY DEF StatusInv, StatusConsistent
    <2>3. ReadySince # Never <=> NextState = "ready"
      BY <2>2 DEF ReadySince, Never
    <2>4. StrikesCarried > 0 => NextState = "ready"
      BY <2>2 DEF StrikesCarried
    <2>5. StatusConsistent'
      BY <2>1, <2>3, <2>4, NextStateRange DEF StatusConsistent, StatusInv, TypeOK
    <2>6. TickOwnsReady'
      BY <2>1 DEF TickOwnsReady, IdleTickDue
    <2>7. Answered'
      BY <2>1 DEF Answered
    <2>8. state' = "waking" => PcMacSet
      BY <2>1, NextStateRange DEF StatusInv
    <2>9. QED BY <2>5, <2>6, <2>7, <2>8 DEF StatusInv
  <1>5. CASE IdleTick
    <2>1. /\ UNCHANGED <<state, pc_reachable, ollama_reachable, polled>>
          /\ age'["ready"] = age["ready"]
          /\ loop \in {"activity", "shutdown"} /\ loop' \in {"sleep", "shutdown"}
      BY <1>5 DEF IdleTick, BusyVerdict, IdleStrike, TriggerShutdown, TriggerReturns,
         ActivityAnswered, Await, TypeOK, Stamps, status
    <2>2. QED
      BY <2>1 DEF StatusInv, StatusConsistent, TickOwnsReady, Answered, polled
  <1>6. CASE Operator
    <2>1. CASE WakeWhileAwake
      BY <2>1 DEF StatusInv, StatusConsistent, TickOwnsReady, Answered, WakeWhileAwake,
         TypeOK, Stamps, status, idleVars, loopVars, polled
    <2>2. CASE WakeFromSleep
      <3>1. /\ state \notin {"ollama_starting", "ready"} /\ state' = "waking" /\ PcMacSet
            /\ age'["ready"] = age["ready"]
            /\ UNCHANGED <<pc_reachable, ollama_reachable, idle_strikes, loop, polled>>
        BY <2>2 DEF WakeFromSleep, PcAwakeStates, TypeOK, Stamps, idleVars, loopVars
      <3>2. QED
        BY <3>1 DEF StatusInv, StatusConsistent, TickOwnsReady, Answered, polled
    <2>3. CASE PowerOff \/ PowerOffReturns
      BY <2>3 DEF StatusInv, StatusConsistent, TickOwnsReady, Answered, PowerOff,
         PowerOffReturns, brokerVars, status, idleVars, loopVars, polled
    <2>4. ASSUME NEW b \in BOOLEAN, SetKeepAwake(b) PROVE StatusInv'
      BY <2>4 DEF StatusInv, StatusConsistent, TickOwnsReady, Answered, SetKeepAwake,
         status, loopVars, polled
    <2>5. QED BY <1>6, <2>1, <2>2, <2>3, <2>4 DEF Operator, RequestWake
  <1>7. CASE ProxyChats \/ ProxyLists
    BY <1>7 DEF StatusInv, StatusConsistent, TickOwnsReady, Answered, ProxyChats, ProxyLists,
       TypeOK, Stamps, status, idleVars, loopVars, polled
  <1>8. CASE (\E c \in Callers : AgentAccepts(c)) \/ Pc \/ PowerLoss \/ UNCHANGED vars
    <2>1. UNCHANGED brokerVars
      BY <1>8 DEF AgentAccepts, Pc, PowerButton, PcBoots, PcStops, PowerLoss, OllamaFlips, vars
    <2>2. QED
      BY <2>1 DEF StatusInv, StatusConsistent, TickOwnsReady, Answered, brokerVars, status,
         idleVars, loopVars, polled
  <1>9. CASE Restart
    BY <1>9 DEF StatusInv, StatusConsistent, TickOwnsReady, Answered, Restart, Await, Stamps
  <1>10. CASE Tick
    <2>1. age'["ready"] # Never <=> age["ready"] # Never
      BY <1>10, TickAges DEF Stamps
    <2>2. /\ UNCHANGED <<state, pc_reachable, ollama_reachable, idle_strikes, polled>>
          /\ loop' = loop \/ (loop = "sleep" /\ loop' = "probe")
      BY <1>10 DEF Tick, Await, status, idleVars
    <2>3. QED
      BY <2>1, <2>2 DEF StatusInv, StatusConsistent, TickOwnsReady, Answered, polled
  <1>11. QED
    BY <1>1, <1>2, <1>3, <1>4, <1>5, <1>6, <1>7, <1>8, <1>9, <1>10 DEF Next, PollStep

LEMMA StatusInvariant == SafeSpec => []StatusInv
  <1>1. Init => StatusInv
    BY DEF Init, StatusInv, StatusConsistent, TickOwnsReady, Answered, Stamps
  <1>2. QED BY <1>1, TypeCorrect, StatusStep, PTL DEF SafeSpec

(***************************************************************************)
(* The fields behind GET /api/status never contradict one another.         *)
(***************************************************************************)
THEOREM StatusTheorem == SafeSpec => []StatusConsistent
  <1>1. StatusInv => StatusConsistent
    BY DEF StatusInv
  <1>2. QED BY <1>1, StatusInvariant, PTL

(***************************************************************************)
(* The guard of _idle_tick is still true when its awaits return.           *)
(***************************************************************************)
THEOREM TickTheorem == SafeSpec => []TickOwnsReady
  <1>1. StatusInv => TickOwnsReady
    BY DEF StatusInv
  <1>2. QED BY <1>1, StatusInvariant, PTL

-----------------------------------------------------------------------------
(***************************************************************************)
(* The wake timers.  Slack is what makes the bounds inductive: it grows    *)
(* with every tick and with every await the loop passes, and an apply that *)
(* leaves the broker waking takes it back to zero.                         *)
(***************************************************************************)
WakeInv == WakeDeadline /\ ResendCadence

LEMMA SlackType == ASSUME TypeOK PROVE Slack \in Nat
  BY BrokerConstants DEF TypeOK, Slack

LEMMA WakeStep ==
    ASSUME TypeOK, TypeOK', StatusInv, StatusInv', WakeInv, [Next]_vars
    PROVE  WakeInv'
  <1> USE BrokerConstants
  <1>h. HostTimeout \in Nat /\ WolResend \in Nat \ {0} /\ MaxAwait \in Nat
    OBVIOUS
  <1>t. /\ waited \in 0..MaxAwait /\ waited' \in 0..MaxAwait
        /\ age["wake"] \in Age /\ age["wol"] \in Age
        /\ age'["wake"] \in Age /\ age'["wol"] \in Age
        /\ Slack \in Nat /\ Slack' \in Nat
    BY SlackType, PolicyConstants DEF TypeOK, Stamps, Slack
  \* A step that leaves the wake and its ages alone and does not lower Slack.
  <1>k. ASSUME state' = state, age'["wake"] = age["wake"], age'["wol"] = age["wol"],
               state = "waking" => Slack' >= Slack
        PROVE  WakeInv'
    <2>1. CASE state = "waking"
      BY <1>k, <1>t, <1>h, <2>1 DEF WakeInv, WakeDeadline, ResendCadence, Age, Never
    <2>2. CASE state # "waking"
      BY <1>k, <2>2 DEF WakeInv, WakeDeadline, ResendCadence
    <2>3. QED BY <2>1, <2>2
  \* The loop is not in the idle tick while waking.
  <1>w. state = "waking" => loop \in {"probe", "health", "models", "apply", "sleep"}
    BY DEF StatusInv, TickOwnsReady, TypeOK, Awaits
  <1>1. CASE ProbeAnswered
    <2>1. loop = "probe" /\ waited' = 0 /\ loop' = IF pc_up' THEN "health" ELSE "apply"
      BY <1>1 DEF ProbeAnswered, Await
    <2>2. Slack = 1 + waited /\ Slack' = 1 + MaxAwait
      BY <1>t, <1>h, <2>1 DEF Slack
    <2>3. QED BY <1>1, <1>k, <1>t, <1>h, <2>2 DEF ProbeAnswered, status
  <1>2. CASE HealthAnswered
    <2>1. /\ loop = "health" /\ waited' = 0 /\ loop' \in {"models", "apply"}
          /\ pc_up /\ pc_up' = pc_up
      BY <1>2 DEF HealthAnswered, Await, StatusInv, Answered
    <2>2. Slack = 1 + MaxAwait + waited
          /\ Slack' \in {1 + 2 * MaxAwait, 1 + 3 * MaxAwait}
      BY <1>t, <1>h, <2>1 DEF Slack
    <2>3. QED BY <1>2, <1>k, <1>t, <1>h, <2>2 DEF HealthAnswered, status
  <1>3. CASE ModelsAnswered
    <2>1. loop = "models" /\ loop' = "apply" /\ pc_up /\ pc_up' = pc_up
      BY <1>3 DEF ModelsAnswered, Await, StatusInv, Answered
    <2>2. Slack = 1 + 2 * MaxAwait + waited /\ Slack' = 1 + 3 * MaxAwait
      BY <1>t, <1>h, <2>1 DEF Slack
    <2>3. QED BY <1>3, <1>k, <1>t, <1>h, <2>2 DEF ModelsAnswered, status
  <1>4. CASE ApplyRefresh
    <2>1. /\ state' = NextState /\ age'["wake"] = age["wake"]
          /\ age'["wol"] = IF ResendDue THEN 0 ELSE age["wol"]
      BY <1>4 DEF ApplyRefresh, TypeOK, Stamps
    <2>2. SUFFICES ASSUME NextState = "waking" PROVE WakeInv'
      BY <2>1 DEF WakeInv, WakeDeadline, ResendCadence
    <2>3. state = "waking" /\ ~pc_up /\ ~WakeTimedOut
      BY <2>2, NextStateRange DEF StatusInv, NextState
    <2>4. age["wake"] # Never /\ age["wol"] # Never /\ PcMacSet
      BY <2>3 DEF WakeInv, WakeDeadline, ResendCadence, StatusInv
    <2>5. age["wake"] <= HostTimeout
      BY <1>t, <1>h, <2>3, <2>4 DEF WakeTimedOut, Age, Never
    <2>6. age'["wol"] # Never /\ age'["wol"] < WolResend
      BY <1>t, <1>h, <2>1, <2>2, <2>3, <2>4 DEF ResendDue, Age, Never
    <2>7. QED
      BY <1>t, <1>h, <2>1, <2>4, <2>5, <2>6 DEF WakeInv, WakeDeadline, ResendCadence, Age
  <1>5. CASE IdleTick
    <2>1. loop \in {"activity", "shutdown"} /\ state' = state
      BY <1>5 DEF IdleTick, BusyVerdict, IdleStrike, TriggerShutdown, TriggerReturns,
         ActivityAnswered, status
    <2>2. state' # "waking"
      BY <2>1, <1>w
    <2>3. QED BY <2>2 DEF WakeInv, WakeDeadline, ResendCadence
  <1>6. CASE Operator
    <2>1. CASE WakeWhileAwake
      <3>1. /\ state' = state /\ Slack' = Slack
            /\ age'["wake"] = 0 /\ age'["wol"] = age["wol"]
        BY <2>1 DEF WakeWhileAwake, TypeOK, Stamps, status, loopVars, polled, Slack
      <3>2. WakeDeadline'
        BY <1>t, <1>h, <3>1 DEF WakeDeadline, Never
      <3>3. ResendCadence'
        BY <3>1 DEF WakeInv, ResendCadence
      <3>4. QED BY <3>2, <3>3 DEF WakeInv
    <2>2. CASE WakeFromSleep
      <3>1. age'["wake"] = 0 /\ age'["wol"] = 0
        BY <2>2 DEF WakeFromSleep, TypeOK, Stamps
      <3>2. 0 <= HostTimeout + Slack' /\ 0 < WolResend + Slack'
        <4>1. \A n \in Nat : 0 <= HostTimeout + n /\ 0 < WolResend + n
          BY <1>h
        <4>2. Slack' \in Nat
          BY <1>t
        <4>3. QED BY <4>1, <4>2
      <3>3. QED
        BY <3>1, <3>2 DEF WakeInv, WakeDeadline, ResendCadence, Never
    <2>3. CASE PowerOff \/ PowerOffReturns \/ \E b \in BOOLEAN : SetKeepAwake(b)
      <3>1. state' = state /\ age' = age /\ Slack' = Slack
        BY <2>3 DEF PowerOff, PowerOffReturns, SetKeepAwake, brokerVars, status, loopVars,
           polled, Slack
      <3>2. QED BY <1>k, <1>t, <3>1
    <2>4. QED BY <1>6, <2>1, <2>2, <2>3 DEF Operator, RequestWake
  <1>7. CASE ProxyChats \/ ProxyLists
    <2>1. /\ state' = state /\ Slack' = Slack
          /\ age'["wake"] = age["wake"] /\ age'["wol"] = age["wol"]
      BY <1>7 DEF ProxyChats, ProxyLists, TypeOK, Stamps, status, loopVars, polled, Slack
    <2>2. QED BY <1>k, <1>t, <2>1
  <1>8. CASE (\E c \in Callers : AgentAccepts(c)) \/ Pc \/ PowerLoss \/ UNCHANGED vars
    <2>1. UNCHANGED brokerVars
      BY <1>8 DEF AgentAccepts, Pc, PowerButton, PcBoots, PcStops, PowerLoss, OllamaFlips, vars
    <2>2. state' = state /\ age' = age /\ Slack' = Slack
      BY <2>1 DEF brokerVars, status, loopVars, polled, Slack
    <2>3. QED BY <1>k, <1>t, <2>2
  <1>9. CASE Restart
    BY <1>9 DEF Restart, WakeInv, WakeDeadline, ResendCadence
  <1>10. CASE Tick
    <2>1. SUFFICES ASSUME state = "waking" PROVE WakeInv'
      BY <1>10 DEF Tick, status, WakeInv, WakeDeadline, ResendCadence
    <2>2. state' = state /\ pc_up' = pc_up
      BY <1>10 DEF Tick, status, polled
    <2>3. /\ age["wake"] # Never /\ age["wake"] <= HostTimeout + Slack
          /\ age["wol"] # Never /\ age["wol"] < WolResend + Slack
      BY <2>1 DEF WakeInv, WakeDeadline, ResendCadence
    <2>4. /\ age'["wake"] # Never /\ age'["wake"] <= age["wake"] + 1
          /\ age'["wol"] # Never /\ age'["wol"] <= age["wol"] + 1
      BY <1>10, <1>t, <2>3, TickAges DEF Stamps, Age, Never
    <2>5. \/ loop = "sleep" /\ loop' = "probe" /\ waited' = 0
          \/ loop \in {"probe", "health", "models"} /\ loop' = loop /\ waited' = waited + 1
      BY <1>10, <1>w, <2>1 DEF Tick, Await
    <2>6. Slack' = Slack + 1
      BY <1>t, <1>h, <2>5 DEF Slack
    <2>7. QED
      BY <1>t, <1>h, <2>3, <2>4, <2>6 DEF WakeInv, WakeDeadline, ResendCadence, Age, Never
  <1>11. QED
    BY <1>1, <1>2, <1>3, <1>4, <1>5, <1>6, <1>7, <1>8, <1>9, <1>10 DEF Next, PollStep

LEMMA WakeInvariant == SafeSpec => []WakeInv
  <1>1. Init => WakeInv
    BY DEF Init, WakeInv, WakeDeadline, ResendCadence
  <1>2. QED BY <1>1, TypeCorrect, StatusInvariant, WakeStep, PTL DEF SafeSpec

(***************************************************************************)
(* No wake outlasts its timeout, whoever presses what meanwhile.           *)
(***************************************************************************)
THEOREM DeadlineTheorem == SafeSpec => []WakeDeadline
  <1>1. WakeInv => WakeDeadline
    BY DEF WakeInv
  <1>2. QED BY <1>1, WakeInvariant, PTL

(***************************************************************************)
(* A waking broker never leaves the PC without a packet for longer than    *)
(* the resend interval and one poll cycle.                                 *)
(***************************************************************************)
THEOREM CadenceTheorem == SafeSpec => []ResendCadence
  <1>1. WakeInv => ResendCadence
    BY DEF WakeInv
  <1>2. QED BY <1>1, WakeInvariant, PTL

LEMMA RetriedWhenTimedOut ==
    ASSUME TypeOK, WakeInv, state = "waking", loop = "apply", ~pc_up, WakeTimedOut
    PROVE  age["wol"] < age["wake"]
  <1>1. Slack = 1 + MaxAwait
    BY DEF Slack
  <1>2. age["wake"] \in Age /\ age["wol"] \in Age
    BY DEF TypeOK, Stamps
  <1>3. age["wol"] < WolResend + 1 + MaxAwait
    BY <1>1, <1>2, BrokerConstants DEF WakeInv, ResendCadence
  <1>4. age["wake"] > HostTimeout
    BY DEF WakeTimedOut
  <1>5. QED
    BY <1>2, <1>3, <1>4, TimeToResend, BrokerConstants DEF Age, Never

(***************************************************************************)
(* A wake that is given up was retried: the cadence leaves no room for the *)
(* timeout before a second packet.                                         *)
(***************************************************************************)
THEOREM RetryTheorem == SafeSpec => RetriedBeforeGiveUp
  <1>1. TypeOK /\ StatusInv /\ WakeInv /\ [Next]_vars
          => [state = "waking" /\ state' = "timeout" => age["wol"] < age["wake"]]_vars
    <2> SUFFICES ASSUME TypeOK, StatusInv, WakeInv, [Next]_vars,
                        state = "waking", state' = "timeout"
                 PROVE  age["wol"] < age["wake"]
      OBVIOUS
    <2>1. ApplyRefresh
      BY DEF Next, PollStep, ProbeAnswered, HealthAnswered, ModelsAnswered, IdleTick,
         BusyVerdict, IdleStrike, TriggerShutdown, TriggerReturns, ActivityAnswered,
         Operator, RequestWake, WakeWhileAwake, WakeFromSleep, PowerOff, PowerOffReturns,
         SetKeepAwake, ProxyChats, ProxyLists, AgentAccepts, Pc, PowerButton, PcBoots,
         PcStops, PowerLoss, OllamaFlips, Restart, Tick, vars, brokerVars, status
    <2>2. NextState = "timeout" /\ loop = "apply"
      BY <2>1 DEF ApplyRefresh
    <2>3. ~pc_up /\ WakeTimedOut
      BY <2>2 DEF NextState
    <2>4. QED BY <2>2, <2>3, RetriedWhenTimedOut
  <1>2. QED
    BY <1>1, TypeCorrect, StatusInvariant, WakeInvariant, PTL
    DEF SafeSpec, RetriedBeforeGiveUp

-----------------------------------------------------------------------------
(***************************************************************************)
(* The refinement of WakeLife.                                             *)
(***************************************************************************)
LEMMA OlderKeepsOrder ==
    ASSUME NEW a \in Age, NEW b \in Age, NEW cap \in Nat,
           a # Never, b # Never, a < cap, b < cap
    PROVE  Older(a, cap) < Older(b, cap) <=> a < b
  BY DEF Older, Age, Never

\* The deadline and the cadence keep both stamps of a wake below the horizon.
LEMMA WakeBelowHorizon ==
    ASSUME TypeOK, StatusInv, WakeInv, state = "waking"
    PROVE  /\ age["wake"] # Never /\ age["wake"] < Horizon
           /\ age["wol"] # Never /\ age["wol"] < Horizon
  <1>1. age["wake"] \in Age /\ age["wol"] \in Age /\ waited \in 0..MaxAwait
    BY DEF TypeOK, Stamps
  <1>2. Slack \in Nat /\ Slack <= 1 + 3 * MaxAwait
    BY <1>1, BrokerConstants DEF Slack
  <1>3. /\ age["wake"] # Never /\ age["wake"] <= HostTimeout + Slack
        /\ age["wol"] # Never /\ age["wol"] < WolResend + Slack
    BY DEF WakeInv, WakeDeadline, ResendCadence
  <1>4. QED BY <1>1, <1>2, <1>3, HorizonIsFar, BrokerConstants DEF Age, Never

LEMMA LifeStep ==
    ASSUME TypeOK, TypeOK', StatusInv, WakeInv, [Next]_vars
    PROVE  [Life!LifeNext]_Life!lifeVars
  <1>t. /\ state \in State /\ state' \in State
        /\ age["wake"] \in Age /\ age["wol"] \in Age
    BY DEF TypeOK, Stamps
  \* A step that leaves the state and the stamps of the wake alone is a stutter.
  <1>s. ASSUME state' = state, age'["wake"] = age["wake"], age'["wol"] = age["wol"]
        PROVE  UNCHANGED Life!lifeVars
    BY <1>s DEF Life!lifeVars, Phase, Retried
  <1>1. CASE ProbeAnswered \/ HealthAnswered \/ ModelsAnswered
    BY <1>1, <1>s DEF ProbeAnswered, HealthAnswered, ModelsAnswered, status
  <1>2. CASE ApplyRefresh
    <2>1. /\ loop = "apply" /\ state' = NextState /\ age'["wake"] = age["wake"]
          /\ age'["wol"] = IF ResendDue THEN 0 ELSE age["wol"]
      BY <1>2 DEF ApplyRefresh, TypeOK, Stamps
    <2>2. CASE pc_up
      <3>1. state' \in {"ollama_starting", "ready"}
        BY <2>1, <2>2 DEF NextState
      <3>2. Phase' = "awake" /\ Retried' = FALSE
        BY <3>1 DEF Phase, Retried
      <3>3. QED BY <2>1, <3>2 DEF Life!LifeNext, Life!Found
    <2>3. CASE ~pc_up /\ state = "waking" /\ WakeTimedOut
      <3>1. state' = "timeout"
        BY <2>1, <2>3 DEF NextState
      <3>2. Retried
        BY <2>1, <2>3, RetriedWhenTimedOut DEF Retried
      <3>3. Phase = "waking" /\ Phase' = "given_up" /\ Retried' = FALSE
        BY <2>3, <3>1 DEF Phase, Retried
      <3>4. QED BY <2>1, <3>2, <3>3 DEF Life!LifeNext, Life!GiveUp
    <2>4. CASE ~pc_up /\ state = "waking" /\ ~WakeTimedOut
      <3>1. state' = "waking"
        BY <2>1, <2>4 DEF NextState
      <3>2. Phase = "waking" /\ Phase' = "waking"
        BY <2>4, <3>1 DEF Phase
      <3>3. CASE ~ResendDue
        BY <2>1, <2>4, <3>1, <3>3, <1>s
      <3>4. CASE ResendDue
        <4>1. Retried' = (0 < age["wake"])
          BY <2>1, <3>1, <3>4 DEF Retried
        <4>2. CASE 0 < age["wake"]
          BY <2>1, <3>2, <4>1, <4>2 DEF Life!LifeNext, Life!Retry
        <4>3. CASE ~(0 < age["wake"])
          <5>1. Retried = FALSE
            <6>1. age["wol"] # Never
              BY <2>4 DEF WakeInv, ResendCadence
            <6>2. ~(age["wol"] < age["wake"])
              BY <1>t, <4>3, <6>1 DEF Age, Never
            <6>3. QED BY <6>2 DEF Retried
          <5>2. Retried' = FALSE
            BY <2>1, <3>1, <3>4, <4>3 DEF Retried
          <5>3. QED BY <2>1, <3>2, <5>1, <5>2 DEF Life!lifeVars
        <4>4. QED BY <4>2, <4>3
      <3>5. QED BY <3>3, <3>4
    <2>5. CASE ~pc_up /\ state # "waking"
      <3>1. state' = IF state \in {"timeout", "error"} THEN state ELSE "offline"
        BY <2>1, <2>5 DEF NextState
      <3>2. Retried = FALSE /\ Retried' = FALSE
        BY <2>5, <3>1 DEF Retried
      <3>3. Phase' = Phase \/ (Phase = "awake" /\ Phase' = "asleep")
        BY <1>t, <2>5, <3>1 DEF Phase, State
      <3>4. QED
        BY <2>1, <3>2, <3>3 DEF Life!LifeNext, Life!Lost, Life!lifeVars
    <2>6. QED BY <2>2, <2>3, <2>4, <2>5
  <1>3. CASE IdleTick
    <2>1. state' = state /\ age'["wake"] = age["wake"] /\ age'["wol"] = age["wol"]
      BY <1>3 DEF IdleTick, BusyVerdict, IdleStrike, TriggerShutdown, TriggerReturns,
         ActivityAnswered, TypeOK, Stamps, status
    <2>2. QED BY <2>1, <1>s
  <1>4. CASE WakeWhileAwake
    <2>1. /\ state \in PcAwakeStates /\ state' = state
          /\ age'["wake"] = 0 /\ age'["wol"] = age["wol"]
      BY <1>4 DEF WakeWhileAwake, TypeOK, Stamps, status
    <2>2. Phase' = IF Phase = "awake" THEN Phase ELSE "waking"
      BY <2>1 DEF Phase, PcAwakeStates
    <2>3. Retried' = FALSE
      <3>1. CASE state = "waking"
        <4>1. age["wol"] # Never
          BY <3>1 DEF WakeInv, ResendCadence
        <4>2. ~(age["wol"] < 0)
          BY <1>t, <4>1 DEF Age, Never
        <4>3. QED BY <2>1, <4>2 DEF Retried
      <3>2. CASE state # "waking"
        BY <2>1, <3>2 DEF Retried
      <3>3. QED BY <3>1, <3>2
    <2>4. (age'["wake"] # Never) = TRUE
      BY <2>1 DEF Never
    <2>5. QED BY <2>2, <2>3, <2>4 DEF Life!LifeNext, Life!Ask
  <1>5. CASE WakeFromSleep
    <2>1. /\ state \notin PcAwakeStates /\ state' = "waking"
          /\ age'["wake"] = 0 /\ age'["wol"] = 0
      BY <1>5 DEF WakeFromSleep, TypeOK, Stamps
    <2>2. Phase' = IF Phase = "awake" THEN Phase ELSE "waking"
      BY <2>1 DEF Phase, PcAwakeStates
    <2>3. Retried' = FALSE
      <3>1. ~(0 < 0)
        OBVIOUS
      <3>2. QED BY <2>1, <3>1 DEF Retried
    <2>4. (age'["wake"] # Never) = TRUE
      BY <2>1 DEF Never
    <2>5. QED BY <2>2, <2>3, <2>4 DEF Life!LifeNext, Life!Ask
  <1>6. CASE PowerOff \/ PowerOffReturns \/ \E b \in BOOLEAN : SetKeepAwake(b)
    BY <1>6, <1>s DEF PowerOff, PowerOffReturns, SetKeepAwake, brokerVars, status
  <1>7. CASE ProxyChats \/ ProxyLists
    <2>1. state' = state /\ age'["wake"] = age["wake"] /\ age'["wol"] = age["wol"]
      BY <1>7 DEF ProxyChats, ProxyLists, TypeOK, Stamps, status
    <2>2. QED BY <2>1, <1>s
  <1>8. CASE (\E c \in Callers : AgentAccepts(c)) \/ Pc \/ PowerLoss \/ UNCHANGED vars
    <2>1. state' = state /\ age' = age
      BY <1>8 DEF AgentAccepts, Pc, PowerButton, PcBoots, PcStops, PowerLoss, OllamaFlips,
         vars, brokerVars, status
    <2>2. QED BY <2>1, <1>s
  <1>9. CASE Restart
    <2>1. state' = "offline" /\ age'["wake"] = Never
      BY <1>9 DEF Restart, Stamps
    <2>2. Phase' = "asleep" /\ Retried' = FALSE
      BY <2>1 DEF Phase, Retried
    <2>3. QED BY <2>1, <2>2 DEF Life!LifeNext, Life!Forget
  <1>10. CASE Tick
    <2>1. /\ state' = state
          /\ age'["wake"] = Older(age["wake"], Horizon)
          /\ age'["wol"] = Older(age["wol"], Horizon)
          /\ age'["wake"] = Never <=> age["wake"] = Never
      BY <1>10, TickAges DEF Tick, Stamps, Cap, status
    <2>2. Retried' = Retried
      <3>1. CASE state = "waking"
        <4>1. Older(age["wol"], Horizon) < Older(age["wake"], Horizon)
                <=> age["wol"] < age["wake"]
          BY <1>t, <3>1, WakeBelowHorizon, OlderKeepsOrder, BrokerConstants
        <4>2. QED BY <2>1, <3>1, <4>1 DEF Retried
      <3>2. CASE state # "waking"
        BY <2>1, <3>2 DEF Retried
      <3>3. QED BY <3>1, <3>2
    <2>3. Phase' = Phase
      BY <2>1 DEF Phase
    <2>4. QED BY <2>1, <2>2, <2>3 DEF Life!lifeVars
  <1>11. QED
    BY <1>1, <1>2, <1>3, <1>4, <1>5, <1>6, <1>7, <1>8, <1>9, <1>10
    DEF Next, PollStep, Operator, RequestWake

(***************************************************************************)
(* The broker is an implementation of the life of a wake: its polls, time- *)
(* outs and packets are seen from outside as that life's steps or not.     *)
(***************************************************************************)
THEOREM LifeTheorem == SafeSpec => ImplementsWakeLife
  <1>1. Init => Life!LifeInit
    BY DEF Init, Life!LifeInit, Phase, Retried, Stamps
  <1>2. QED
    BY <1>1, TypeCorrect, StatusInvariant, WakeInvariant, LifeStep, PTL
    DEF SafeSpec, ImplementsWakeLife, Life!LifeSpec

-----------------------------------------------------------------------------
(***************************************************************************)
(* While the shutdown call is awaited, the age of the trigger is the time  *)
(* awaited, and no chat noted activity before it: the verdict saw none.    *)
(***************************************************************************)
TriggerInv ==
    loop = "shutdown" =>
        /\ age["trigger"] = waited
        /\ active_llm_streams > 0 => age["llm"] # Never /\ age["llm"] <= waited

LEMMA TriggerStep ==
    ASSUME TypeOK, TypeOK', TriggerInv, [Next]_vars
    PROVE  TriggerInv'
  <1> SUFFICES ASSUME loop' = "shutdown" PROVE TriggerInv'
    BY DEF TriggerInv
  <1>1. CASE PollStep
    <2>1. PICK r \in Reports \cup {NoReport} : TriggerShutdown(r)
      BY <1>1 DEF PollStep, ProbeAnswered, HealthAnswered, ModelsAnswered, ApplyRefresh,
         IdleTick, BusyVerdict, IdleStrike, TriggerReturns, Await
    <2>2. age'["trigger"] = 0 /\ waited' = 0
      BY <2>1 DEF TriggerShutdown, Await, TypeOK, Stamps
    <2>3. ~(active_llm_streams > 0) /\ active_llm_streams' = active_llm_streams
      BY <2>1 DEF TriggerShutdown, ActivityAnswered, Verdict, ShouldIdleShutdown, proxied
    <2>4. QED BY <2>2, <2>3 DEF TriggerInv
  <1>2. CASE Operator
    <2>1. /\ loop' = loop /\ waited' = waited /\ active_llm_streams' = active_llm_streams
          /\ age'["trigger"] = age["trigger"] /\ age'["llm"] = age["llm"]
      BY <1>2 DEF Operator, RequestWake, WakeWhileAwake, WakeFromSleep, PowerOff,
         PowerOffReturns, SetKeepAwake, brokerVars, proxied, loopVars, TypeOK, Stamps
    <2>2. QED BY <2>1 DEF TriggerInv
  <1>3. CASE ProxyChats
    <2>1. /\ loop' = loop /\ waited' = waited
          /\ age'["trigger"] = age["trigger"] /\ age'["llm"] = 0
      BY <1>3 DEF ProxyChats, loopVars, TypeOK, Stamps
    <2>2. 0 <= waited
      BY BrokerConstants DEF TypeOK
    <2>3. QED BY <2>1, <2>2 DEF TriggerInv, Never
  <1>4. CASE ProxyLists
    BY <1>4 DEF ProxyLists, loopVars, TriggerInv
  <1>5. CASE (\E c \in Callers : AgentAccepts(c)) \/ Pc \/ PowerLoss \/ UNCHANGED vars
    <2>1. UNCHANGED brokerVars
      BY <1>5 DEF AgentAccepts, Pc, PowerButton, PcBoots, PcStops, PowerLoss, OllamaFlips, vars
    <2>2. QED
      BY <2>1 DEF TriggerInv, brokerVars, proxied, loopVars
  <1>6. CASE Restart
    BY <1>6 DEF Restart, Await
  <1>7. CASE Tick
    <2>1. /\ loop = "shutdown" /\ waited < MaxAwait /\ waited' = waited + 1
          /\ active_llm_streams' = active_llm_streams
      BY <1>7 DEF Tick, Await, proxied
    <2>2. waited \in Nat /\ MaxAwait \in Nat /\ RetriggerGuard \in Nat
      BY BrokerConstants DEF TypeOK
    <2>3. age'["trigger"] = waited + 1
      <3>1. age["trigger"] = waited /\ Cap["trigger"] = RetriggerGuard
        BY <2>1 DEF TriggerInv, Cap, Stamps
      <3>2. waited < RetriggerGuard
        BY <2>1, <2>2, GuardOutlastsCall
      <3>3. age'["trigger"] = Older(waited, RetriggerGuard)
        BY <1>7, <3>1, TickAges DEF Stamps
      <3>4. QED BY <2>2, <3>2, <3>3 DEF Older, Never
    <2>4. ASSUME active_llm_streams > 0
          PROVE  age'["llm"] # Never /\ age'["llm"] <= waited + 1
      <3>1. age["llm"] # Never /\ age["llm"] <= waited /\ age["llm"] \in Age
        BY <2>1, <2>4 DEF TriggerInv, TypeOK, Stamps
      <3>2. age'["llm"] # Never /\ age'["llm"] \in {age["llm"], age["llm"] + 1}
        BY <1>7, <3>1, TickAges DEF Stamps
      <3>3. QED BY <2>2, <3>1, <3>2 DEF Age, Never
    <2>5. QED BY <2>1, <2>3, <2>4 DEF TriggerInv
  <1>8. QED
    BY <1>1, <1>2, <1>3, <1>4, <1>5, <1>6, <1>7 DEF Next

(***************************************************************************)
(* A chat that is in flight while the idle shutdown is requested began     *)
(* after the verdict.                                                      *)
(***************************************************************************)
THEOREM LateComersTheorem == SafeSpec => []LateComersOnly
  <1>1. Init => TriggerInv
    BY DEF Init, TriggerInv
  <1>2. TriggerInv => LateComersOnly
    BY DEF TriggerInv, LateComersOnly
  <1>3. QED BY <1>1, <1>2, TypeCorrect, TriggerStep, PTL DEF SafeSpec

-----------------------------------------------------------------------------
(***************************************************************************)
(* The refinement of IdleWatch.                                            *)
(***************************************************************************)
LEMMA VerdictNeedsReport ==
    ASSUME NEW report, Verdict(report)
    PROVE  report # NoReport /\ ReportAllows(report)
  BY DEF Verdict, ShouldIdleShutdown

LEMMA WatchStep ==
    ASSUME TypeOK, TypeOK', [Next]_vars
    PROVE  [Watch!WatchNext]_Watch!watchVars
  <1>t. /\ loop \in Awaits \cup {"apply"} /\ waited \in 0..MaxAwait
        /\ call["idle_tick"] \in {"none", "sent", "answered"}
    BY DEF TypeOK, Callers
  \* A step that leaves the report, the call and what the loop awaits alone.
  <1>s. ASSUME activity_report' = activity_report, call'["idle_tick"] = call["idle_tick"],
               \/ loop' = loop /\ waited' = waited
               \/ {loop, loop'} \cap {"activity", "shutdown"} = {}
        PROVE  UNCHANGED Watch!watchVars
    <2>1. WatchOf' = WatchOf
      BY <1>s DEF WatchOf
    <2>2. QED BY <1>s, <2>1 DEF Watch!watchVars, WatchOf
  <1>1. CASE ProbeAnswered \/ HealthAnswered \/ ModelsAnswered
    <2>1. {loop, loop'} \cap {"activity", "shutdown"} = {}
      BY <1>1 DEF ProbeAnswered, HealthAnswered, ModelsAnswered, Await
    <2>2. QED
      BY <1>1, <2>1, <1>s DEF ProbeAnswered, HealthAnswered, ModelsAnswered, idleVars
  <1>2. CASE ApplyRefresh
    <2>1. /\ activity_report' = activity_report /\ call' = call
          /\ loop = "apply" /\ loop' \in {"activity", "sleep"} /\ waited' = 0
      BY <1>2 DEF ApplyRefresh, Await
    <2>2. CASE loop' = "sleep"
      BY <2>1, <2>2, <1>s
    <2>3. CASE loop' = "activity"
      BY <2>1, <2>3 DEF Watch!WatchNext, Watch!Asks, Watch!Call, WatchOf
    <2>4. QED BY <2>1, <2>2, <2>3
  <1>3. CASE \E r \in Reports \cup {NoReport} : BusyVerdict(r) \/ IdleStrike(r)
    <2>1. call' = call /\ loop = "activity" /\ loop' = "sleep"
      BY <1>3 DEF BusyVerdict, IdleStrike, ActivityAnswered, Await
    <2>2. WatchOf = "asking" /\ WatchOf' = "none"
      BY <2>1 DEF WatchOf
    <2>3. QED BY <2>1, <2>2 DEF Watch!WatchNext, Watch!Disregards, Watch!Call
  <1>4. ASSUME NEW r \in Reports \cup {NoReport}, TriggerShutdown(r)
        PROVE  Watch!WatchNext
    <2>1. /\ loop = "activity" /\ loop' = "shutdown" /\ waited' = 0
          /\ activity_report' = r /\ call'["idle_tick"] = "sent"
      BY <1>4 DEF TriggerShutdown, ActivityAnswered, Await, TypeOK, Callers
    <2>2. r # NoReport /\ ReportAllows(r)
      BY <1>4, VerdictNeedsReport DEF TriggerShutdown
    <2>3. (activity_report' # NoReport /\ ReportAllows(activity_report')) = TRUE
      BY <2>1, <2>2
    <2>4. WatchOf = "asking" /\ WatchOf' = "commanding"
      BY <2>1 DEF WatchOf
    <2>5. QED
      BY <2>1, <2>3, <2>4 DEF Watch!WatchNext, Watch!Commands, Watch!Call
  <1>5. CASE TriggerReturns
    <2>1. /\ loop = "shutdown" /\ loop' = "sleep" /\ activity_report' = activity_report
          /\ call'["idle_tick"] = "none"
      BY <1>5 DEF TriggerReturns, Await, TypeOK, Callers, idleVars
    <2>2. WatchOf = "commanding" /\ WatchOf' = "none"
      BY <2>1 DEF WatchOf
    <2>3. QED BY <2>1, <2>2 DEF Watch!WatchNext, Watch!Returns, Watch!Call
  <1>6. CASE Operator
    <2>1. /\ activity_report' = activity_report /\ loop' = loop /\ waited' = waited
          /\ call'["idle_tick"] = call["idle_tick"]
      BY <1>6 DEF Operator, RequestWake, WakeWhileAwake, WakeFromSleep, PowerOff,
         PowerOffReturns, SetKeepAwake, brokerVars, idleVars, loopVars, TypeOK, Callers
    <2>2. QED BY <2>1, <1>s
  <1>7. CASE ProxyChats \/ ProxyLists \/ Pc \/ PowerLoss \/ UNCHANGED vars
    <2>1. UNCHANGED <<activity_report, loop, waited, call>>
      BY <1>7 DEF ProxyChats, ProxyLists, Pc, PowerButton, PcBoots, PcStops, PowerLoss,
         OllamaFlips, vars, brokerVars, idleVars, loopVars
    <2>2. QED BY <2>1, <1>s
  <1>8. ASSUME NEW c \in Callers, AgentAccepts(c)
        PROVE  [Watch!WatchNext]_Watch!watchVars
    <2>1. UNCHANGED <<activity_report, loop, waited>>
      BY <1>8 DEF AgentAccepts, brokerVars, idleVars, loopVars
    <2>2. CASE c = "idle_tick"
      <3>1. call["idle_tick"] = "sent" /\ call'["idle_tick"] = "answered"
        BY <1>8, <2>2 DEF AgentAccepts, TypeOK
      <3>2. WatchOf' = WatchOf
        BY <2>1 DEF WatchOf
      <3>3. QED BY <2>1, <3>1, <3>2 DEF Watch!WatchNext, Watch!Accepted
    <2>3. CASE c # "idle_tick"
      <3>1. call'["idle_tick"] = call["idle_tick"]
        BY <1>8, <2>3 DEF AgentAccepts, TypeOK, Callers
      <3>2. QED BY <2>1, <3>1, <1>s
    <2>4. QED BY <2>2, <2>3
  <1>9. CASE Restart
    <2>1. /\ loop' = "probe" /\ activity_report' = NoReport /\ call'["idle_tick"] = "none"
      BY <1>9 DEF Restart, Await, Callers
    <2>2. WatchOf' = "none"
      BY <2>1 DEF WatchOf
    <2>3. (activity_report' # NoReport /\ ReportAllows(activity_report')) = FALSE
      BY <2>1
    <2>4. QED BY <2>1, <2>2, <2>3 DEF Watch!WatchNext, Watch!Dies, Watch!Call
  <1>10. CASE Tick
    <2>1. UNCHANGED <<activity_report, call>>
      BY <1>10 DEF Tick, idleVars
    <2>2. CASE loop \notin {"activity", "shutdown"}
      <3>1. {loop, loop'} \cap {"activity", "shutdown"} = {}
        BY <1>10, <2>2 DEF Tick, Await
      <3>2. QED BY <2>1, <3>1, <1>s
    <2>3. CASE loop \in {"activity", "shutdown"}
      <3>1. waited < MaxAwait /\ waited' = waited + 1 /\ loop' = loop
        BY <1>10, <2>3 DEF Tick, Await
      <3>2. WatchOf # "none" /\ WatchOf' = WatchOf
        BY <2>3, <3>1 DEF WatchOf
      <3>3. QED BY <2>1, <3>1, <3>2 DEF Watch!WatchNext, Watch!WatchTick
    <2>4. QED BY <2>2, <2>3
  <1>11. QED
    BY <1>1, <1>2, <1>3, <1>4, <1>5, <1>6, <1>7, <1>8, <1>9, <1>10
    DEF Next, PollStep, IdleTick

(***************************************************************************)
(* Whatever its polls, its users and its restarts do, the broker commands  *)
(* a shutdown only on the answer it has just received, once.               *)
(***************************************************************************)
THEOREM WatchTheorem == SafeSpec => ImplementsIdleWatch
  <1>1. Init => Watch!WatchInit
    <2>1. SUFFICES ASSUME Init PROVE Watch!WatchInit
      OBVIOUS
    <2>2. /\ loop = "probe" /\ activity_report = NoReport /\ call["idle_tick"] = "none"
      BY <2>1 DEF Init, Callers
    <2>3. (activity_report # NoReport /\ ReportAllows(activity_report)) = FALSE
      BY <2>2
    <2>4. QED BY <2>2, <2>3 DEF Watch!WatchInit, WatchOf
  <1>2. QED
    BY <1>1, TypeCorrect, WatchStep, PTL DEF SafeSpec, ImplementsIdleWatch, Watch!WatchSpec
=============================================================================
