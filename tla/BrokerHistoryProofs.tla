------------------------- MODULE BrokerHistoryProofs ------------------------
(***************************************************************************)
(* What is proved of BrokerHistory, for every configuration its ASSUMEs    *)
(* allow: what users remember across restarts of the broker.               *)
(***************************************************************************)
EXTENDS BrokerHistory, BrokerProofs

LEMMA HistoryImplementsBroker == HSpec => SafeSpec
  <1>1. HInit => Init
    BY DEF HInit
  <1>2. [HNext]_hvars => [Next]_vars
    BY DEF HNext, hvars, Next, AskWake, Chat, Pin, HTick, Unremarked, Operator
  <1>3. QED BY <1>1, <1>2, PTL DEF HSpec, SafeSpec

LEMMA HistoryTypeCorrect == HSpec => []HistoryTypeOK
  <1>1. HInit => HistoryTypeOK
    BY DEF HInit, HistoryTypeOK, Age, Never
  <1>2. HistoryTypeOK /\ [HNext]_hvars => HistoryTypeOK'
    <2> SUFFICES ASSUME HistoryTypeOK, [HNext]_hvars PROVE HistoryTypeOK'
      OBVIOUS
    <2>1. CASE AskWake \/ Chat \/ Pin
      BY <2>1 DEF AskWake, Chat, Pin, HistoryTypeOK, Age
    <2>2. CASE HTick
      BY <2>2, OlderType DEF HTick, HistoryTypeOK
    <2>3. CASE Unremarked \/ UNCHANGED hvars
      BY <2>3 DEF Unremarked, hvars, history, HistoryTypeOK
    <2>4. QED BY <2>1, <2>2, <2>3 DEF HNext
  <1>3. QED BY <1>1, <1>2, PTL DEF HSpec

\* A step of the broker from activity to shutdown is the trigger.
LEMMA TriggersIsVerdict ==
    ASSUME [HNext]_hvars, Triggers
    PROVE  \E r \in Reports \cup {NoReport} : TriggerShutdown(r)
  BY DEF Triggers, HNext, hvars, vars, brokerVars, loopVars, history, AskWake, Chat, Pin, HTick,
     Unremarked, PollStep, ProbeAnswered, HealthAnswered, ModelsAnswered, ApplyRefresh,
     IdleTick, BusyVerdict, IdleStrike, TriggerReturns, Await, RequestWake, WakeWhileAwake,
     WakeFromSleep, PowerOff, PowerOffReturns, SetKeepAwake, ProxyChats, ProxyLists,
     AgentAccepts, Pc, PowerButton, PcBoots, PcStops, PowerLoss, OllamaFlips, Restart, Tick

-----------------------------------------------------------------------------
(***************************************************************************)
(* For IdleShutdown after the last use the broker either remembers it, or  *)
(* was restarted since and has not been ready for longer than that.        *)
(***************************************************************************)
Remembers(stamp) == age[stamp] # Never /\ age[stamp] <= used

UsedInv ==
    used # Never /\ used < IdleShutdown =>
        Remembers("wake") \/ Remembers("llm") \/ age["ready"] = Never \/ Remembers("ready")

LEMMA UsedStep ==
    ASSUME TypeOK, TypeOK', HistoryTypeOK, HistoryTypeOK', UsedInv, [HNext]_hvars
    PROVE  UsedInv'
  <1>t. /\ \A s \in Stamps : age[s] \in Age /\ age'[s] \in Age
        /\ used \in Age /\ used' \in Age
        /\ {"wake", "llm", "ready"} \subseteq Stamps
    BY DEF TypeOK, HistoryTypeOK, Stamps
  \* A step that takes no time and makes none of the ages longer.
  <1>k. ASSUME used' = used, age'["wake"] = age["wake"], age'["llm"] = age["llm"],
               age'["ready"] \in {Never, 0, age["ready"]}
        PROVE  UsedInv'
    BY <1>t, <1>k DEF UsedInv, Remembers, Age, Never
  <1>1. CASE AskWake \/ Chat
    <2>1. used' = 0 /\ (age'["wake"] = 0 \/ age'["llm"] = 0)
      BY <1>1 DEF AskWake, Chat, RequestWake, WakeWhileAwake, WakeFromSleep, ProxyChats,
         TypeOK, Stamps
    <2>2. 0 # Never /\ 0 <= 0
      BY DEF Never
    <2>3. QED BY <2>1, <2>2 DEF UsedInv, Remembers
  <1>2. CASE Pin
    BY <1>2, <1>k DEF Pin, SetKeepAwake
  <1>3. CASE HTick
    <2>1. used' = Older(used, IdleShutdown) /\ Tick
      BY <1>3 DEF HTick
    <2>2. SUFFICES ASSUME used' # Never, used' < IdleShutdown PROVE UsedInv'
      BY DEF UsedInv
    <2>3. used # Never /\ used < IdleShutdown /\ used' = used + 1
      BY <1>t, <2>1, <2>2, PolicyConstants DEF Older, Age, Never
    <2>4. ASSUME NEW s \in Stamps, Remembers(s)
          PROVE  age'[s] # Never /\ age'[s] <= used + 1
      <3>1. age'[s] # Never /\ age'[s] \in {age[s], age[s] + 1}
        BY <2>1, <2>4, TickAges DEF Remembers
      <3>2. QED BY <1>t, <2>3, <2>4, <3>1 DEF Remembers, Age, Never
    <2>5. CASE \E s \in {"wake", "llm", "ready"} : Remembers(s)
      BY <1>t, <2>3, <2>4, <2>5 DEF UsedInv, Remembers
    <2>6. CASE age["ready"] = Never
      <3>1. age'["ready"] = Never
        BY <2>1, <2>6, TickAges DEF Stamps
      <3>2. QED BY <3>1 DEF UsedInv
    <2>7. QED BY <2>3, <2>5, <2>6 DEF UsedInv
  <1>4. CASE Unremarked
    <2>1. used' = used
      BY <1>4 DEF Unremarked, history
    <2>2. CASE ApplyRefresh
      <3>1. /\ age'["wake"] = age["wake"] /\ age'["llm"] = age["llm"]
            /\ age'["ready"] = ReadySince
        BY <2>2 DEF ApplyRefresh, TypeOK, Stamps
      <3>2. ReadySince \in {Never, 0, age["ready"]}
        BY DEF ReadySince
      <3>3. QED BY <2>1, <3>1, <3>2, <1>k
    <2>3. CASE Restart
      <3>1. age'["ready"] = Never
        BY <2>3 DEF Restart, Stamps
      <3>2. QED BY <3>1 DEF UsedInv
    <2>4. CASE ~ApplyRefresh /\ ~Restart
      <3>1. /\ age'["wake"] = age["wake"] /\ age'["llm"] = age["llm"]
            /\ age'["ready"] = age["ready"]
        BY <1>4, <2>4 DEF Unremarked, PollStep, ProbeAnswered, HealthAnswered,
           ModelsAnswered, IdleTick, BusyVerdict, IdleStrike, TriggerShutdown,
           TriggerReturns, ActivityAnswered, PowerOff, PowerOffReturns,
           ProxyLists, AgentAccepts, Pc, PowerButton, PcBoots, PcStops, PowerLoss,
           OllamaFlips, brokerVars, TypeOK, Stamps
      <3>2. QED BY <2>1, <3>1, <1>k
    <2>5. QED BY <2>2, <2>3, <2>4
  <1>5. CASE UNCHANGED hvars
    BY <1>5, <1>k DEF hvars, vars, brokerVars, history
  <1>6. QED BY <1>1, <1>2, <1>3, <1>4, <1>5 DEF HNext

(***************************************************************************)
(* No automatic shutdown before IdleShutdown has passed since the PC was   *)
(* last used through the broker, even of a use that a restart made the     *)
(* broker forget: readiness must then last as long anew.                   *)
(***************************************************************************)
THEOREM UsedTheorem == HSpec => NoAutoOffWhileUsed
  <1>1. HInit => UsedInv
    BY DEF HInit, UsedInv
  <1>2. TypeOK /\ HistoryTypeOK /\ UsedInv /\ [HNext]_hvars
          => [Triggers => used = Never \/ used >= IdleShutdown]_hvars
    <2> SUFFICES ASSUME TypeOK, HistoryTypeOK, UsedInv, [HNext]_hvars, Triggers,
                        used # Never, ~(used >= IdleShutdown)
                 PROVE  FALSE
      OBVIOUS
    <2>1. PICK r \in Reports \cup {NoReport} : TriggerShutdown(r)
      BY TriggersIsVerdict
    <2>2. /\ age["ready"] # Never
          /\ \A s \in {"wake", "llm", "ready"} : age[s] # Never => age[s] >= IdleShutdown
      BY <2>1 DEF TriggerShutdown, Verdict, ShouldIdleShutdown, LongAgo
    <2>3. used \in Age /\ \A s \in {"wake", "llm", "ready"} : age[s] \in Age
      BY DEF TypeOK, HistoryTypeOK, Stamps
    <2>4. used < IdleShutdown
      BY <2>3, PolicyConstants DEF Age, Never
    <2>5. PICK s \in {"wake", "llm", "ready"} : Remembers(s)
      BY <2>2, <2>4 DEF UsedInv
    <2>6. QED
      BY <2>2, <2>3, <2>4, <2>5, PolicyConstants DEF Remembers, Age, Never
  <1>3. QED
    BY <1>1, <1>2, HistoryImplementsBroker, TypeCorrect, HistoryTypeCorrect, UsedStep, PTL
    DEF HSpec, NoAutoOffWhileUsed

-----------------------------------------------------------------------------
(***************************************************************************)
(* A row of k verdicts has taken k - 1 report intervals, and the age of    *)
(* its last report, since the pin was last touched; and the loop asks for  *)
(* the next report only when the last one is a report interval old.        *)
(***************************************************************************)
SpentBy(strikes, report) == (strikes - 1) * ActivityPoll + report
Spent == SpentBy(idle_strikes, age["report"])

RowInv ==
    /\ age["report"] <= ActivityPoll
    /\ loop = "activity" /\ age["report"] # Never => age["report"] = ActivityPoll
    /\ idle_strikes > 0 => age["report"] # Never
    /\ idle_strikes > 0 => pinned = Never \/ pinned >= Spent

\* A row that is not complete never takes longer than RowSpan.
LEMMA SpentIsBounded ==
    ASSUME NEW k \in Nat, NEW n \in Nat, NEW p \in Nat, NEW a \in Nat,
           k >= 1, k <= n - 1, a <= p
    PROVE  (k - 1) * p + a <= (n - 1) * p
  <1>1. (k - 1) * p + a <= (k - 1) * p + p
    OBVIOUS
  <1>2. (k - 1) * p + p = k * p
    OBVIOUS
  <1>3. k * p <= (n - 1) * p
    OBVIOUS
  <1>4. QED BY <1>1, <1>2, <1>3

LEMMA RowType ==
    ASSUME TypeOK, HistoryTypeOK
    PROVE  /\ idle_strikes \in Nat /\ idle_strikes <= ConsecutiveChecks - 1
           /\ age["report"] \in Age /\ pinned \in Age
           /\ ActivityPoll \in Nat \ {0} /\ ConsecutiveChecks \in Nat \ {0}
           /\ RowSpan \in Nat
  <1>1. ActivityPoll \in Nat \ {0} /\ ConsecutiveChecks \in Nat \ {0}
    BY PolicyConstants, BrokerConstants
  <1>2. RowSpan \in Nat
    BY <1>1 DEF RowSpan
  <1>3. QED BY <1>1, <1>2 DEF TypeOK, HistoryTypeOK, Stamps

LEMMA RowStep ==
    ASSUME TypeOK, TypeOK', HistoryTypeOK, HistoryTypeOK', RowInv, [HNext]_hvars
    PROVE  RowInv'
  <1>t. /\ idle_strikes \in Nat /\ idle_strikes <= ConsecutiveChecks - 1
        /\ age["report"] \in Age /\ pinned \in Age
        /\ ActivityPoll \in Nat \ {0} /\ ConsecutiveChecks \in Nat \ {0}
        /\ RowSpan \in Nat
    BY RowType
  \* A step that keeps the report and the pin, keeps or drops the row, and does
  \* not begin an activity call.
  <1>k. ASSUME age'["report"] = age["report"], pinned' = pinned,
               idle_strikes' \in {0, idle_strikes}, loop' = "activity" => loop = "activity"
        PROVE  RowInv'
    BY <1>k DEF RowInv, Spent
  <1>1. CASE AskWake
    <2>1. /\ age'["report"] = age["report"] /\ pinned' = pinned
          /\ idle_strikes' = idle_strikes /\ loop' = loop
      BY <1>1 DEF AskWake, RequestWake, WakeWhileAwake, WakeFromSleep, TypeOK, Stamps,
         idleVars, loopVars
    <2>2. QED BY <2>1, <1>k
  <1>c. CASE Chat
    <2>1. /\ age'["report"] = age["report"] /\ pinned' = pinned
          /\ idle_strikes' = idle_strikes /\ loop' = loop
      BY <1>c DEF Chat, ProxyChats, TypeOK, Stamps, idleVars, loopVars
    <2>2. QED BY <2>1, <1>k
  <1>2. CASE Pin
    <2>1. age'["report"] = age["report"] /\ idle_strikes' = 0 /\ loop' = loop
      BY <1>2 DEF Pin, SetKeepAwake, loopVars
    <2>2. QED BY <2>1 DEF RowInv
  <1>3. CASE HTick
    <2>1. /\ Tick /\ idle_strikes' = idle_strikes
          /\ pinned' = Older(pinned, RowSpan)
          /\ age'["report"] = Older(age["report"], ActivityPoll)
          /\ loop' = "activity" => loop = "activity"
      BY <1>3, TickAges DEF HTick, Tick, Stamps, Cap, idleVars, Await
    <2>2. DEFINE older == Older(age["report"], ActivityPoll)
    <2>3. /\ older <= ActivityPoll
          /\ age["report"] = ActivityPoll => older = ActivityPoll
          /\ older = Never <=> age["report"] = Never
          /\ older \in {age["report"], age["report"] + 1}
      BY <1>t DEF RowInv, Older, Age, Never
    <2>4. ASSUME idle_strikes > 0
          PROVE  Older(pinned, RowSpan) = Never
                 \/ Older(pinned, RowSpan) >= (idle_strikes - 1) * ActivityPoll + older
      <3>1. CASE pinned = Never
        BY <3>1 DEF Older
      <3>2. CASE pinned # Never /\ pinned >= RowSpan
        <4>1. older \in Nat
          BY <1>t, <2>3, <2>4 DEF RowInv, Age, Never
        <4>2. (idle_strikes - 1) * ActivityPoll + older <= RowSpan
          BY <1>t, <2>3, <2>4, <4>1, SpentIsBounded DEF RowSpan
        <4>3. QED BY <1>t, <3>2, <4>1, <4>2 DEF Older, Age
      <3>3. CASE pinned # Never /\ pinned < RowSpan
        <4>1. pinned >= Spent /\ Older(pinned, RowSpan) = pinned + 1
          BY <1>t, <2>4, <3>3 DEF RowInv, Older, Age, Never
        <4>2. DEFINE past == (idle_strikes - 1) * ActivityPoll
        <4>3. past \in Nat
          BY <1>t, <2>4
        <4>4. pinned >= past + age["report"]
          BY <4>1 DEF Spent, SpentBy
        <4>5. pinned + 1 >= past + older
          <5> HIDE DEF past, older
          <5>1. QED BY <1>t, <2>3, <2>4, <4>3, <4>4 DEF Age, Never
        <4>6. QED BY <4>1, <4>5
      <3>4. QED BY <1>t, <3>1, <3>2, <3>3 DEF Age, Never
    <2>5. age'["report"] = older
      BY <2>1
    <2>6. QED
      <3> HIDE DEF older
      <3>1. QED BY <2>1, <2>3, <2>4, <2>5 DEF RowInv, Spent, SpentBy
  <1>4. CASE Unremarked
    <2>1. pinned' = pinned
      BY <1>4 DEF Unremarked, history
    <2>2. CASE ApplyRefresh
      <3>1. /\ age'["report"] = age["report"] /\ idle_strikes' \in {0, idle_strikes}
            /\ loop' = IF IdleTickDue(NextState) THEN "activity" ELSE "sleep"
        BY <2>2 DEF ApplyRefresh, StrikesCarried, Await, TypeOK, Stamps
      <3>2. loop' = "activity" /\ age["report"] # Never => age["report"] = ActivityPoll
        BY <1>t, <3>1 DEF IdleTickDue, RowInv, Age, Never
      <3>3. QED BY <2>1, <3>1, <3>2 DEF RowInv, Spent
    <2>3. CASE Restart
      <3>1. age'["report"] = Never /\ idle_strikes' = 0
        BY <2>3 DEF Restart, Stamps
      <3>2. Never <= ActivityPoll
        BY <1>t DEF Never
      <3>3. QED BY <3>1, <3>2 DEF RowInv
    <2>4. CASE \E r \in Reports \cup {NoReport} : BusyVerdict(r) \/ TriggerShutdown(r)
      <3>1. age'["report"] = 0 /\ idle_strikes' = 0 /\ loop' # "activity"
        BY <2>4 DEF BusyVerdict, TriggerShutdown, ActivityAnswered, Await, TypeOK, Stamps
      <3>2. QED BY <1>t, <3>1 DEF RowInv
    <2>5. ASSUME NEW r \in Reports \cup {NoReport}, IdleStrike(r)
          PROVE  RowInv'
      <3>1. /\ age'["report"] = 0 /\ idle_strikes' = idle_strikes + 1
            /\ loop = "activity" /\ loop' # "activity"
        BY <2>5 DEF IdleStrike, ActivityAnswered, Await, TypeOK, Stamps
      <3>2. pinned = Never \/ pinned >= idle_strikes * ActivityPoll
        <4>1. CASE idle_strikes = 0
          BY <1>t, <4>1 DEF Age, Never
        <4>2. CASE idle_strikes > 0
          <5>1. Spent = (idle_strikes - 1) * ActivityPoll + ActivityPoll
            BY <3>1, <4>2 DEF RowInv, Spent, SpentBy
          <5>2. (idle_strikes - 1) * ActivityPoll + ActivityPoll = idle_strikes * ActivityPoll
            BY <1>t
          <5>3. QED BY <4>2, <5>1, <5>2 DEF RowInv
        <4>3. QED BY <1>t, <4>1, <4>2
      <3>3. SpentBy(idle_strikes + 1, 0) = idle_strikes * ActivityPoll
        BY <1>t DEF SpentBy
      <3>4. Spent' = idle_strikes * ActivityPoll
        BY <3>1, <3>3 DEF Spent
      <3>5. 0 <= ActivityPoll /\ 0 # Never
        BY <1>t DEF Never
      <3>6. QED BY <2>1, <3>1, <3>2, <3>4, <3>5 DEF RowInv
    <2>6. CASE /\ ~ApplyRefresh /\ ~Restart
               /\ ~\E r \in Reports \cup {NoReport} :
                     BusyVerdict(r) \/ IdleStrike(r) \/ TriggerShutdown(r)
      <3>1. /\ age'["report"] = age["report"] /\ idle_strikes' = idle_strikes
            /\ loop' = "activity" => loop = "activity"
        BY <1>4, <2>6 DEF Unremarked, PollStep, ProbeAnswered, HealthAnswered,
           ModelsAnswered, IdleTick, TriggerReturns, PowerOff, PowerOffReturns,
           ProxyLists, AgentAccepts, Pc, PowerButton, PcBoots, PcStops,
           PowerLoss, OllamaFlips, brokerVars, idleVars, loopVars, Await, TypeOK, Stamps
      <3>2. QED BY <2>1, <3>1, <1>k
    <2>7. QED BY <2>2, <2>3, <2>4, <2>5, <2>6
  <1>5. CASE UNCHANGED hvars
    BY <1>5, <1>k DEF hvars, vars, brokerVars, idleVars, loopVars, history
  <1>6. QED BY <1>1, <1>c, <1>2, <1>3, <1>4, <1>5 DEF HNext

(***************************************************************************)
(* No shutdown is triggered before a whole row of reports has come since   *)
(* keep-awake was last touched, whatever the broker did meanwhile.         *)
(***************************************************************************)
THEOREM PinTheorem == HSpec => PinRestartsRow
  <1>1. HInit => RowInv
    <2>1. Never <= ActivityPoll
      BY PolicyConstants DEF Never
    <2>2. QED BY <2>1 DEF HInit, Init, RowInv, Stamps
  <1>2. TypeOK /\ HistoryTypeOK /\ RowInv /\ [HNext]_hvars
          => [Triggers => pinned = Never \/ pinned >= RowSpan]_hvars
    <2> SUFFICES ASSUME TypeOK, HistoryTypeOK, RowInv, [HNext]_hvars, Triggers
                 PROVE  pinned = Never \/ pinned >= RowSpan
      OBVIOUS
    <2>1. PICK r \in Reports \cup {NoReport} : TriggerShutdown(r)
      BY TriggersIsVerdict
    <2>2. loop = "activity" /\ idle_strikes + 1 >= ConsecutiveChecks
      BY <2>1 DEF TriggerShutdown, ActivityAnswered, RowComplete
    <2>3. idle_strikes = ConsecutiveChecks - 1
      BY <2>2, RowType
    <2>4. CASE idle_strikes = 0
      <3>1. RowSpan = 0
        BY <2>3, <2>4, RowType DEF RowSpan
      <3>2. QED BY <3>1, RowType DEF Age, Never
    <2>5. CASE idle_strikes > 0
      <3>1. Spent = (idle_strikes - 1) * ActivityPoll + ActivityPoll
        BY <2>2, <2>5 DEF RowInv, Spent, SpentBy
      <3>2. (idle_strikes - 1) * ActivityPoll + ActivityPoll = idle_strikes * ActivityPoll
        BY RowType
      <3>3. RowSpan = idle_strikes * ActivityPoll
        BY <2>3 DEF RowSpan
      <3>4. QED BY <2>5, <3>1, <3>2, <3>3 DEF RowInv
    <2>6. QED BY <2>4, <2>5, RowType
  <1>3. QED
    BY <1>1, <1>2, HistoryImplementsBroker, TypeCorrect, HistoryTypeCorrect, RowStep, PTL
    DEF HSpec, PinRestartsRow
=============================================================================
