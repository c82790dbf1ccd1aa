--------------------------- MODULE ActivityProofs ---------------------------
(***************************************************************************)
(* The agent does not overlook the owner of the PC, whatever the number of *)
(* accounts, the width of the tick counter and the order in which the      *)
(* reporter, the request handler, the clock and the people take turns.     *)
(***************************************************************************)
EXTENDS ActivityAgent, TLAPS

\* Whoever is away now was last away now.
PresenceInv == Away(seat[Owner], locked[Owner], idle[Owner]) => at_work[Owner] = 0

\* A file that says idle was measured when the owner was away.
FileInv ==
    /\ file # NoFile /\ file.elapsed < Forgets
    /\ file.idle >= UserThreshold
    => at_work[Owner] <= file.elapsed

\* What WTS has said of the owner, as far as it lets them be taken for away.
SaysAway(e) ==
    \/ e.state # "Active" \/ e.locked = "yes"
    \/ e.idle # Unknown /\ e.idle >= UserThreshold

EntryInv  == handler = "sessions" /\ SaysAway(entries[Owner]) => at_work[Owner] <= waited
ReportInv == Allows => at_work[Owner] <= MaxFileAge + MaxSkew + waited

OwnerInv == ActivityTypeOK /\ PresenceInv /\ FileInv /\ EntryInv /\ ReportInv

-----------------------------------------------------------------------------
LEMMA LagType == /\ Lag \in Nat /\ Forgets \in Nat
                 /\ MaxFileAge \in Nat /\ MaxQuery \in Nat /\ MaxSkew \in Nat
                 /\ MaxIdle \in Nat /\ TickWidth \in Nat \ {0} /\ Owner \in Users
                 /\ UserThreshold \in Nat /\ MaxMemory \in Nat
  BY AgentConstants, PolicyConstants DEF Lag, Forgets

LEMMA AgesType == 0 \in 0..MaxIdle /\ 0 \in 0..MaxMemory /\ 0 \in 0..Forgets
                  /\ 0 \in 0..MaxQuery /\ 0 \in -MaxSkew..MaxSkew /\ MaxIdle \in 0..MaxIdle
  BY LagType

\* What a step does to the memory of the owner.
LEMMA AtWorkMoves ==
    ASSUME ActivityTypeOK, NEW ticks \in {0, 1}, Remember(ticks)
    PROVE  /\ at_work' \in [Users -> 0..MaxMemory]
           /\ at_work'[Owner] <= at_work[Owner] + ticks
           /\ PresenceInv'
  <1>1. \A u \in Users : at_work[u] \in 0..MaxMemory
    BY DEF ActivityTypeOK
  <1>2. \A u \in Users : at_work'[u] \in 0..MaxMemory /\ at_work'[u] <= at_work[u] + ticks
    BY <1>1, LagType DEF Remember
  <1>3. at_work' = [u \in Users |-> at_work'[u]]
    BY DEF Remember
  <1>4. PresenceInv'
    BY LagType DEF Remember, PresenceInv
  <1>5. QED BY <1>2, <1>3, <1>4, LagType

LEMMA AnswersType ==
    ASSUME ActivityTypeOK, NEW u \in Users
    PROVE  Answers(u) \subseteq Entry
  <1>1. idle[u] \in Nat
    BY LagType DEF ActivityTypeOK
  <1>2. NoSession \in Entry
    BY DEF NoSession, Entry, Tristate
  <1>3. QED BY <1>1, <1>2 DEF Answers, Entry, Tristate

LEMMA FilledType ==
    ASSUME ActivityTypeOK, NEW e \in Entry
    PROVE  Filled(e) \in Session
  <1>1. ConsoleIdle \in Nat \cup {Unknown}
    BY DEF ConsoleIdle, Fresh, ActivityTypeOK, File
  <1>2. QED BY <1>1 DEF Filled, Session, Entry

LEMMA PeopleType ==
    ASSUME ActivityTypeOK, NEW u \in Users, Someone(u)
    PROVE  ActivityTypeOK'
  <1>1. Remember(0) /\ UNCHANGED <<file, request>>
    BY DEF Someone, SitsDown, Leaves, Locks, Inputs
  <1>2. at_work' \in [Users -> 0..MaxMemory]
    BY <1>1, AtWorkMoves
  <1>3. /\ seat' \in [Users -> Seats] /\ locked' \in [Users -> BOOLEAN]
        /\ idle' \in [Users -> 0..MaxIdle] /\ reporter' \in BOOLEAN
    <2>1. CASE \E place \in Active : SitsDown(u, place)
      BY <2>1, AgesType DEF SitsDown, ActivityTypeOK, Active, Seats
    <2>2. CASE Leaves(u)
      BY <2>2 DEF Leaves, ActivityTypeOK, Seats
    <2>3. CASE Locks(u)
      BY <2>3 DEF Locks, ActivityTypeOK
    <2>4. CASE Inputs(u)
      BY <2>4, AgesType DEF Inputs, ActivityTypeOK
    <2>5. QED BY <2>1, <2>2, <2>3, <2>4 DEF Someone
  <1>4. QED BY <1>1, <1>2, <1>3 DEF ActivityTypeOK, request

\* A difference of wrapping counters never exceeds the true time.
LEMMA WrapsLow == ASSUME ActivityTypeOK PROVE TicksSinceInput \in Nat /\ TicksSinceInput <= idle[Owner]
  <1>1. idle[Owner] \in Nat /\ TickWidth \in Nat /\ TickWidth > 0
    BY LagType DEF ActivityTypeOK
  <1>2. QED BY <1>1 DEF TicksSinceInput

LEMMA ReportingType ==
    ASSUME ActivityTypeOK, Reporting \/ \E by \in {-1, 1} : ClockStepped(by)
    PROVE  ActivityTypeOK'
  <1>1. UNCHANGED <<people, at_work, request>>
    BY DEF Reporting, ReporterStarts, ReporterDies, ReporterWrites, ClockStepped
  <1>2. reporter' \in BOOLEAN
    BY DEF ActivityTypeOK, Reporting, ReporterStarts, ReporterDies, ReporterWrites, ClockStepped
  <1>3. file' \in File \cup {NoFile}
    <2>1. CASE ReporterWrites
      BY <2>1, WrapsLow, AgesType DEF ReporterWrites, File
    <2>2. CASE \E by \in {-1, 1} : ClockStepped(by)
      BY <2>2 DEF ClockStepped, File, ActivityTypeOK
    <2>3. CASE ReporterStarts \/ ReporterDies
      BY <2>3 DEF ReporterStarts, ReporterDies, ActivityTypeOK
    <2>4. QED BY <2>1, <2>2, <2>3 DEF Reporting
  <1>4. QED BY <1>1, <1>2, <1>3 DEF ActivityTypeOK, people, request

LEMMA HandlingType ==
    ASSUME ActivityTypeOK, Handling
    PROVE  ActivityTypeOK'
  <1>1. UNCHANGED <<people, at_work, reporter, file>>
    BY DEF Handling, EnumerateSessions, EnumerationFails, BuildReport, Reply
  <1>2. handler' \in {"none", "sessions", "ready"} /\ waited' \in 0..MaxQuery
    BY AgesType DEF ActivityTypeOK, Handling, EnumerateSessions, EnumerationFails, BuildReport, Reply
  <1>3. entries' \in [Users -> Entry]
    <2>1. CASE EnumerateSessions
      BY <2>1, AnswersType DEF EnumerateSessions
    <2>2. CASE Reply
      BY <2>2 DEF Reply, NoSession, Entry, Tristate
    <2>3. CASE EnumerationFails \/ BuildReport
      BY <2>3 DEF EnumerationFails, BuildReport, ActivityTypeOK
    <2>4. QED BY <2>1, <2>2, <2>3 DEF Handling
  <1>4. report' \in Report \cup {NoReport}
    <2>1. CASE BuildReport
      <3>1. {Filled(entries[u]) : u \in Users} \subseteq Session
        BY FilledType DEF ActivityTypeOK
      <3>2. QED BY <2>1, <3>1, AgentConstants DEF BuildReport, Report, Tristate
    <2>2. CASE EnumerationFails
      BY <2>2, AgentConstants DEF EnumerationFails, Report, Tristate
    <2>3. CASE EnumerateSessions \/ Reply
      BY <2>3 DEF EnumerateSessions, Reply, ActivityTypeOK
    <2>4. QED BY <2>1, <2>2, <2>3 DEF Handling
  <1>5. QED BY <1>1, <1>2, <1>3, <1>4 DEF ActivityTypeOK, people

LEMMA TimeType ==
    ASSUME ActivityTypeOK, TimeTick
    PROVE  ActivityTypeOK'
  <1>1. at_work' \in [Users -> 0..MaxMemory]
    BY AtWorkMoves DEF TimeTick
  <1>2. idle' \in [Users -> 0..MaxIdle]
    BY LagType DEF ActivityTypeOK, TimeTick
  <1>3. waited' \in 0..MaxQuery
    BY LagType DEF ActivityTypeOK, TimeTick
  <1>4. file' \in File \cup {NoFile}
    BY LagType DEF ActivityTypeOK, TimeTick, File
  <1>5. QED BY <1>1, <1>2, <1>3, <1>4 DEF ActivityTypeOK, TimeTick

LEMMA AgentTypeStep ==
    ASSUME ActivityTypeOK, [ANext]_avars
    PROVE  ActivityTypeOK'
  BY PeopleType, ReportingType, HandlingType, TimeType
  DEF ANext, avars, people, request, ActivityTypeOK

LEMMA AgentTypeInit == AInit => ActivityTypeOK
  <1>1. NoSession \in Entry
    BY DEF NoSession, Entry, Tristate
  <1>2. SUFFICES ASSUME AInit PROVE ActivityTypeOK
    OBVIOUS
  <1>3. /\ seat \in [Users -> Seats] /\ locked \in [Users -> BOOLEAN]
        /\ idle \in [Users -> 0..MaxIdle] /\ at_work \in [Users -> 0..MaxMemory]
    BY <1>2, AgesType DEF AInit, Seats
  <1>4. /\ handler \in {"none", "sessions", "ready"} /\ waited \in 0..MaxQuery
        /\ entries \in [Users -> Entry] /\ file \in File \cup {NoFile}
        /\ reporter \in BOOLEAN /\ report \in Report \cup {NoReport}
    BY <1>1, <1>2, AgesType DEF AInit
  <1>5. QED BY <1>3, <1>4 DEF ActivityTypeOK

(***************************************************************************)
(* Every field keeps its type: file ages, idle times and the handler's     *)
(* locals stay in range, and the report is one the broker can read.        *)
(***************************************************************************)
THEOREM AgentTypeTheorem == ASpec => []ActivityTypeOK
  <1>1. AInit => ActivityTypeOK
    BY AgentTypeInit
  <1>2. ActivityTypeOK /\ [ANext]_avars => ActivityTypeOK'
    BY AgentTypeStep
  <1>3. QED BY <1>1, <1>2, PTL DEF ASpec

-----------------------------------------------------------------------------
(***************************************************************************)
(* The parts of OwnerInv, handler by handler.                              *)
(***************************************************************************)
LEMMA PeopleKeep ==
    ASSUME OwnerInv, NEW u \in Users, Someone(u)
    PROVE  PresenceInv' /\ FileInv' /\ EntryInv' /\ ReportInv'
  <1>1. Remember(0) /\ UNCHANGED <<file, request>>
    BY DEF Someone, SitsDown, Leaves, Locks, Inputs
  <1>2. /\ at_work[Owner] \in Nat /\ at_work'[Owner] \in Nat
        /\ at_work'[Owner] <= at_work[Owner] /\ PresenceInv'
    <2>1. /\ at_work' \in [Users -> 0..MaxMemory] /\ at_work'[Owner] <= at_work[Owner] + 0
          /\ PresenceInv'
      BY <1>1, AtWorkMoves DEF OwnerInv
    <2>2. at_work \in [Users -> 0..MaxMemory]
      BY DEF OwnerInv, ActivityTypeOK
    <2>3. QED BY <2>1, <2>2, LagType
  <1>3. FileInv'
    BY <1>1, <1>2, LagType DEF OwnerInv, FileInv, ActivityTypeOK, File, NoFile
  <1>4. waited \in Nat
    BY LagType DEF OwnerInv, ActivityTypeOK
  <1>5. EntryInv'
    BY <1>1, <1>2, <1>4 DEF OwnerInv, EntryInv, SaysAway, request
  <1>6. ReportInv'
    BY <1>1, <1>2, <1>4, LagType DEF OwnerInv, ReportInv, Allows, request
  <1>7. QED BY <1>2, <1>3, <1>5, <1>6

LEMMA OwnerNumbers ==
    ASSUME OwnerInv
    PROVE  at_work[Owner] \in Nat /\ waited \in Nat /\ idle[Owner] \in Nat
  BY LagType DEF OwnerInv, ActivityTypeOK

\* What the reporter writes as idle was measured of somebody away.
LEMMA ReportingKeeps ==
    ASSUME OwnerInv, Reporting \/ \E by \in {-1, 1} : ClockStepped(by)
    PROVE  PresenceInv' /\ FileInv' /\ EntryInv' /\ ReportInv'
  <1>1. UNCHANGED <<people, at_work, request>>
    BY DEF Reporting, ReporterStarts, ReporterDies, ReporterWrites, ClockStepped
  <1>2. PresenceInv' /\ EntryInv' /\ ReportInv'
    BY <1>1 DEF OwnerInv, PresenceInv, EntryInv, SaysAway, ReportInv, Allows, people, request
  <1>3. FileInv'
    <2>1. CASE ReporterWrites
      <3>1. SUFFICES ASSUME file'.idle >= UserThreshold
                     PROVE  at_work[Owner] <= file'.elapsed
        BY <1>1 DEF FileInv
      <3>2. file'.idle = TicksSinceInput /\ file'.elapsed = 0
        BY <2>1 DEF ReporterWrites
      <3>3. idle[Owner] >= UserThreshold
        BY <3>1, <3>2, WrapsLow, OwnerNumbers, LagType DEF OwnerInv
      <3>4. QED BY <3>2, <3>3, OwnerNumbers DEF OwnerInv, PresenceInv, Away
    <2>2. CASE \E by \in {-1, 1} : ClockStepped(by)
      <3>1. /\ file \in File
            /\ file'.idle = file.idle /\ file'.elapsed = file.elapsed
        BY <2>2 DEF ClockStepped, OwnerInv, ActivityTypeOK, File
      <3>2. QED BY <1>1, <2>2, <3>1 DEF OwnerInv, FileInv, ClockStepped
    <2>3. CASE ReporterStarts \/ ReporterDies
      BY <1>1, <2>3 DEF OwnerInv, FileInv, ReporterStarts, ReporterDies
    <2>4. QED BY <2>1, <2>2, <2>3 DEF Reporting
  <1>4. QED BY <1>2, <1>3

\* What WTS says of a session in which the owner is at work does not say away.
LEMMA AnswersHonest ==
    ASSUME OwnerInv, NEW e \in Answers(Owner), SaysAway(e)
    PROVE  at_work[Owner] = 0
  <1>1. Away(seat[Owner], locked[Owner], idle[Owner])
    <2>1. idle[Owner] \in Nat
      BY OwnerNumbers
    <2>2. CASE seat[Owner] = "out"
      BY <2>2 DEF Away, Active
    <2>3. CASE seat[Owner] # "out"
      BY <2>1, <2>3 DEF Away, Answers, SaysAway, Unknown
    <2>4. QED BY <2>2, <2>3
  <1>2. QED BY <1>1 DEF OwnerInv, PresenceInv

\* A file the handler takes for fresh is younger than the clock can hide.
LEMMA FreshIsYoung ==
    ASSUME OwnerInv, Fresh
    PROVE  /\ file \in File /\ file.elapsed \in Nat
           /\ file.elapsed <= MaxFileAge + MaxSkew /\ file.elapsed < Forgets
  <1>1. /\ file \in File /\ file.elapsed \in Nat
        /\ file.skew \in Int /\ file.skew >= -MaxSkew
    BY LagType DEF Fresh, OwnerInv, ActivityTypeOK, File
  <1>2. QED BY <1>1, LagType DEF Fresh, Forgets

\* A report that allows a shutdown has the owner's entry, or the file, say away.
LEMMA BuildReportHonest ==
    ASSUME OwnerInv, BuildReport, Allows'
    PROVE  at_work[Owner] <= MaxFileAge + MaxSkew + waited
  <1> DEFINE e == entries[Owner]
  <1>1. Filled(e) \in report'.sessions
    BY LagType DEF BuildReport
  <1>2. ~SessionInUse(Filled(e))
    BY <1>1 DEF Allows, ReportAllows
  <1>3. e \in Entry
    BY LagType DEF OwnerInv, ActivityTypeOK
  <1>4. CASE SaysAway(e)
    BY <1>4, OwnerNumbers, LagType DEF OwnerInv, EntryInv, BuildReport
  <1>5. CASE ~SaysAway(e)
    <2>1. ConsoleIdle # Unknown /\ ConsoleIdle >= UserThreshold
      <3>1. ConsoleIdle \in Nat \cup {Unknown}
        BY DEF ConsoleIdle, Fresh, OwnerInv, ActivityTypeOK, File
      <3>2. /\ e.state = "Active" /\ e.locked # "yes" /\ e.idle \in Nat \cup {Unknown}
            /\ ~(e.idle # Unknown /\ e.idle >= UserThreshold)
        BY <1>3, <1>5 DEF SaysAway, Entry
      <3>3. Filled(e).idle # Unknown /\ ~(Filled(e).idle < UserThreshold)
        BY <1>2, <3>2 DEF SessionInUse, Filled
      <3>4. Filled(e).idle = ConsoleIdle \/ Filled(e).idle = e.idle
        BY DEF Filled
      <3>5. QED BY <3>1, <3>2, <3>3, <3>4, LagType DEF Unknown
    <2>2. Fresh /\ file.idle >= UserThreshold
      BY <2>1 DEF ConsoleIdle
    <2>3. at_work[Owner] <= file.elapsed
      BY <2>2, FreshIsYoung DEF OwnerInv, FileInv, Fresh
    <2>4. QED BY <2>2, <2>3, FreshIsYoung, OwnerNumbers, LagType
  <1>6. QED BY <1>4, <1>5

LEMMA HandlingKeeps ==
    ASSUME OwnerInv, Handling
    PROVE  PresenceInv' /\ FileInv' /\ EntryInv' /\ ReportInv'
  <1>1. UNCHANGED <<people, at_work, file>>
    BY DEF Handling, EnumerateSessions, EnumerationFails, BuildReport, Reply
  <1>2. PresenceInv' /\ FileInv'
    BY <1>1 DEF OwnerInv, PresenceInv, FileInv, people
  <1>3. CASE EnumerateSessions
    <2>1. entries'[Owner] \in Answers(Owner)
      BY <1>3, LagType DEF EnumerateSessions
    <2>2. EntryInv'
      BY <1>1, <1>3, <2>1, AnswersHonest DEF EntryInv, EnumerateSessions
    <2>3. ReportInv'
      BY <1>3 DEF EnumerateSessions, ReportInv, Allows
    <2>4. QED BY <1>2, <2>2, <2>3
  <1>4. CASE BuildReport
    <2>1. EntryInv'
      BY <1>4 DEF BuildReport, EntryInv
    <2>2. ReportInv'
      BY <1>1, <1>4, BuildReportHonest DEF ReportInv, BuildReport
    <2>3. QED BY <1>2, <2>1, <2>2
  <1>5. CASE EnumerationFails
    <2>1. ~Allows'
      BY <1>5 DEF EnumerationFails, Allows, ReportAllows
    <2>2. EntryInv'
      BY <1>5 DEF EnumerationFails, EntryInv
    <2>3. QED BY <1>2, <2>1, <2>2 DEF ReportInv
  <1>6. CASE Reply
    BY <1>2, <1>6 DEF Reply, EntryInv, ReportInv, Allows
  <1>7. QED BY <1>3, <1>4, <1>5, <1>6 DEF Handling

\* A tick ages the file and the request as much as it adds to the work done.
LEMMA TimeKeeps ==
    ASSUME OwnerInv, TimeTick
    PROVE  PresenceInv' /\ FileInv' /\ EntryInv' /\ ReportInv'
  <1>1. /\ at_work'[Owner] \in Nat /\ at_work'[Owner] <= at_work[Owner] + 1
        /\ PresenceInv'
    <2>1. Remember(1)
      BY DEF TimeTick
    <2>2. QED BY <2>1, AtWorkMoves, LagType DEF OwnerInv
  <1>2. FileInv'
    <2>1. SUFFICES ASSUME file' # NoFile, file'.elapsed < Forgets,
                          file'.idle >= UserThreshold
                   PROVE  at_work'[Owner] <= file'.elapsed
      BY DEF FileInv
    <2>2. file \in File /\ file # NoFile
      BY <2>1 DEF TimeTick, OwnerInv, ActivityTypeOK
    <2>3. /\ file.elapsed < Forgets /\ file'.elapsed = file.elapsed + 1
          /\ file'.idle = file.idle /\ file.elapsed \in Nat
      BY <2>1, <2>2, LagType DEF TimeTick, File
    <2>4. QED BY <1>1, <2>1, <2>2, <2>3, OwnerNumbers DEF OwnerInv, FileInv
  <1>3. CASE handler = "none"
    BY <1>1, <1>2, <1>3 DEF TimeTick, EntryInv, ReportInv, Allows
  <1>4. CASE handler # "none"
    <2>1. waited' = waited + 1 /\ UNCHANGED <<handler, entries, report>>
      BY <1>4 DEF TimeTick
    <2>2. EntryInv'
      BY <1>1, <2>1, OwnerNumbers DEF OwnerInv, EntryInv, SaysAway
    <2>3. ReportInv'
      BY <1>1, <2>1, OwnerNumbers, LagType DEF OwnerInv, ReportInv, Allows
    <2>4. QED BY <1>1, <1>2, <2>2, <2>3
  <1>5. QED BY <1>3, <1>4

LEMMA OwnerInvariant == ASpec => []OwnerInv
  <1>1. AInit => OwnerInv
    <2>1. SUFFICES ASSUME AInit PROVE PresenceInv /\ FileInv /\ EntryInv /\ ReportInv
      BY AgentTypeInit DEF OwnerInv
    <2>2. PresenceInv /\ FileInv
      BY <2>1, LagType DEF AInit, PresenceInv, FileInv
    <2>3. EntryInv /\ ReportInv
      BY <2>1 DEF AInit, EntryInv, ReportInv, Allows
    <2>4. QED BY <2>2, <2>3
  <1>2. OwnerInv /\ [ANext]_avars => OwnerInv'
    <2>1. SUFFICES ASSUME OwnerInv, [ANext]_avars
                   PROVE  PresenceInv' /\ FileInv' /\ EntryInv' /\ ReportInv'
      BY AgentTypeStep DEF OwnerInv
    <2>2. CASE UNCHANGED avars
      BY <2>1, <2>2 DEF OwnerInv, PresenceInv, FileInv, EntryInv, SaysAway, ReportInv,
         Allows, avars, people, request
    <2>3. CASE ANext
      BY <2>1, <2>3, PeopleKeep, ReportingKeeps, HandlingKeeps, TimeKeeps DEF ANext
    <2>4. QED BY <2>1, <2>2, <2>3
  <1>3. QED BY <1>1, <1>2, PTL DEF ASpec

(***************************************************************************)
(* A report that lets the broker shut the PC down overlooks its owner at   *)
(* work only if they came back within the age of the file, the clock's     *)
(* step and the time of the request: for every UserThreshold, every width  *)
(* of the tick counter and any other users.                                *)
(***************************************************************************)
THEOREM OwnerTheorem == ASpec => []OwnerNotOverlooked
  <1>1. OwnerInv => OwnerNotOverlooked
    BY OwnerNumbers, LagType DEF OwnerInv, ActivityTypeOK, ReportInv, OwnerNotOverlooked, Lag
  <1>2. QED BY <1>1, OwnerInvariant, PTL
=============================================================================
