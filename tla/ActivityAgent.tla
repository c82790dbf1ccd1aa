---------------------------- MODULE ActivityAgent ---------------------------
(***************************************************************************)
(* GET /activity of agent/agent.py: what the SYSTEM agent reports of the   *)
(* people at the PC.  Windows (WTS) tells it the sessions and their locks, *)
(* but the idle time of remote ones only; the console's comes from a file  *)
(* that a reporter process in the session of one user, the one named at    *)
(* installation, writes at intervals.                                      *)
(*                                                                         *)
(* A tick is the unit of UserThreshold.  The GPU reading is any value: its *)
(* cache is not modelled here.                                             *)
(***************************************************************************)
EXTENDS IdlePolicy

CONSTANTS
    Users,          \* the people with an account
    Owner,          \* install.ps1's ReporterUser
    GpuReadings,    \* what _gpu_util_percent may return
    MaxFileAge,     \* IDLE_FILE_MAX_AGE
    TickWidth,      \* GetTickCount counts modulo this (2^32 ms)
    MaxQuery,       \* bound: ticks a GET /activity takes (nvidia-smi: 5 s)
    MaxSkew,        \* bound: ticks the wall clock is stepped while a file is young
    MaxIdle,        \* bound: idle times stop growing here
    MaxMemory       \* bound: times at work stop growing here

ASSUME AgentConstants ==
    /\ Owner \in Users
    /\ GpuReadings \subseteq Nat \cup {Unknown}
    /\ {MaxFileAge, MaxQuery, MaxSkew} \subseteq Nat
    /\ TickWidth \in Nat \ {0}
    /\ MaxIdle \in Nat /\ MaxIdle >= UserThreshold
    /\ MaxMemory \in Nat

VARIABLES
    seat,       \* where each user's session is
    locked,     \* whether it is locked
    idle,       \* ticks since the user's last input
    at_work,    \* ticks since the user was last away, up to MaxMemory
    reporter,   \* the reporter process of Owner's session runs
    file,       \* the last file the reporter has put in place
    handler,    \* where the request is.  Bound: one at a time
    waited,     \* ticks it has taken
    entries,    \* local of the handler: what WTS said of each user's session
    report      \* what the handler is about to send

people  == <<seat, locked, idle>>
request == <<handler, waited, entries, report>>
avars   == <<people, at_work, reporter, file, request>>

(***************************************************************************)
(* console  Active, at the station Console     remote  Active, through RDP *)
(* away     disconnected, programs running     out     logged off          *)
(***************************************************************************)
Seats  == {"console", "remote", "away", "out"}
Active == {"console", "remote"}

\* How late the report may be about someone who has just come back.
Lag     == MaxFileAge + MaxSkew + MaxQuery
ASSUME MemoryOutlastsLag == MaxMemory > Lag

\* A file this old is stale on any clock.
Forgets == MaxFileAge + MaxSkew + 1

NoFile == [elapsed |-> Never, skew |-> 0, idle |-> Unknown]
\* Ticks since the payload was measured, how far the wall clock was stepped
\* since, and its idle_seconds.
File   == [elapsed : 0..Forgets, skew : -MaxSkew..MaxSkew, idle : Nat]

NoSession == [station |-> "none", state |-> "Disconnected", locked |-> "unknown",
              idle |-> Unknown]
Entry     == [station : {"Console", "RDP", "none"}, state : {"Active", "Disconnected"},
              locked : Tristate, idle : Nat \cup {Unknown}]

ActivityTypeOK ==
    /\ seat \in [Users -> Seats]
    /\ locked \in [Users -> BOOLEAN]
    /\ idle \in [Users -> 0..MaxIdle]
    /\ at_work \in [Users -> 0..MaxMemory]
    /\ reporter \in BOOLEAN
    /\ file \in File \cup {NoFile}
    /\ handler \in {"none", "sessions", "ready"} /\ waited \in 0..MaxQuery
    /\ entries \in [Users -> Entry]
    /\ report \in Report \cup {NoReport}

AInit ==
    /\ seat = [u \in Users |-> "out"] /\ locked = [u \in Users |-> FALSE]
    /\ idle = [u \in Users |-> MaxIdle] /\ at_work = [u \in Users |-> 0]
    /\ reporter = FALSE /\ file = NoFile
    /\ handler = "none" /\ waited = 0
    /\ entries = [u \in Users |-> NoSession] /\ report = NoReport

-----------------------------------------------------------------------------
\* Nobody is at work in a session: what the broker may take for idle.
Away(place, lock, ticks) == place \notin Active \/ lock \/ ticks >= UserThreshold

\* at_work after a step that takes the given number of ticks.
Remember(ticks) ==
    at_work' = [u \in Users |-> IF Away(seat'[u], locked'[u], idle'[u]) THEN 0
                                ELSE IF at_work[u] < MaxMemory THEN at_work[u] + ticks
                                ELSE MaxMemory]

(***************************************************************************)
(* The people, and Windows.  Whoever takes the console disconnects its     *)
(* present user.  Logging on, coming back and unlocking are input.         *)
(***************************************************************************)
SitsDown(u, place) ==
    /\ seat' = [v \in Users |-> IF v = u THEN place
                                ELSE IF place = "console" /\ seat[v] = place THEN "away"
                                ELSE seat[v]]
    /\ locked' = [locked EXCEPT ![u] = FALSE]
    /\ idle' = [idle EXCEPT ![u] = 0]
    /\ Remember(0)
    /\ UNCHANGED <<reporter, file, request>>

\* Disconnects or logs off; the reporter ends with the session.
Leaves(u) ==
    /\ seat[u] # "out"
    /\ \E place \in {"away", "out"} :
         /\ seat' = [seat EXCEPT ![u] = place]
         /\ reporter' = (reporter /\ ~(u = Owner /\ place = "out"))
    /\ UNCHANGED <<locked, idle, file, request>>
    /\ Remember(0)

Locks(u) ==
    /\ seat[u] \in Active
    /\ locked' = [locked EXCEPT ![u] = TRUE]
    /\ UNCHANGED <<seat, idle, reporter, file, request>>
    /\ Remember(0)

Inputs(u) ==
    /\ seat[u] \in Active /\ ~locked[u]
    /\ idle' = [idle EXCEPT ![u] = 0]
    /\ UNCHANGED <<seat, locked, reporter, file, request>>
    /\ Remember(0)

-----------------------------------------------------------------------------
\* The scheduled task starts the reporter at logon; it may also be killed.
ReporterStarts == /\ seat[Owner] # "out" /\ reporter' = TRUE
                  /\ UNCHANGED <<people, at_work, file, request>>
ReporterDies   == /\ reporter' = FALSE
                  /\ UNCHANGED <<people, at_work, file, request>>

\* GetLastInputInfo in the reporter's session: a difference of two counters
\* that wrap.
TicksSinceInput == idle[Owner] % TickWidth

\* One round of _run_idle_reporter that succeeds; os.replace puts the whole
\* file in place at once.  A round that fails changes nothing.
ReporterWrites ==
    /\ reporter
    /\ file' = [elapsed |-> 0, skew |-> 0, idle |-> TicksSinceInput]
    /\ UNCHANGED <<people, at_work, reporter, request>>

\* The wall clock is set.
ClockStepped(by) ==
    /\ file # NoFile /\ file.skew + by \in -MaxSkew..MaxSkew
    /\ file' = [file EXCEPT !.skew = @ + by]
    /\ UNCHANGED <<people, at_work, reporter, request>>

-----------------------------------------------------------------------------
\* Defect for the idle_shutdown run: a file of any age is fresh.
FreshAtAnyAge == file # NoFile /\ file.elapsed + file.skew >= 0
Fresh == /\ file # NoFile
         /\ file.elapsed + file.skew >= 0
         /\ file.elapsed + file.skew <= MaxFileAge

\* _console_idle_from_file.
ConsoleIdle == IF Fresh THEN file.idle ELSE Unknown

(***************************************************************************)
(* _wts_sessions for one session.  The query may fail and leave everything *)
(* null; SessionFlags may be unknown and then read as not locked;          *)
(* LastInputTime is 0 at the console, and may be elsewhere.                *)
(***************************************************************************)
Answers(u) ==
    LET entry(locks, idles) ==
            [station : {CASE seat[u] = "console" -> "Console"
                          [] seat[u] = "remote" -> "RDP"
                          [] OTHER -> "none"},
             state   : {IF seat[u] \in Active THEN "Active" ELSE "Disconnected"},
             locked  : locks, idle : idles]
    IN  IF seat[u] = "out" THEN {NoSession}
        ELSE entry({"unknown"}, {Unknown})
             \cup entry({"no"} \cup {l \in {"yes"} : locked[u]},
                        {Unknown} \cup {i \in {idle[u]} : seat[u] # "console"})

\* The first half of _collect_activity.
EnumerateSessions ==
    /\ handler = "none"
    /\ entries' \in {e \in [Users -> UNION {Answers(u) : u \in Users}] :
                        \A u \in Users : e[u] \in Answers(u)}
    /\ handler' = "sessions" /\ waited' = 0
    /\ UNCHANGED <<people, at_work, reporter, file, report>>

EnumerationFails ==
    /\ handler = "none"
    /\ report' \in [ok : {FALSE}, any_session_active : {"unknown"}, sessions : {{}},
                    gpu : GpuReadings]
    /\ handler' = "ready" /\ waited' = 0
    /\ UNCHANGED <<people, at_work, reporter, file, entries>>

\* The console's idle time is filled in from the file, whoever sits there.
Filled(entry) ==
    [state |-> entry.state, locked |-> entry.locked,
     idle |-> IF entry.station = "Console" /\ entry.idle = Unknown THEN ConsoleIdle
              ELSE entry.idle]

BuildReport ==
    /\ handler = "sessions"
    /\ LET sessions == {Filled(entries[u]) : u \in Users}
       IN report' \in [ok : {TRUE},
                       any_session_active :
                           {IF \E s \in sessions : s.state = "Active" THEN "yes" ELSE "no"},
                       sessions : {sessions}, gpu : GpuReadings]
    /\ handler' = "ready"
    /\ UNCHANGED <<people, at_work, reporter, file, waited, entries>>

Reply ==
    /\ handler = "ready"
    /\ handler' = "none" /\ waited' = 0
    /\ entries' = [u \in Users |-> NoSession] /\ report' = NoReport
    /\ UNCHANGED <<people, at_work, reporter, file>>

-----------------------------------------------------------------------------
TimeTick ==
    /\ handler # "none" => waited < MaxQuery
    /\ waited' = IF handler = "none" THEN 0 ELSE waited + 1
    /\ idle' = [u \in Users |-> IF idle[u] < MaxIdle THEN idle[u] + 1 ELSE MaxIdle]
    /\ file' = IF file # NoFile /\ file.elapsed < Forgets
               THEN [file EXCEPT !.elapsed = @ + 1] ELSE file
    /\ UNCHANGED <<seat, locked, reporter, handler, entries, report>>
    /\ Remember(1)

Someone(u) == (\E place \in Active : SitsDown(u, place)) \/ Leaves(u) \/ Locks(u) \/ Inputs(u)
Reporting  == ReporterStarts \/ ReporterDies \/ ReporterWrites
Handling   == EnumerateSessions \/ EnumerationFails \/ BuildReport \/ Reply

ANext ==
    \/ \E u \in Users : Someone(u)
    \/ Reporting
    \/ \E by \in {-1, 1} : ClockStepped(by)
    \/ Handling
    \/ TimeTick

ASpec == AInit /\ [][ANext]_avars

-----------------------------------------------------------------------------
Allows == handler = "ready" /\ ReportAllows(report)

(***************************************************************************)
(* A report that lets the broker shut the PC down overlooks its owner at   *)
(* work only if they came back within the last Lag: the age of the file    *)
(* plus the time the request took and what the clock was set back.         *)
(***************************************************************************)
OwnerNotOverlooked == Allows => at_work[Owner] <= Lag

(***************************************************************************)
(* "Anything unknown reads as user is active so the broker never shuts     *)
(* down on ambiguous data" (agent/README.md): the same of everyone, of     *)
(* whose idle time the agent knows nothing when they sit at the console.   *)
(***************************************************************************)
NobodyOverlooked == Allows => \A u \in Users : at_work[u] <= Lag
=============================================================================
