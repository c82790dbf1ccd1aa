---------------------------- MODULE IdleShutdown ----------------------------
(***************************************************************************)
(* The idle auto-shutdown from end to end: ActivityAgent, which reports of *)
(* the people at the PC, and IdleWatch, which is the broker as the agent   *)
(* sees it, with the network between them.  Both run on one clock, in any  *)
(* unit.  The broker is the only client of GET /activity.                  *)
(***************************************************************************)
EXTENDS ActivityAgent, IdleWatch

VARIABLE
    query   \* the GET /activity being awaited: none, sent, served by the
            \* handler, or an answer on its way (busy, allows)

svars == <<avars, watchVars, query>>

Queries == {"none", "sent", "served", "busy", "allows"}

\* How long the owner can have been at work when the PC is shut down on them.
Reach == MaxFileAge + MaxSkew + 2 * MaxAwait
ASSUME MemoryOutlastsReach == MaxMemory > Reach

SInit == AInit /\ WatchInit /\ query = "none"

-----------------------------------------------------------------------------
\* The people, the reporter and the clock, whatever is being asked.
Around ==
    /\ (\E u \in Users : Someone(u)) \/ Reporting \/ \E by \in {-1, 1} : ClockStepped(by)
    /\ UNCHANGED <<watchVars, query>>

SendQuery == Asks /\ query' = "sent" /\ UNCHANGED avars

\* The agent serves a request, unless it is lost on the way.
Serve ==
    /\ query = "sent" /\ (EnumerateSessions \/ EnumerationFails)
    /\ query' = "served" /\ UNCHANGED watchVars

Continue == BuildReport /\ UNCHANGED <<watchVars, query>>

\* The handler of a request that was given up on replies to nobody; a reply
\* may be lost.
Answer ==
    /\ Reply
    /\ query' \in {query} \cup {IF ReportAllows(report) THEN "allows" ELSE "busy" :
                                  q \in {"served"} \cap {query}}
    /\ UNCHANGED watchVars

\* Defect for the idle_shutdown run: no answer passes for an idle PC.
NoAnswerAllows ==
    /\ query # "none" /\ query' = "none" /\ UNCHANGED avars
    /\ Commands \/ Disregards
\* The broker receives the answer and commands, or has other reasons not to.
Receive ==
    /\ query \in {"busy", "allows"} /\ query' = "none" /\ UNCHANGED avars
    /\ \/ query = "allows" /\ Commands
       \/ Disregards /\ allowed' = (query = "allows")

\* The call fails or times out.
GiveUpQuery ==
    /\ query # "none" /\ query' = "none" /\ UNCHANGED avars
    /\ Disregards /\ allowed' = FALSE

\* POST /shutdown is answered and run, and is over for the broker.
RunCommand  == Accepted /\ UNCHANGED <<avars, query>>
EndCommand  == Returns /\ UNCHANGED <<avars, query>>
BrokerDies  == Dies /\ query' = "none" /\ UNCHANGED avars

OneTick ==
    /\ TimeTick /\ UNCHANGED query
    /\ IF watch = "none" THEN UNCHANGED watchVars ELSE WatchTick

SNext ==
    \/ Around
    \/ SendQuery \/ Serve \/ Continue \/ Answer \/ Receive \/ GiveUpQuery
    \/ RunCommand \/ EndCommand \/ BrokerDies
    \/ OneTick

SSpec == SInit /\ [][SNext]_svars

-----------------------------------------------------------------------------
(***************************************************************************)
(* The idle shutdown never cuts off an owner who has been at work for      *)
(* longer than the age of the file, what the clock was set back and the    *)
(* two calls of the broker: whatever answers are late or lost, whatever    *)
(* the reporter is doing, and however long the row of verdicts was.        *)
(***************************************************************************)
OwnerNotCutOff == command # "none" => at_work[Owner] <= Reach
=============================================================================
