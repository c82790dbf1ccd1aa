------------------------------ MODULE ChatProxy -----------------------------
(***************************************************************************)
(* The chat and models routes of app/routers/llm.py over the broker: each  *)
(* request is a coroutine that may be suspended at the body, at the first  *)
(* chunk and between chunks, while the poll loop, the operator and the PC  *)
(* go on.  ChatProxy implements Broker: what its handlers do to the shared *)
(* state is what ProxyChats and ProxyLists allow.                          *)
(***************************************************************************)
EXTENDS Broker, FiniteSets

CONSTANT Chats      \* chat requests that may be in flight

ASSUME ChatsFitBound ==
    IsFiniteSet(Chats) /\ Chats # {} /\ MaxStreams = Cardinality(Chats)

VARIABLES
    chat,       \* where each chat request is
    gone,       \* chats whose client disconnected before the first chunk
    silent,     \* chats whose upstream connection died without a word
    listing     \* the GET /api/llm/models in flight.  Bound: one at a time

proxyVars == <<chat, gone, silent, listing>>
pvars     == <<vars, proxyVars>>

(***************************************************************************)
(* none    no request               body    awaiting request.body()        *)
(* first   awaiting anext(stream)   whole   awaiting the single JSON body  *)
(* open    streaming the response                                          *)
(* orphan  response cancelled at a yield, generator not yet finalized      *)
(***************************************************************************)
Stages  == {"none", "body", "first", "whole", "open", "orphan"}
Counted == {"first", "whole", "open", "orphan"}

InFlight == {c \in Chats : chat[c] \in Counted}

ProxyTypeOK ==
    /\ chat \in [Chats -> Stages]
    /\ gone \subseteq Chats /\ silent \subseteq Chats
    /\ listing \in {"none", "asked", "empty", "some"}

PInit == Init /\ chat = [c \in Chats |-> "none"] /\ gone = {} /\ silent = {}
              /\ listing = "none"

-----------------------------------------------------------------------------
Goes(c, stage) == chat' = [chat EXCEPT ![c] = stage]

\* Defect for the proxy run: the activity is not noted.
CountsOnly(n) ==
    /\ active_llm_streams' = active_llm_streams + n
    /\ UNCHANGED <<status, models, idleVars, age, loopVars, call, pcVars>>
\* active_llm_streams moves by n and note_llm_activity is called.
Counts(n) ==
    /\ active_llm_streams' = active_llm_streams + n
    /\ age' = [age EXCEPT !["llm"] = 0]
    /\ UNCHANGED <<status, models, idleVars, loopVars, call, pcVars>>

\* A generator or handler unwinds through its finally.
Ends(c) == /\ Goes(c, "none") /\ Counts(-1)
           /\ gone' = gone \ {c} /\ silent' = silent \ {c} /\ UNCHANGED listing

\* llm_chat: no await between the check and the count.
ChatRequest(c) ==
    /\ chat[c] = "none" /\ state = "ready"
    /\ Goes(c, "first") /\ Counts(1)
    /\ UNCHANGED <<gone, silent, listing>>

\* ollama_chat_alias: the check, then the body is awaited.
AliasRequest(c) ==
    /\ chat[c] = "none" /\ state = "ready"
    /\ Goes(c, "body")
    /\ UNCHANGED <<vars, gone, silent, listing>>

\* A valid body, with stream true or false, whatever the state is by now.
AliasBody(c) ==
    /\ chat[c] = "body"
    /\ Goes(c, "first") \/ Goes(c, "whole")
    /\ Counts(1)
    /\ UNCHANGED <<gone, silent, listing>>

\* 422, or the client left.
AliasRejected(c) ==
    /\ chat[c] = "body"
    /\ Goes(c, "none")
    /\ UNCHANGED <<vars, gone, silent, listing>>

UpstreamTalks(c) == c \notin silent /\ OllamaAnswers

\* The first chunk opens the response, which a client that left cancels.
FirstChunk(c) ==
    /\ chat[c] = "first" /\ UpstreamTalks(c)
    /\ Goes(c, IF c \in gone THEN "orphan" ELSE "open")
    /\ Counts(0)
    /\ UNCHANGED <<gone, silent, listing>>

\* Defect for the proxy run: an error before the first chunk is not counted out.
FailsUncounted(c) ==
    /\ chat[c] = "first" /\ c \notin silent /\ Goes(c, "none")
    /\ gone' = gone \ {c} /\ UNCHANGED <<vars, silent, listing>>
\* 502, 503 or an empty answer.
FirstFails(c) == chat[c] = "first" /\ c \notin silent /\ Ends(c)

Chunk(c) ==
    /\ chat[c] = "open" /\ UpstreamTalks(c)
    /\ Counts(0)
    /\ UNCHANGED proxyVars

\* The last chunk, or a read error that truncates the response.
StreamEnd(c) == chat[c] = "open" /\ c \notin silent /\ Ends(c)

\* stream:false, answered or failed.
WholeDone(c) == chat[c] = "whole" /\ c \notin silent /\ Ends(c)

(***************************************************************************)
(* The client disconnects.  A handler that awaits the first chunk is not   *)
(* told.  An open response is cancelled: in the await of the next chunk,   *)
(* which unwinds the generator, or at a yield, which leaves it to the      *)
(* event loop's finalizer of asynchronous generators.                      *)
(***************************************************************************)
ClientGone(c) ==
    \/ /\ chat[c] \in {"first", "whole"} /\ c \notin gone
       /\ gone' = gone \cup {c}
       /\ UNCHANGED <<vars, chat, silent, listing>>
    \/ chat[c] = "open" /\ Ends(c)
    \/ /\ chat[c] = "open" /\ c \notin silent
       /\ Goes(c, "orphan")
       /\ UNCHANGED <<vars, gone, silent, listing>>

Finalized(c) == chat[c] = "orphan" /\ Ends(c)

-----------------------------------------------------------------------------
\* llm_models: the check, the call, and the assignment once it has answered.
ModelsRequest ==
    /\ listing = "none" /\ state = "ready"
    /\ listing' = "asked"
    /\ UNCHANGED <<vars, chat, gone, silent>>

ModelsReply ==
    /\ listing = "asked"
    /\ listing' \in {"none"} \cup {l \in {"empty", "some"} : OllamaAnswers}
    /\ UNCHANGED <<vars, chat, gone, silent>>

ModelsStored ==
    /\ listing \in {"empty", "some"}
    /\ models' = listing /\ listing' = "none"
    /\ UNCHANGED <<status, active_llm_streams, idleVars, age, loopVars, call, pcVars,
                   chat, gone, silent>>

-----------------------------------------------------------------------------
\* A PC that stops closes its connections; one that loses power closes none,
\* and httpx waits with read=None.
ProxyPowerLoss ==
    /\ PowerLoss
    /\ silent' \in SUBSET InFlight /\ silent \subseteq silent'
    /\ UNCHANGED <<chat, gone, listing>>

ProxyRestart ==
    /\ Restart
    /\ chat' = [c \in Chats |-> "none"] /\ gone' = {} /\ silent' = {} /\ listing' = "none"

LoopStep   == PollStep /\ UNCHANGED proxyVars
TimePasses == Tick /\ UNCHANGED proxyVars
Elsewhere  == /\ Operator \/ Pc \/ \E c \in Callers : AgentAccepts(c)
              /\ UNCHANGED proxyVars

Begins(c)   == ChatRequest(c) \/ AliasRequest(c) \/ AliasBody(c) \/ AliasRejected(c)
Progress(c) == FirstChunk(c) \/ FirstFails(c) \/ StreamEnd(c) \/ WholeDone(c) \/ Finalized(c)

PNext ==
    \/ LoopStep \/ TimePasses \/ Elsewhere
    \/ \E c \in Chats : Begins(c) \/ Progress(c) \/ Chunk(c) \/ ClientGone(c)
    \/ ModelsRequest \/ ModelsReply \/ ModelsStored
    \/ ProxyPowerLoss \/ ProxyRestart

PSpec == PInit /\ [][PNext]_pvars

\* Ollama answers or fails in the end, unless its connection is silent.
PFairSpec ==
    /\ PSpec
    /\ WF_pvars(LoopStep) /\ WF_pvars(TimePasses)
    /\ \A c \in Chats : WF_pvars(Progress(c))

-----------------------------------------------------------------------------
(***************************************************************************)
(* active_llm_streams is the number of chats in flight on every path out   *)
(* of a handler: an error before the first chunk, the end of the stream, a *)
(* client that leaves, a generator finalized late, a restart.              *)
(***************************************************************************)
StreamCount == active_llm_streams = Cardinality(InFlight)

(***************************************************************************)
(* The routes do to the broker only what Broker.tla expects of them, so    *)
(* everything proved of Broker holds with them.                            *)
(***************************************************************************)
ImplementsBroker == SafeSpec

\* Nobody uses the PC: no client is connected to the chat routes, and the
\* agent reports an idle user.
Unused ==
    /\ power = "up" /\ state = "ready" /\ ~keep_awake
    /\ \A c \in Chats : chat[c] # "none" => c \in gone /\ chat[c] # "orphan"
    /\ age["wake"] # 0 /\ age["llm"] # 0
    /\ activity_report # NoReport /\ ReportAllows(activity_report)

(***************************************************************************)
(* "Powers the PC off after sustained inactivity" (README): a PC unused    *)
(* from some time on is asked to shut down.                                *)
(***************************************************************************)
UnusedPcPowersOff ==
    <>[]Unused => []<>(loop = "shutdown") \/ []<><<RowBroken>>_pvars
=============================================================================
