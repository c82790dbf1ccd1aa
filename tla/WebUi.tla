------------------------------- MODULE WebUi --------------------------------
(***************************************************************************)
(* The page of app/static/js/app.js: one JavaScript event loop on which    *)
(* status refreshes, the keep-awake toggle and a chat take turns at their  *)
(* awaits, all of them writing the same controls.  The broker behind it    *)
(* may move at any time, and answers any request in any order, or never.   *)
(***************************************************************************)
EXTENDS Integers, Sequences

CONSTANTS
    States,     \* the states the broker may report
    Models,     \* the models Ollama may have
    Fetches,    \* bound: calls of refreshStatus in flight; one too many is lost
    MaxTurns,   \* bound: prompts in the history
    Null        \* JavaScript's null

ASSUME UiConstants ==
    /\ States \subseteq {"offline", "waking", "host_up", "ollama_starting", "ready",
                         "timeout", "error"}
    /\ States # {} /\ Null \notin States \cup {"ready", "armed", "aborted"}
    /\ MaxTurns \in Nat

VARIABLES
    \* the broker
    state, keep_awake, models,
    \* the page
    currentState, modelsLoaded,
    shown,          \* the state updateChatUI last rendered
    offered,        \* the options of the model list
    checked,        \* the keep-awake box, Null while it is hidden
    input_disabled, stop_shown,
    refresh,        \* the calls of refreshStatus
    posting,        \* the POST of toggleKeepAwake.  Bound: one at a time
    \* sendChat
    chatHistory, currentAbort,
    chat,           \* the await it is at
    heard           \* its locals: assistantText, else sawDone, else nothing

broker   == <<state, keep_awake, models>>
status   == <<currentState, modelsLoaded, offered, checked>>
controls == <<shown, input_disabled, stop_shown>>
sending  == <<chatHistory, currentAbort, chat, heard>>
uvars    == <<broker, status, controls, refresh, posting, sending>>

(***************************************************************************)
(* idle      not running             asked   awaiting /api/status          *)
(* answered  about to resume         models  awaiting /api/llm/models      *)
(* listed    about to resume with the list                                 *)
(***************************************************************************)
Refresh == [at : {"idle", "asked", "answered", "models", "listed"},
            state : States \cup {Null}, pin : BOOLEAN, list : SUBSET Models]
NoRefresh == [at |-> "idle", state |-> Null, pin |-> FALSE, list |-> {}]

UiTypeOK ==
    /\ state \in States /\ keep_awake \in BOOLEAN /\ models \in SUBSET Models
    /\ currentState \in States \cup {Null} /\ shown \in States \cup {Null}
    /\ modelsLoaded \in BOOLEAN /\ input_disabled \in BOOLEAN /\ stop_shown \in BOOLEAN
    /\ offered \in SUBSET Models /\ checked \in BOOLEAN \cup {Null}
    /\ refresh \in [Fetches -> Refresh]
    /\ posting \in {"none", "on", "off", "answered"}
    /\ chatHistory \in Seq({"user", "assistant"})
    /\ currentAbort \in {Null, "armed", "aborted"}
    /\ chat \in {"none", "fetch", "refused", "read"}
    /\ heard \in {"nothing", "done", "text"}

\* A page just loaded (index.html): controls disabled, nothing known.
Loaded ==
    /\ currentState = Null /\ modelsLoaded = FALSE /\ shown = Null
    /\ offered = {} /\ checked = Null
    /\ input_disabled = TRUE /\ stop_shown = FALSE
    /\ refresh = [r \in Fetches |-> NoRefresh] /\ posting = "none"
    /\ chatHistory = <<>> /\ currentAbort = Null
    /\ chat = "none" /\ heard = "nothing"

UInit == state \in States /\ keep_awake \in BOOLEAN /\ models \in SUBSET Models /\ Loaded

-----------------------------------------------------------------------------
(***************************************************************************)
(* The broker, the user and the network.                                   *)
(***************************************************************************)
BrokerMoves ==
    /\ \/ state' \in States /\ UNCHANGED <<keep_awake, models>>
       \/ models' \in SUBSET Models /\ UNCHANGED <<state, keep_awake>>
       \/ keep_awake' \in BOOLEAN /\ UNCHANGED <<state, models>>
    /\ UNCHANGED <<status, controls, refresh, posting, sending>>

Reload ==
    /\ currentState' = Null /\ modelsLoaded' = FALSE /\ shown' = Null
    /\ offered' = {} /\ checked' = Null
    /\ input_disabled' = TRUE /\ stop_shown' = FALSE
    /\ refresh' = [r \in Fetches |-> NoRefresh] /\ posting' = "none"
    /\ chatHistory' = <<>> /\ currentAbort' = Null
    /\ chat' = "none" /\ heard' = "nothing"
    /\ UNCHANGED broker

-----------------------------------------------------------------------------
\* refreshStatus up to its first await.
BeginRefresh ==
    \/ \E r \in Fetches : /\ refresh[r].at = "idle"
                          /\ refresh' = [refresh EXCEPT ![r].at = "asked"]
    \/ /\ \A r \in Fetches : refresh[r].at # "idle"
       /\ UNCHANGED refresh

Transitional == currentState \in {"waking", "ollama_starting", "host_up"}

\* The two intervals, of which one does nothing at each moment.
FastPoll == Transitional /\ BeginRefresh /\ UNCHANGED <<broker, status, controls, posting, sending>>
SlowPoll == ~Transitional /\ BeginRefresh /\ UNCHANGED <<broker, status, controls, posting, sending>>

\* The refresh button, and powerAction("on") when its POST has succeeded.
OperatorRefreshes == BeginRefresh /\ UNCHANGED <<broker, status, controls, posting, sending>>

\* GET /api/status is served.
StatusAnswered(r) ==
    /\ refresh[r].at = "asked"
    /\ refresh' = [refresh EXCEPT ![r] = [at |-> "answered", state |-> state,
                                          pin |-> keep_awake, list |-> {}]]
    /\ UNCHANGED <<broker, status, controls, posting, sending>>

\* Defect for the web_ui run: the box is rendered once, and then left to the user.
PinOnce(r)  == IF checked = Null THEN refresh[r].pin ELSE checked
\* updateIdleUI, with idle shutdown enabled (else there is no box).
PinShown(r) == refresh[r].pin

\* updateChatUI.
UpdateChatUI(s) == shown' = s /\ input_disabled' = (s # "ready")

\* Lines 82-101: the answer is rendered; the list is asked for if it is missing.
StatusApplied(r) ==
    /\ refresh[r].at = "answered"
    /\ LET data == refresh[r]
           loads == data.state = "ready" /\ ~modelsLoaded
       IN  /\ currentState' = data.state
           /\ IF data.state # currentState THEN UpdateChatUI(data.state)
              ELSE UNCHANGED <<shown, input_disabled>>
           /\ refresh' = [refresh EXCEPT ![r] =
                  IF loads THEN [data EXCEPT !.at = "models", !.state = Null] ELSE NoRefresh]
           /\ checked' = IF loads THEN checked ELSE PinShown(r)
    /\ UNCHANGED <<broker, modelsLoaded, offered, stop_shown, posting, sending>>

\* GET /api/llm/models is served.
ModelsAnswered(r) ==
    /\ refresh[r].at = "models" /\ state = "ready"
    /\ refresh' = [refresh EXCEPT ![r].at = "listed", ![r].list = models]
    /\ UNCHANGED <<broker, status, controls, posting, sending>>

\* Defect for the web_ui run: an empty list counts as loaded.
AnyListLoads(list)  == TRUE
ListLoads(list) == list # {}

\* The rest of loadModels, and of refreshStatus.
Refreshed(r) == checked' = PinShown(r) /\ refresh' = [refresh EXCEPT ![r] = NoRefresh]

ModelsApplied(r) ==
    /\ refresh[r].at = "listed"
    /\ offered' = refresh[r].list /\ modelsLoaded' = ListLoads(refresh[r].list)
    /\ Refreshed(r)
    /\ UNCHANGED <<broker, currentState, controls, posting, sending>>

\* 503, 502 or a network error: loadModels leaves the list alone.
ModelsLost(r) ==
    /\ refresh[r].at = "models"
    /\ Refreshed(r)
    /\ UNCHANGED <<broker, currentState, modelsLoaded, offered, controls, posting, sending>>
ModelsRefused(r) == state # "ready" /\ ModelsLost(r)

\* GET /api/status fails: refreshStatus gives up.
StatusLost(r) ==
    /\ refresh[r].at = "asked"
    /\ refresh' = [refresh EXCEPT ![r] = NoRefresh]
    /\ UNCHANGED <<broker, status, controls, posting, sending>>

RefreshFails(r) == StatusLost(r) \/ ModelsLost(r)

Refreshing(r) == \/ StatusAnswered(r) \/ StatusApplied(r)
                 \/ ModelsAnswered(r) \/ ModelsApplied(r) \/ ModelsRefused(r)

-----------------------------------------------------------------------------
\* toggleKeepAwake: the box changes at once, the broker when the POST arrives.
Toggle ==
    /\ checked # Null /\ posting = "none"
    /\ checked' = (checked = FALSE)
    /\ posting' = IF checked' THEN "on" ELSE "off"
    /\ UNCHANGED <<broker, currentState, modelsLoaded, offered, controls, refresh, sending>>

ToggleServed ==
    /\ posting \in {"on", "off"}
    /\ keep_awake' = (posting = "on") /\ posting' = "answered"
    /\ UNCHANGED <<state, models, status, controls, refresh, sending>>

ToggleReturns ==
    /\ posting = "answered"
    /\ posting' = "none" /\ BeginRefresh
    /\ UNCHANGED <<broker, status, controls, sending>>

ToggleFails ==
    /\ posting # "none" /\ posting' = "none"
    /\ UNCHANGED <<broker, status, controls, refresh, sending>>

-----------------------------------------------------------------------------
(***************************************************************************)
(* sendChat, from the Enter key or the button.                             *)
(***************************************************************************)
SendEnabled == ~input_disabled \/ (shown = "ready" /\ ~stop_shown)

\* The history grows, the stream controls come up.
ChatBegins ==
    /\ chatHistory' = Append(chatHistory, "user")
    /\ currentAbort' = "armed" /\ chat' = "fetch"
    /\ heard' = "nothing"
    /\ stop_shown' = TRUE /\ input_disabled' = TRUE
    /\ UNCHANGED <<broker, status, shown, refresh, posting>>

\* Defect for the web_ui run: the disabled input is taken to be guard enough.
SendWhenEnabled ==
    /\ SendEnabled /\ offered # {} /\ Len(chatHistory) < 2 * MaxTurns
    /\ ChatBegins
SendChat ==
    /\ SendEnabled /\ offered # {} /\ Len(chatHistory) < 2 * MaxTurns
    /\ currentAbort = Null
    /\ ChatBegins

\* The stop button.  The await that is pending rejects, or has its answer already.
Stop ==
    /\ stop_shown /\ currentAbort = "armed"
    /\ currentAbort' = "aborted"
    /\ UNCHANGED <<broker, status, controls, refresh, posting, chatHistory, chat, heard>>

ChatAnswered ==
    /\ chat = "fetch"
    /\ chat' \in {"refused", "read"}
    /\ UNCHANGED <<broker, status, controls, refresh, posting, chatHistory, currentAbort, heard>>

\* A line of the stream.
ChunkRead ==
    /\ chat = "read"
    /\ heard' \in {"text", IF heard = "nothing" THEN "done" ELSE heard}
    /\ UNCHANGED <<broker, status, controls, refresh, posting, chatHistory, currentAbort, chat>>

\* Defect for the web_ui run: the controls are left to the next status change.
FinallyForgets ==
    /\ currentAbort' = Null /\ stop_shown' = FALSE
    /\ input_disabled' = FALSE /\ UNCHANGED shown
    /\ chat' = "none" /\ heard' = "nothing"
    /\ UNCHANGED <<broker, status, posting>>
\* The finally block.
Finally ==
    /\ currentAbort' = Null /\ stop_shown' = FALSE
    /\ UpdateChatUI(currentState)
    /\ chat' = "none" /\ heard' = "nothing"
    /\ UNCHANGED <<broker, status, posting>>

Unsaid == chatHistory' = SubSeq(chatHistory, 1, Len(chatHistory) - 1)
Said   == chatHistory' = Append(chatHistory, "assistant")

\* Lines 192-199; a 503 asks for the status.
ChatRefused ==
    /\ chat = "refused"
    /\ Unsaid
    /\ BeginRefresh \/ UNCHANGED refresh
    /\ Finally

\* Lines 226-230 and 247-250: an error chunk, a bad line, a connection that breaks.
ChatFails == chat \in {"fetch", "read"} /\ Unsaid /\ Finally /\ UNCHANGED refresh

\* Lines 234-241.
ChatEnds ==
    /\ chat = "read"
    /\ IF heard # "nothing" THEN Said ELSE Unsaid
    /\ Finally /\ UNCHANGED refresh

\* Lines 243-246.
ChatAborted ==
    /\ chat \in {"fetch", "read"} /\ currentAbort = "aborted"
    /\ IF heard = "text" THEN Said ELSE Unsaid
    /\ Finally /\ UNCHANGED refresh

-----------------------------------------------------------------------------
Polling  == FastPoll \/ SlowPoll \/ OperatorRefreshes
Toggling == Toggle \/ ToggleServed \/ ToggleReturns \/ ToggleFails
ChatExits == ChatRefused \/ ChatFails \/ ChatEnds \/ ChatAborted
Chatting == SendChat \/ Stop \/ ChatAnswered \/ ChunkRead \/ ChatExits

UNext ==
    \/ BrokerMoves \/ Reload
    \/ Polling \/ \E r \in Fetches : Refreshing(r) \/ RefreshFails(r)
    \/ Toggling
    \/ Chatting

\* The intervals fire, and what was answered is rendered.
USpec == /\ UInit /\ [][UNext]_uvars
         /\ WF_uvars(FastPoll) /\ WF_uvars(SlowPoll)
         /\ \A r \in Fetches : WF_uvars(Refreshing(r))

-----------------------------------------------------------------------------
(***************************************************************************)
(* "Keep history consistent with what the model saw" (app.js:196): on      *)
(* every exit of sendChat, prompts and answers alternate, and a prompt is  *)
(* without its answer only while the answer is awaited.                    *)
(***************************************************************************)
HistoryAlternates ==
    /\ \A i \in 1..Len(chatHistory) :
           chatHistory[i] = IF i % 2 = 1 THEN "user" ELSE "assistant"
    /\ Len(chatHistory) % 2 = IF chat = "none" THEN 0 ELSE 1

(***************************************************************************)
(* sendChat and refreshStatus write the same controls and still agree: the *)
(* page renders the state it last heard of, a chat can be stopped exactly  *)
(* while one runs, and at rest one can type exactly when the PC is ready.  *)
(***************************************************************************)
ControlsAgree ==
    /\ shown = currentState
    /\ stop_shown <=> chat # "none"
    /\ currentAbort # Null <=> chat # "none"
    /\ chat = "none" => (input_disabled <=> currentState # "ready")

\* The network works, the page stays, and nobody changes what the page shows.
Quiet == UNCHANGED <<state, keep_awake, posting>>
         /\ ~Reload /\ \A r \in Fetches : ~StatusLost(r) /\ (ModelsLost(r) => state # "ready")

(***************************************************************************)
(* Whatever was answered late or out of order, a page left alone ends up   *)
(* showing the broker's state and its keep-awake flag.                     *)
(***************************************************************************)
PageConverges ==
    <>[][Quiet]_uvars => <>[](currentState = state /\ checked = keep_awake)

\* The answer call r holds is no longer what the broker says.
Late(r) ==
    \/ refresh[r].at = "answered" /\ refresh[r].state # state
    \/ refresh[r].at \in {"answered", "models", "listed"} /\ refresh[r].pin # keep_awake

Settled == currentState = state /\ checked = keep_awake

(***************************************************************************)
(* What a late answer can do to a page that is left alone (app.js:77-101   *)
(* has nothing that tells it from a new one): an answer that is current    *)
(* never becomes late and leaves what it renders right, whatever was       *)
(* clicked or came before; and once the page shows the truth, neither its  *)
(* own polling nor its chats make it wrong again, only a call that is late *)
(* as it moves on, which no later call can be.                             *)
(***************************************************************************)
LateAnswersPass ==
    [][Quiet =>
        /\ \A r \in Fetches :
             /\ Late(r)' => Late(r)
             /\ ~Late(r) /\ refresh[r].at = "answered" /\ refresh'[r].at # "answered"
                  => currentState' = state
             /\ ~Late(r) /\ refresh[r].at # "idle" /\ refresh'[r].at = "idle"
                  => checked' = keep_awake
        /\ Settled /\ ~Settled' => \E r \in Fetches : Late(r) /\ refresh'[r] # refresh[r]]_uvars

(***************************************************************************)
(* A page that finds the PC ready with models in the end offers some, even *)
(* if an earlier, empty list is answered after a later one.                *)
(***************************************************************************)
ModelsOffered ==
    <>[][Quiet /\ UNCHANGED models]_uvars
        => <>[](state = "ready" /\ models # {} => offered # {})
=============================================================================
