----------------------------- MODULE WebUiProofs ----------------------------
(***************************************************************************)
(* What is proved of WebUi, for any number of status calls in flight, any  *)
(* broker states and models, and a history of any length.                  *)
(***************************************************************************)
EXTENDS WebUi, SequenceTheorems, TLAPS

(***************************************************************************)
(* The history of sendChat: how a prompt and an answer change it.          *)
(***************************************************************************)
Roles == {"user", "assistant"}

Alternates(h) == \A i \in 1..Len(h) : h[i] = IF i % 2 = 1 THEN "user" ELSE "assistant"

LEMMA AppendAlternates ==
    ASSUME NEW h \in Seq(Roles), NEW role \in Roles, Alternates(h),
           role = IF Len(h) % 2 = 0 THEN "user" ELSE "assistant"
    PROVE  /\ Append(h, role) \in Seq(Roles)
           /\ Alternates(Append(h, role))
           /\ Len(Append(h, role)) % 2 # Len(h) % 2
  <1> DEFINE g == Append(h, role)
  <1>1. g \in Seq(Roles) /\ Len(g) = Len(h) + 1 /\ Len(h) \in Nat
    OBVIOUS
  <1>2. \A i \in 1..Len(h) : g[i] = h[i]
    OBVIOUS
  <1>3. g[Len(h) + 1] = role
    OBVIOUS
  <1>4. Alternates(g)
    <2> SUFFICES ASSUME NEW i \in 1..Len(g)
                 PROVE  g[i] = IF i % 2 = 1 THEN "user" ELSE "assistant"
      BY DEF Alternates
    <2>1. CASE i \in 1..Len(h)
      BY <2>1, <1>2 DEF Alternates
    <2>2. CASE i = Len(h) + 1
      <3>1. (i % 2 = 1) <=> (Len(h) % 2 = 0)
        BY <2>2, <1>1
      <3>2. QED BY <2>2, <3>1, <1>3
    <2>3. QED BY <2>1, <2>2, <1>1
  <1>5. Len(g) % 2 # Len(h) % 2
    BY <1>1
  <1>6. QED BY <1>1, <1>4, <1>5

LEMMA PrefixIs ==
    ASSUME NEW S, NEW s, NEW n \in Nat, \A i \in 1..n : s[i] \in S
    PROVE  /\ SubSeq(s, 1, n) \in Seq(S) /\ Len(SubSeq(s, 1, n)) = n
           /\ \A i \in 1..n : SubSeq(s, 1, n)[i] = s[i]
  OBVIOUS

LEMMA PopAlternates ==
    ASSUME NEW h \in Seq(Roles), Alternates(h), Len(h) % 2 = 1
    PROVE  LET g == SubSeq(h, 1, Len(h) - 1)
           IN  g \in Seq(Roles) /\ Alternates(g) /\ Len(g) % 2 = 0
  <1> DEFINE n == Len(h) - 1
             g == SubSeq(h, 1, n)
  <1>1. n \in Nat /\ Len(h) = n + 1
    OBVIOUS
  <1>2. \A i \in 1..n : h[i] \in Roles
    OBVIOUS
  <1> HIDE DEF n
  <1>3. g \in Seq(Roles) /\ Len(g) = n /\ \A i \in 1..n : g[i] = h[i]
    BY <1>1, <1>2, PrefixIs
  <1> HIDE DEF g
  <1>4. Alternates(g)
    BY <1>1, <1>3 DEF Alternates
  <1>5. Len(g) % 2 = 0
    BY <1>1, <1>3
  <1>6. QED BY <1>3, <1>4, <1>5 DEF g, n

(***************************************************************************)
(* Types: a page just loaded, and what the calls of refreshStatus keep.    *)
(***************************************************************************)
LEMMA NoRefreshType == NoRefresh \in Refresh
  <1>1. {} \in SUBSET Models /\ FALSE \in BOOLEAN
    OBVIOUS
  <1>2. QED BY <1>1 DEF NoRefresh, Refresh

LEMMA FreshPage == /\ {} \in SUBSET Models
                   /\ <<>> \in Seq({"user", "assistant"})
                   /\ [r \in Fetches |-> NoRefresh] \in [Fetches -> Refresh]
  <1>1. {} \in SUBSET Models
    OBVIOUS
  <1>2. <<>> \in Seq({"user", "assistant"})
    OBVIOUS
  <1>3. QED BY <1>1, <1>2, NoRefreshType

LEMMA ListedType ==
    ASSUME NEW c \in Refresh, NEW list \in SUBSET Models
    PROVE  [c EXCEPT !.at = "listed", !.list = list] \in Refresh
  BY DEF Refresh

LEMMA RefreshType ==
    ASSUME UiTypeOK, NEW r \in Fetches
    PROVE  /\ [refresh EXCEPT ![r] = NoRefresh] \in [Fetches -> Refresh]
           /\ refresh[r] \in Refresh /\ refresh[r].pin \in BOOLEAN
           /\ refresh[r].list \in SUBSET Models /\ refresh[r].state \in States \cup {Null}
  BY NoRefreshType DEF UiTypeOK, Refresh

LEMMA BeginType ==
    ASSUME UiTypeOK, BeginRefresh
    PROVE  refresh' \in [Fetches -> Refresh]
  BY DEF UiTypeOK, BeginRefresh, Refresh

(***************************************************************************)
(* Type correctness: whatever the interleaving of its three activities,    *)
(* the page's variables have the values app.js gives them.                 *)
(***************************************************************************)
THEOREM UiTypeCorrect == USpec => []UiTypeOK
  <1> USE UiConstants
  <1>1. UInit => UiTypeOK
    BY FreshPage DEF UInit, Loaded, UiTypeOK
  <1>2. UiTypeOK /\ [UNext]_uvars => UiTypeOK'
    <2> SUFFICES ASSUME UiTypeOK, [UNext]_uvars PROVE UiTypeOK'
      OBVIOUS
    <2> USE DEF broker, status, controls, sending
    <2>1. CASE BrokerMoves
      BY <2>1 DEF UiTypeOK, BrokerMoves
    <2>2. CASE Reload
      BY <2>2, FreshPage DEF UiTypeOK, Reload
    <2>3. CASE Polling
      <3>1. refresh' \in [Fetches -> Refresh]
        BY <2>3, BeginType DEF Polling, FastPoll, SlowPoll, OperatorRefreshes
      <3>2. UNCHANGED <<broker, status, controls, posting, sending>>
        BY <2>3 DEF Polling, FastPoll, SlowPoll, OperatorRefreshes
      <3>3. QED BY <3>1, <3>2 DEF UiTypeOK
    <2>4. ASSUME NEW r \in Fetches, Refreshing(r) \/ RefreshFails(r) PROVE UiTypeOK'
      <3>1. CASE StatusAnswered(r)
        <4>1. refresh' \in [Fetches -> Refresh]
          BY <3>1 DEF UiTypeOK, StatusAnswered, Refresh
        <4>2. QED BY <3>1, <4>1 DEF UiTypeOK, StatusAnswered
      <3>2. CASE StatusApplied(r)
        <4>1. refresh' \in [Fetches -> Refresh]
          <5>1. [refresh[r] EXCEPT !.at = "models", !.state = Null] \in Refresh
            BY RefreshType DEF Refresh
          <5>2. \E new \in Refresh : refresh' = [refresh EXCEPT ![r] = new]
            BY <3>2, <5>1, NoRefreshType DEF StatusApplied
          <5>3. QED BY <5>2 DEF UiTypeOK
        <4>2. /\ currentState' \in States \cup {Null} /\ shown' \in States \cup {Null}
              /\ checked' \in BOOLEAN \cup {Null} /\ input_disabled' \in BOOLEAN
          BY <3>2, RefreshType DEF UiTypeOK, StatusApplied, UpdateChatUI, PinShown
        <4>3. QED BY <3>2, <4>1, <4>2 DEF UiTypeOK, StatusApplied
      <3>3. CASE ModelsAnswered(r)
        <4>1. refresh' \in [Fetches -> Refresh]
          <5>1. [refresh[r] EXCEPT !.at = "listed", !.list = models] \in Refresh
            BY RefreshType, ListedType DEF UiTypeOK
          <5>2. refresh' = [refresh EXCEPT ![r] = [refresh[r] EXCEPT !.at = "listed",
                                                                    !.list = models]]
            BY <3>3 DEF ModelsAnswered
          <5>3. QED BY <5>1, <5>2 DEF UiTypeOK
        <4>2. QED BY <3>3, <4>1 DEF UiTypeOK, ModelsAnswered
      <3>4. CASE ModelsApplied(r)
        <4>1. /\ refresh' \in [Fetches -> Refresh] /\ checked' \in BOOLEAN \cup {Null}
              /\ offered' \in SUBSET Models /\ modelsLoaded' \in BOOLEAN
          BY <3>4, RefreshType DEF ModelsApplied, Refreshed, PinShown, ListLoads
        <4>2. QED BY <3>4, <4>1 DEF UiTypeOK, ModelsApplied
      <3>5. CASE ModelsLost(r)
        <4>1. refresh' \in [Fetches -> Refresh] /\ checked' \in BOOLEAN \cup {Null}
          BY <3>5, RefreshType DEF ModelsLost, Refreshed, PinShown
        <4>2. QED BY <3>5, <4>1 DEF UiTypeOK, ModelsLost
      <3>6. CASE StatusLost(r)
        <4>1. refresh' \in [Fetches -> Refresh]
          BY <3>6, RefreshType DEF StatusLost
        <4>2. QED BY <3>6, <4>1 DEF UiTypeOK, StatusLost
      <3>7. QED
        BY <2>4, <3>1, <3>2, <3>3, <3>4, <3>5, <3>6
        DEF Refreshing, RefreshFails, ModelsRefused
    <2>5. CASE Toggling
      <3>1. CASE Toggle
        BY <3>1 DEF UiTypeOK, Toggle
      <3>2. CASE ToggleServed
        BY <3>2 DEF UiTypeOK, ToggleServed
      <3>3. CASE ToggleReturns
        <4>1. refresh' \in [Fetches -> Refresh]
          BY <3>3, BeginType DEF ToggleReturns
        <4>2. QED BY <3>3, <4>1 DEF UiTypeOK, ToggleReturns
      <3>4. CASE ToggleFails
        BY <3>4 DEF UiTypeOK, ToggleFails
      <3>5. QED BY <2>5, <3>1, <3>2, <3>3, <3>4 DEF Toggling
    <2>6. CASE SendChat
      BY <2>6 DEF UiTypeOK, SendChat, ChatBegins
    <2>7. CASE Stop \/ ChatAnswered \/ ChunkRead
      BY <2>7 DEF UiTypeOK, Stop, ChatAnswered, ChunkRead
    <2>8. CASE ChatExits
      <3>1. /\ currentAbort' = Null /\ stop_shown' = FALSE /\ chat' = "none"
            /\ heard' = "nothing" /\ shown' = currentState
            /\ input_disabled' = (currentState # "ready")
            /\ UNCHANGED <<broker, status, posting>>
        BY <2>8 DEF ChatExits, ChatRefused, ChatFails, ChatEnds, ChatAborted, Finally,
           UpdateChatUI
      <3>2. refresh' \in [Fetches -> Refresh]
        <4>1. UNCHANGED refresh \/ BeginRefresh
          BY <2>8 DEF ChatExits, ChatRefused, ChatFails, ChatEnds, ChatAborted
        <4>2. QED BY <4>1, BeginType DEF UiTypeOK
      <3>3. chatHistory' \in Seq({"user", "assistant"})
        BY <2>8 DEF UiTypeOK, ChatExits, ChatRefused, ChatFails, ChatEnds, ChatAborted, Said,
           Unsaid
      <3>4. QED BY <3>1, <3>2, <3>3 DEF UiTypeOK
    <2>9. CASE UNCHANGED uvars
      BY <2>9 DEF UiTypeOK, uvars
    <2>10. QED
      BY <2>1, <2>2, <2>3, <2>4, <2>5, <2>6, <2>7, <2>8, <2>9 DEF UNext, Chatting
  <1>3. QED BY <1>1, <1>2, PTL DEF USpec

(***************************************************************************)
(* The page's controls and its history.  sendChat guards its entry with    *)
(* currentAbort, which agrees with the chat that runs: so the history      *)
(* needs ControlsAgree, and nothing beyond the two properties is needed to *)
(* make them inductive.                                                    *)
(***************************************************************************)
UiInv == UiTypeOK /\ ControlsAgree /\ HistoryAlternates

\* What the page shows and sends is left alone by most steps of the others.
LEMMA OthersLeaveIt ==
    ASSUME \/ BrokerMoves \/ Polling \/ Toggling
           \/ \E r \in Fetches : \/ StatusAnswered(r) \/ StatusLost(r) \/ ModelsAnswered(r)
                                 \/ ModelsApplied(r) \/ ModelsLost(r)
    PROVE  UNCHANGED <<currentState, controls, sending>>
  BY DEF BrokerMoves, Polling, FastPoll, SlowPoll, OperatorRefreshes, Toggling, Toggle,
     ToggleServed, ToggleReturns, ToggleFails, StatusAnswered, StatusLost, ModelsAnswered,
     ModelsApplied, ModelsLost, status

LEMMA ExitsRestore ==
    ASSUME ChatExits
    PROVE  /\ currentAbort' = Null /\ stop_shown' = FALSE /\ chat' = "none"
           /\ shown' = currentState /\ input_disabled' = (currentState # "ready")
           /\ currentState' = currentState
           /\ chat \in {"fetch", "refused", "read"} /\ (Said \/ Unsaid)
  BY DEF ChatExits, ChatRefused, ChatFails, ChatEnds, ChatAborted, Finally, UpdateChatUI, status

LEMMA ControlsStep ==
    ASSUME UiInv, [UNext]_uvars
    PROVE  ControlsAgree'
  <1> USE UiConstants
  <1>1. CASE UNCHANGED <<currentState, controls, sending>>
    BY <1>1 DEF UiInv, ControlsAgree, controls, sending
  <1>2. CASE Reload
    BY <1>2 DEF Reload, ControlsAgree
  <1>3. ASSUME NEW r \in Fetches, StatusApplied(r) PROVE ControlsAgree'
    <2>1. CASE refresh[r].state = currentState
      BY <1>3, <2>1 DEF UiInv, ControlsAgree, StatusApplied, sending
    <2>2. CASE refresh[r].state # currentState
      BY <1>3, <2>2 DEF UiInv, ControlsAgree, StatusApplied, UpdateChatUI, sending
    <2>3. QED BY <2>1, <2>2
  <1>4. CASE SendChat
    BY <1>4 DEF UiInv, ControlsAgree, SendChat, ChatBegins, status
  <1>5. CASE Stop \/ ChatAnswered \/ ChunkRead
    BY <1>5 DEF UiInv, ControlsAgree, Stop, ChatAnswered, ChunkRead, status, controls
  <1>6. CASE ChatExits
    BY <1>6, ExitsRestore DEF ControlsAgree
  <1>7. QED
    BY <1>1, <1>2, <1>3, <1>4, <1>5, <1>6, OthersLeaveIt
    DEF UNext, Refreshing, RefreshFails, ModelsRefused, Chatting, uvars, status

LEMMA HistoryStep ==
    ASSUME UiInv, [UNext]_uvars
    PROVE  HistoryAlternates'
  <1> USE UiConstants
  <1>0. chatHistory \in Seq(Roles) /\ Alternates(chatHistory)
    BY DEF UiInv, UiTypeOK, HistoryAlternates, Alternates, Roles
  <1>1. CASE UNCHANGED <<chatHistory, chat>>
    BY <1>1 DEF UiInv, HistoryAlternates
  <1>2. CASE Reload
    BY <1>2 DEF Reload, HistoryAlternates
  <1>3. CASE SendChat
    <2>1. chat = "none" /\ Len(chatHistory) % 2 = 0
      BY <1>3 DEF SendChat, UiInv, ControlsAgree, HistoryAlternates
    <2>2. chatHistory' = Append(chatHistory, "user") /\ chat' = "fetch"
      BY <1>3 DEF SendChat, ChatBegins
    <2>3. Alternates(chatHistory') /\ Len(chatHistory') % 2 # Len(chatHistory) % 2
          /\ chatHistory' \in Seq(Roles)
      BY <1>0, <2>1, <2>2, AppendAlternates DEF Roles
    <2>4. Len(chatHistory') % 2 = 1
      BY <1>0, <2>1, <2>3
    <2>5. QED BY <2>2, <2>3, <2>4 DEF HistoryAlternates, Alternates
  <1>4. CASE ChatAnswered
    BY <1>4 DEF ChatAnswered, UiInv, HistoryAlternates
  <1>5. CASE ChatExits
    <2>1. chat' = "none" /\ Len(chatHistory) % 2 = 1 /\ (Said \/ Unsaid)
      BY <1>5, ExitsRestore DEF UiInv, HistoryAlternates
    <2>2. CASE Said
      <3>1. Alternates(chatHistory') /\ Len(chatHistory') % 2 # Len(chatHistory) % 2
            /\ chatHistory' \in Seq(Roles)
        BY <1>0, <2>1, <2>2, AppendAlternates DEF Said, Roles
      <3>2. Len(chatHistory') % 2 = 0
        BY <1>0, <2>1, <3>1
      <3>3. QED BY <2>1, <3>1, <3>2 DEF HistoryAlternates, Alternates
    <2>3. CASE Unsaid
      <3>1. Alternates(chatHistory') /\ Len(chatHistory') % 2 = 0
        BY <1>0, <2>1, <2>3, PopAlternates DEF Unsaid
      <3>2. QED BY <2>1, <3>1 DEF HistoryAlternates, Alternates
    <2>4. QED BY <2>1, <2>2, <2>3
  <1>6. CASE Stop \/ ChunkRead
    BY <1>1, <1>6 DEF Stop, ChunkRead
  <1>7. ASSUME NEW r \in Fetches, StatusApplied(r) PROVE UNCHANGED <<chatHistory, chat>>
    BY <1>7 DEF StatusApplied, sending
  <1>8. CASE UNCHANGED <<currentState, controls, sending>>
    BY <1>1, <1>8 DEF sending
  <1>9. QED
    BY <1>1, <1>2, <1>3, <1>4, <1>5, <1>6, <1>7, <1>8, OthersLeaveIt
    DEF UNext, Refreshing, RefreshFails, ModelsRefused, Chatting, uvars, sending

LEMMA UiInvariant == USpec => []UiInv
  <1>1. UInit => ControlsAgree /\ HistoryAlternates
    BY UiConstants DEF UInit, Loaded, ControlsAgree, HistoryAlternates
  <1>2. UiTypeOK /\ ControlsAgree /\ HistoryAlternates /\ [UNext]_uvars
          => ControlsAgree' /\ HistoryAlternates'
    BY ControlsStep, HistoryStep DEF UiInv
  <1>3. UiTypeOK /\ ControlsAgree /\ HistoryAlternates => UiInv
    BY DEF UiInv
  <1>4. QED BY <1>1, <1>2, <1>3, UiTypeCorrect, PTL DEF USpec

(***************************************************************************)
(* The prompts and answers sent to the model alternate on every exit of    *)
(* sendChat, however status answers and clicks come in between.            *)
(***************************************************************************)
THEOREM HistoryTheorem == USpec => []HistoryAlternates
  <1>1. UiInv => HistoryAlternates
    BY DEF UiInv
  <1>2. QED BY <1>1, UiInvariant, PTL

(***************************************************************************)
(* The controls sendChat and refreshStatus both write agree with the chat  *)
(* and with the state last heard of.                                       *)
(***************************************************************************)
THEOREM ControlsTheorem == USpec => []ControlsAgree
  <1>1. UiInv => ControlsAgree
    BY DEF UiInv
  <1>2. QED BY <1>1, UiInvariant, PTL

(***************************************************************************)
(* What a late answer can do.  Each step moves at most one call; Renders   *)
(* is what LateAnswersPass says of each call, Passes what it says of all.  *)
(***************************************************************************)
Box == UNCHANGED <<currentState, checked>>

Renders(r) ==
    /\ Late(r)' => Late(r)
    /\ ~Late(r) /\ refresh[r].at = "answered" /\ refresh'[r].at # "answered"
         => currentState' = state
    /\ ~Late(r) /\ refresh[r].at # "idle" /\ refresh'[r].at = "idle"
         => checked' = keep_awake

Passes ==
    /\ \A r \in Fetches : Renders(r)
    /\ Settled /\ ~Settled' => \E r \in Fetches : Late(r) /\ refresh'[r] # refresh[r]

LEMMA UnmovedRenders ==
    ASSUME NEW r \in Fetches, UNCHANGED <<state, keep_awake>>, refresh'[r] = refresh[r]
    PROVE  Renders(r)
  BY DEF Renders, Late

\* A step that leaves page and calls alone, or begins a call.
LEMMA AsidePasses ==
    ASSUME UiTypeOK, UNCHANGED <<state, keep_awake>>, Box, BeginRefresh \/ UNCHANGED refresh
    PROVE  Passes
  <1>1. Settled => Settled'
    BY DEF Settled, Box
  <1>2. ASSUME NEW r \in Fetches PROVE Renders(r)
    <2>1. CASE refresh'[r] = refresh[r]
      BY <2>1, UnmovedRenders
    <2>2. CASE refresh'[r] # refresh[r]
      <3>1. refresh[r].at = "idle" /\ refresh'[r].at = "asked"
        BY <2>2 DEF BeginRefresh, UiTypeOK, Refresh
      <3>2. QED BY <3>1 DEF Renders, Late
    <2>3. QED BY <2>1, <2>2
  <1>3. QED BY <1>1, <1>2 DEF Passes

\* One call of refreshStatus moves on.
LEMMA CallPasses ==
    ASSUME UiTypeOK, Quiet, NEW r \in Fetches, Refreshing(r) \/ RefreshFails(r)
    PROVE  Passes
  <1> USE UiConstants
  <1>0. UNCHANGED <<state, keep_awake>> /\ ~StatusLost(r)
    BY DEF Quiet
  <1> DEFINE moved == \A q \in Fetches \ {r} : refresh'[q] = refresh[q]
  <1>o. ASSUME moved, Renders(r), Settled /\ ~Settled' => Late(r) /\ refresh'[r] # refresh[r]
        PROVE  Passes
    BY <1>o, <1>0, UnmovedRenders DEF Passes
  <1>1. CASE StatusAnswered(r)
    <2> DEFINE new == [at |-> "answered", state |-> state, pin |-> keep_awake, list |-> {}]
    <2>1. refresh' = [refresh EXCEPT ![r] = new] /\ Box /\ refresh[r].at = "asked"
      BY <1>1 DEF StatusAnswered, status, Box
    <2>2. moved /\ refresh'[r] = new
      BY <2>1 DEF UiTypeOK
    <2>3. Renders(r)
      BY <1>0, <2>1, <2>2 DEF Renders, Late
    <2>4. Settled => Settled'
      BY <1>0, <2>1 DEF Settled, Box
    <2>5. QED BY <1>o, <2>2, <2>3, <2>4
  <1>2. CASE StatusApplied(r)
    <2> DEFINE loads == refresh[r].state = "ready" /\ ~modelsLoaded
               new   == IF loads THEN [refresh[r] EXCEPT !.at = "models", !.state = Null]
                        ELSE NoRefresh
    <2>1. /\ refresh[r].at = "answered" /\ refresh' = [refresh EXCEPT ![r] = new]
          /\ currentState' = refresh[r].state
          /\ checked' = IF loads THEN checked ELSE refresh[r].pin
      BY <1>2 DEF StatusApplied, PinShown
    <2>2. new.pin \in {refresh[r].pin, FALSE} /\ new.at = (IF loads THEN "models" ELSE "idle")
          /\ (loads => new.pin = refresh[r].pin)
      BY RefreshType DEF Refresh, NoRefresh
    <2> HIDE DEF new, loads
    <2>3. moved /\ refresh'[r] = new
      BY <2>1 DEF UiTypeOK
    <2>4. refresh'[r].at # "answered" /\ refresh'[r] # refresh[r]
      BY <2>1, <2>2, <2>3
    <2>5. Renders(r)
      BY <1>0, <2>1, <2>2, <2>3 DEF Renders, Late
    <2>6. Settled /\ ~Late(r) => Settled'
      BY <1>0, <2>1 DEF Settled, Late
    <2>7. QED BY <1>o, <2>3, <2>4, <2>5, <2>6
  <1>3. CASE ModelsAnswered(r)
    <2> DEFINE new == [refresh[r] EXCEPT !.at = "listed", !.list = models]
    <2>1. refresh' = [refresh EXCEPT ![r] = new] /\ Box /\ refresh[r].at = "models"
      BY <1>3 DEF ModelsAnswered, status, Box
    <2>2. new.at = "listed" /\ new.pin = refresh[r].pin
      BY RefreshType DEF Refresh
    <2> HIDE DEF new
    <2>3. moved /\ refresh'[r] = new
      BY <2>1 DEF UiTypeOK
    <2>4. Renders(r)
      BY <1>0, <2>1, <2>2, <2>3 DEF Renders, Late
    <2>5. Settled => Settled'
      BY <1>0, <2>1 DEF Settled, Box
    <2>6. QED BY <1>o, <2>3, <2>4, <2>5
  <1>4. CASE ModelsApplied(r) \/ ModelsLost(r)
    <2>1. /\ refresh[r].at \in {"models", "listed"}
          /\ refresh' = [refresh EXCEPT ![r] = NoRefresh] /\ checked' = refresh[r].pin
          /\ UNCHANGED currentState
      BY <1>4 DEF ModelsApplied, ModelsLost, Refreshed, PinShown
    <2>2. NoRefresh.at = "idle"
      BY DEF NoRefresh
    <2>3. moved /\ refresh'[r] = NoRefresh
      BY <2>1 DEF UiTypeOK
    <2>4. refresh'[r] # refresh[r]
      BY <2>1, <2>2, <2>3
    <2>5. Renders(r)
      BY <1>0, <2>1, <2>2, <2>3 DEF Renders, Late
    <2>6. Settled /\ ~Late(r) => Settled'
      BY <1>0, <2>1 DEF Settled, Late
    <2>7. QED BY <1>o, <2>3, <2>4, <2>5, <2>6
  <1>5. QED
    BY <1>0, <1>1, <1>2, <1>3, <1>4 DEF Refreshing, RefreshFails, ModelsRefused

(***************************************************************************)
(* However many calls are in flight: a current answer stays current and    *)
(* renders the truth, and only a late one makes a true page wrong.         *)
(***************************************************************************)
THEOREM LateAnswersTheorem == USpec => LateAnswersPass
  <1>1. UiTypeOK /\ [UNext]_uvars => [Quiet => Passes]_uvars
    <2> SUFFICES ASSUME UiTypeOK, UNext, Quiet PROVE Passes
      BY DEF uvars
    <2>0. UNCHANGED <<state, keep_awake, posting>> /\ ~Reload
      BY DEF Quiet
    <2>1. CASE BrokerMoves
      BY <2>0, <2>1, AsidePasses DEF BrokerMoves, status, Box
    <2>2. CASE Polling
      BY <2>0, <2>2, AsidePasses
      DEF Polling, FastPoll, SlowPoll, OperatorRefreshes, status, Box
    <2>3. CASE Toggling
      <3>1. posting' # posting
        BY <2>3 DEF Toggling, Toggle, ToggleServed, ToggleReturns, ToggleFails, UiTypeOK
      <3>2. QED BY <2>0, <3>1
    <2>4. CASE SendChat \/ Stop \/ ChatAnswered \/ ChunkRead
      BY <2>0, <2>4, AsidePasses
      DEF SendChat, ChatBegins, Stop, ChatAnswered, ChunkRead, status, Box
    <2>5. CASE ChatExits
      BY <2>0, <2>5, AsidePasses
      DEF ChatExits, ChatRefused, ChatFails, ChatEnds, ChatAborted, Finally, status, Box
    <2>6. QED
      BY <2>0, <2>1, <2>2, <2>3, <2>4, <2>5, CallPasses DEF UNext, Chatting
  <1>2. QED
    BY <1>1, UiTypeCorrect, PTL DEF USpec, LateAnswersPass, Passes, Renders
=============================================================================
