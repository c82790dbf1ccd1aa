# pc-broker: a TLA+ model

A verification project for the PC broker: the FastAPI service of `app/` that
wakes a gaming PC with Wake-on-LAN, proxies chats to Ollama on it, and shuts it
down through the agent of `agent/` when nobody uses it. The models are written
from the code; file and line of every definition are in `PROJECT.json`.

## The system

| Component | State it keeps | Operations | What makes it correct |
|---|---|---|---|
| Broker state machine, `app/state.py` | `BrokerState`: state, reachability flags, models, wake and packet stamps, streams, pin, strikes, last activity report | `_poll_loop` = `_refresh` + `_idle_tick` + sleep; `request_wake` | the fields agree at every instant; a wake is retried and given up in time; an unused PC is shut down, a used one is not |
| Idle decision, `app/services/idle.py` | none (pure) | `should_idle_shutdown` | quieter signals never make it busier, missing ones never make it idle |
| Power routes, `app/routers/power.py` | none | `POST /api/power/on`, `/off` | on is safe to repeat |
| Keep-awake route, `app/routers/idle.py` | writes the pin and the strikes | `POST /api/idle/keep_awake` | a touched pin starts the row of verdicts over |
| Chat proxy, `app/routers/llm.py`, `app/services/ollama.py` | `active_llm_streams`, `last_llm_activity`, suspended handlers | `/api/llm/chat`, `/api/chat`, `/api/llm/models` | the count is exact on every exit |
| Clients: `ping`, `ollama`, `agent_client`, `wol` | none | one network call each | failure is told apart from an answer |
| Shutdown agent, `agent/agent.py` | GPU cache, idle file | `/activity`, `/shutdown`, `/restart`, `--idle-reporter` | ambiguous facts are reported as null |
| Event log, `app/events.py` | a deque of 200 | append, read a prefix | bounded, newest first |
| Web UI, `app/static/js/app.js` | chat history, current abort, current state, models loaded, the controls | send, stop, poll status, toggle pin | the history alternates, the controls agree, the page ends up showing the broker's state |
| `app/main.py`, status/page routes, template, CSS, installers, workflows, docs | none at run time | | |

One asyncio event loop runs the broker. The poll task, every HTTP handler and
every streamed response are coroutines on it; they share the singleton
`broker_state` and meet only at awaits. The lock is never held across an await,
so it serialises nothing the event loop does not. The PC and the agent are
other machines: packets are lost, calls time out, power goes.

Hard behaviours: what a handler checked before an await and uses after it (the
idle tick, the chat alias, the model listing); two writers of one stamp (the
packet re-send); counts that must come back on every exit, cancellation and
late finalization included; a restart that forgets; a shutdown under way
that nothing cancels; threads of the agent over one dictionary without a lock;
answers that reach the page late or out of order. `PROJECT.json` lists them as `hazards`, each at its line.

## Modules

| Module | Models |
|---|---|
| `IdlePolicy` | `should_idle_shutdown` as an operator over a record of its arguments; the report's shape |
| `IdleOrder`, `MCIdleOrder` | two orders on those arguments (quieter, blurred) and a walk that changes one of them at a time |
| `Broker`, `MCBroker` | `BrokerState`, the poll loop cut at its awaits, the power and keep-awake routes, the agent's shutdown handler, the PC, a restart of the broker, time |
| `WakeLife` | the abstract life of a wake (asleep, waking, awake, given up; asked for, retried), without clocks, packets or polls; `Broker` implements it |
| `IdleWatch` | the broker as the agent sees it: a client that asks for the activity and may command a shutdown on the answer; `Broker` implements it |
| `BrokerHistory`, `MCBrokerHistory` | `Broker` with history variables that survive a restart: the last power-on or chat, the last touch of the pin |
| `ChatProxy`, `MCChatProxy` | the chat and models handlers in detail, composed with `Broker` (EXTENDS; they share its variables); it implements `Broker` |
| `ActivityAgent`, `MCActivityAgent` | `GET /activity` of the agent: the sessions Windows lists, the idle reporter and its file, the request cut where time may pass, the people at the PC, both clocks; it uses `IdlePolicy` for what a report lets the broker do |
| `IdleShutdown`, `MCIdleShutdown` | the idle auto-shutdown end to end: `ActivityAgent` and `IdleWatch` on one clock (EXTENDS both), with the network between them |
| `GpuCache`, `MCGpuCache` | `_gpu_util_percent` and its module-level cache under concurrent handler threads, one action per access |
| `WebUi`, `MCWebUi` | the page: `refreshStatus`, `loadModels`, the two intervals, `toggleKeepAwake` and `sendChat` cut at their awaits; the broker behind it is any sequence of answers |
| `IdleOrderProofs`, `BrokerProofs`, `BrokerHistoryProofs`, `ChatProxyProofs`, `ActivityProofs`, `IdleShutdownProofs`, `GpuCacheProofs`, `WebUiProofs` | the theorems |

### State and actions of Broker

`loop` says at which await the poll task is suspended (`probe`, `health`,
`models`, `activity`, `shutdown`, `sleep`); `apply` is the moment it resumes
with the answers of `_refresh` in its locals. Each action goes from one await
to the next: `ProbeAnswered`, `HealthAnswered`, `ModelsAnswered` choose an
outcome (a probe of a PC that is up may still fail), `ApplyRefresh` is the lock
section, the re-send and the guards of `_idle_tick`; `BusyVerdict`,
`IdleStrike` and `TriggerShutdown` are the three ways on from the agent's
answer; `TriggerReturns` is the end of the POST, successful or not. Between
any two of them the operator's requests, chats, the PC's own moves, a restart
and ticks of the clock may come.

An instant of the monotonic clock is kept as its age in ticks, a tick being one
`poll_interval`, and `None` as `Never`. `age["wake"]` is `_wake_requested_at`,
`age["wol"]` `_last_wol_sent_at`, `age["llm"]` `last_llm_activity`,
`age["ready"]` `ready_since`, `age["report"]` `_activity_report_at`,
`age["trigger"]` `_idle_triggered_at`, `age["models"]` `_models_refreshed_at`.
An age stops growing (`Cap`) beyond the last limit the code compares it with.

The chat proxy appears in `Broker` only as `ProxyChats` and `ProxyLists`: what
its handlers may do to the shared state. `ChatProxy` has the handlers and shows
(TLC and TLAPS) that they do nothing else, so what is proved of `Broker` holds
with them. In `ChatProxy`, `chat[c]` is the await a handler is suspended at,
`gone` the clients that left unseen, `silent` the upstream connections whose
peer lost power.

The refinement of `WakeLife` maps `state` to `phase` (`host_up` and
`ollama_starting` count as awake), "a wake request is stamped" to `asked`, and "the
last packet is younger than the last request" to `retried`. A re-send is `Retry`, the
poll that finds the timeout passed is `GiveUp`, only a restart of the broker is
`Forget`; everything else stutters. `asked` is what tells `Forget` from a poll that
drops a wake, which `WakeLife` does not allow.

### State and actions of ActivityAgent

`seat`, `locked` and `idle` are what is true of each user's session, `at_work`
remembers for how long the user has been in use of it without a break (up to
`MaxMemory`). What the agent knows is less. `EnumerateSessions` is `_wts_sessions`:
a query that fails leaves nulls, and the idle time of the console is never there.
`ReporterWrites` is a round of `_run_idle_reporter`, which measures the session
of one user only (`Owner`, the installer's `ReporterUser`) and through a counter
that wraps (`TickWidth`); the reporter dies with its session or by itself and
leaves its last file behind. The age of `file` is the true one in `elapsed`, plus
what `ClockStepped` did to the wall clock since, in `skew`. `BuildReport` is the
second half of `_collect_activity`, `Reply` the answer. One tick is the unit of
`UserThreshold`.

### State and actions of IdleWatch and IdleShutdown

`IdleWatch` keeps of the broker what matters at the other end of its two calls:
`watch` is the call it awaits, `since` how long, `allowed` whether the last answer was
a report that would let it shut down, `command` the `POST /shutdown`. An answer may
be disregarded whatever it says (another signal is busy, the row is not complete, the
retrigger guard holds); `Commands` is the only way to a shutdown, and it needs the
answer just received. `Broker` maps to it by `loop`, `waited`, the report it keeps and
its `idle_tick` call; a poll, a chat, a pin and a wake stutter.

`IdleShutdown` adds one variable, `query`: the `GET /activity` the broker awaits (sent,
served by a handler, or an answer under way). `Serve` is the handler beginning, `Answer`
its reply, which goes to nobody when the broker has given up (`GiveUpQuery`) or died
(`BrokerDies`), and may be lost. `Receive` is the broker acting on an answer. Every
action is one of the agent, one of the watch, or one of each, and `OneTick` ages both.
The broker is the only client of `/activity`. A command the broker gave up on, or sent
just before it died, is taken not to be run later: the agent runs it at once or never.
`do_POST` itself does not check that its client is still there, so `OwnerNotCutOff` rests
on this; `Broker` takes the same view (`TriggerReturns`, `Restart`), and `LateComersOnly`
speaks of a command only while the broker awaits it.

### State and actions of GpuCache

`at` and `value` are the two entries of `_gpu_cache`, kept as the age of the stamp
and the age of the reading: what a reading says does not matter, only how old it is.
`now` and `read` are a handler's locals, `pc` where it stands between two accesses of
the dictionary. Both ages of the cache stop growing beyond the limits they are
compared with. `uptime` is the monotonic clock up to `Ttl`, as the stamp of an empty
cache is 0.0, the moment of boot. A handler waits for `nvidia-smi` at most `MaxQuery`;
between two statements no time passes, but any other handler may run.

### State and actions of WebUi

`refresh[r]` is a call of `refreshStatus` with the await it is at and what the
answer holds: `StatusAnswered` is the broker serving the request, `StatusApplied`
the page resuming with it, and anything may happen in between, another call's answer
included. `chat` is the await of `sendChat`, `heard` what its locals `assistantText`
and `sawDone` say. `shown` is the argument of the last `updateChatUI`, which both
the refreshes and the chat's `finally` call; `input_disabled` and `stop_shown` are the
controls that `setStreaming` sets too. `checked` is the keep-awake box, `posting` the
toggle's POST. `BrokerMoves` lets the broker be anything at any time, `Reload` is a
new page. An abort reaches the pending `fetch` or `read` (`ChatAborted`), or the
answer was there first (`ChatAnswered`, `ChatEnds`).

## Runs

Each run passes unless its row says otherwise; bounds are those of its `.cfg`.

| Run | Checks | Bounds |
|---|---|---|
| `idle_order` | `QuietStaysIdle`, `BlurNeverIdles` | ages none, below, and above every limit; 0 or 1 chat; sessions around the threshold with every lock and null; GPU null, low, high |
| `wake` | `WakeDeadline`, `ResendCadence`, `RetriedBeforeGiveUp`, `WakeSettles`, `ImplementsWakeLife` | timeout 4 ticks, re-send 2, an await takes up to 1; idle shutdown off |
| `idle` | `TypeOK`, `LateComersOnly`, `IdleShutdownRequested`, `ImplementsIdleWatch` | idle and report interval 2 ticks, rows of 2 verdicts, retrigger guard 2, one chat, awaits up to 1 tick; wake off |
| `history` | `StatusConsistent`, `TickOwnsReady`, `NoAutoOffWhileUsed`, `PinRestartsRow` | wake on; idle and grace 2 ticks, report interval 1, rows of 2, one chat, instant awaits, broker restarts unlimited; the power-off route is unused (`UsesPowerOff`) |
| `proxy` | `StreamCount`, `ImplementsBroker` | two chats (symmetric) and one listing |
| `idle_shutdown` | `OwnerNotOverlooked`, `OwnerNotCutOff` | one account; threshold 2 ticks; file age, request, clock step and each call of the broker up to 1; the tick counter wraps at 3, idle times grow to 4 and times at work to 5 |
| `gpu_cache` | `CachedIsRecent` | three handlers (symmetric), lifetime 3 ticks, a query up to 2 |
| `web_ui` | `HistoryAlternates`, `ControlsAgree`, `PageConverges`, `ModelsOffered`, `LateAnswersPass` | states waking and ready (one for each polling interval), one model, two refreshes in flight, one prompt and its answer, unlimited reloads |
| `null_gpu` (violated) | `NullGpuNeverIdles` | as `idle_order` |
| `unknown_lock` (violated) | `UnknownLockIsInUse` | as `idle_order` |
| `silent_chat` (violated) | `UnusedPcPowersOff` | one chat |
| `stranger` (violated) | `NobodyOverlooked` | two accounts, threshold 2 ticks, instant requests, no clock steps |

Why the bounds are enough. In the runs of `Broker` limits are one or two ticks apart and
time goes on by one, so that an age reaches the value below each limit, the limit and
the one above; the cached ages lose nothing, as no comparison tells larger ones apart.
`idle_order` jumps over the limits instead: it is about the direction of each comparison,
which its two orders judge; a limit waited for one tick too short shows in
`NoAutoOffWhileUsed`, and one a tick too long only delays a shutdown. A row of two
verdicts is the shortest in which a strike can be carried over. One chat is
enough for a late-comer, two for the count. `wake` has the idle shutdown disabled and
`idle` the wake, so that each can have slow awaits; `history` has both, and power-on
comes between any two steps of the poll there, with awaits that take no time. It is where
`StatusConsistent` and `TickOwnsReady` are checked; their proofs have both.
In `idle_shutdown` a threshold of 2 lets someone be at work across a tick, and the
counter wraps below the longest idle time; `OwnerNotCutOff` with a bound one tick lower
is violated there, so each of the delays it adds up does happen. Of the broker's settings
in its `.cfg` only the threshold is read. In `gpu_cache` three handlers allow one to be between its two
writes while a second stores and a third reads, and the query is shorter than the
lifetime as in the code (5 s against 10 s). In `web_ui` two refreshes in flight are
enough to be answered in either order (one more finds no slot, as if its answer was
lost); a second prompt appends to a regular history what the first did, which the
proof of `HistoryAlternates` shows for any number. The proofs have none of these bounds, nor the caps on the values.

`TimeToResend` (the wake timeout leaves time for a second packet) and
`GuardOutlastsCall` (the retrigger guard outlasts the agent call) are assumptions on the
settings. The defaults meet them: 300 s against 30 s; 300 s against 10 s. The others are
about the models' own bounds: `HorizonIsFar` (the caps on the ages lie beyond the limits),
`MemoryOutlastsLag` and `MemoryOutlastsReach` (times at work are counted beyond the bound
they are compared with); `AgentConstants` says that idle times are counted at least up to
the threshold, `WatchConstants` that a call has a timeout. Nothing is assumed of the grace
of a wake: `NoAutoOffWhileUsed` holds whatever it is. With a grace longer than the idle
limit a restarted broker may power the PC off within the grace of a wake it has forgotten,
but never within the idle limit of it.

### What the violated runs show

* `null_gpu`: a GPU reading that turns null (nvidia-smi missing or timing out)
  passes as a quiet GPU, where the agent's contract says null means active.
* `unknown_lock`: a session of unknown lock state is judged by its idle time
  alone, where the docstring counts it as in use.
* `silent_chat`: a PC that loses power in a chat whose client leaves before
  the first byte leaves `active_llm_streams` raised for good, and the PC is never
  shut down again until the broker restarts.
* `stranger`: the owner is switched out, someone else works at the console. The
  reporter in the owner's session goes on writing the owner's idle time, and the
  agent fills it in for the console: the report lets the broker shut the PC down.
  The file names its user, but nothing compares it. `OwnerNotOverlooked`, proved,
  is what holds: the owner is overlooked only for the age of the file, the step of
  the clock and the time of the request.

### Fairness

`Spec` has weak fairness on the poll loop's steps and on the clock. Every await of the
loop has a timeout (3 s, `ollama_health_timeout`, 10 s, 10 s); httpx applies its own to
each operation of a call (connect, write, read), so the whole may take some multiple of
it, which `MaxAwait` stands for. A peer that trickles an answer for ever would hold
the loop; that is left out. Nothing is assumed of the operator, of the PC, of chats' clients or of a restart. `PFairSpec`
adds weak fairness of each chat's progress, which a silent connection disables:
`read=None` gives it no timeout.

`USpec` has weak fairness on the two intervals (a page that is open polls every 15 s
or 5 s) and on each refresh that waits for an answer or for its turn: the broker
serves the two routes in bounded time and the page's event loop runs what is ready.
Nothing is assumed of the user, of the toggle, of a chat or of the broker's state.
`PageConverges` and `ModelsOffered` speak of the executions in which, from some time
on, the broker stays as it is, the user leaves the pin alone, the page is not
reloaded and no answer is lost (`Quiet`); without the last, a page offline for ever
would have to know the truth.

`IdleShutdownRequested` and `UnusedPcPowersOff` except a row of strikes that is
broken again and again from outside (a pin toggled, a broker restarted).

## Proofs

TLAPS proves, for every value of the constants that meets the assumptions:

* `IdleOrderProofs`: `QuietStaysIdle` and `BlurNeverIdles`, from two lemmas on
  one session, two on a report, two on the verdict, and the type invariant.
* `BrokerProofs`: `TypeOK`; `StatusConsistent` and `TickOwnsReady` from
  `StatusInv`, which adds that the locals of `_refresh` are what their await
  implies (an Ollama that is up needs a PC that is up); `WakeDeadline`,
  `ResendCadence` and `RetriedBeforeGiveUp` from `WakeInv`, which bounds both
  stamps by `Slack`, the time since the lock section was last there, and needs
  `HorizonIsFar` (a capped age would stop counting) and `TimeToResend`;
  `LateComersOnly` from `TriggerInv`, which bounds the age of the trigger by the
  time spent in the agent call and needs `GuardOutlastsCall`; `ImplementsWakeLife`
  step by step from `StatusInv` and `WakeInv`: the give-up is allowed because the
  cadence leaves no room for it before a second packet (`RetriedWhenTimedOut`), and a
  tick keeps the order of the two stamps because neither has reached the horizon;
  `ImplementsIdleWatch` from the type invariant, as a verdict for a
  shutdown needs a report that allows one (`VerdictNeedsReport`).
* `BrokerHistoryProofs`: `HSpec` implements `SafeSpec`, so the broker's type invariant
  holds of it. `NoAutoOffWhileUsed` from `UsedInv`: the broker remembers a use (the stamp
  of the wake or of the chat is no older), or it was restarted since and has been ready
  for no longer than the use is ago, so that one of the three instants the verdict takes
  the maximum of holds it back. `PinRestartsRow` from `RowInv`: a row of k verdicts has
  taken k - 1 report intervals and the age of its last report since the pin was touched.
* `ChatProxyProofs`: `StreamCount`, from the lemma that a chat's stage changes
  the size of the set in flight by at most one; `ImplementsBroker` (the
  refinement, under the identity mapping) from the count; and, with both, the broker's
  invariants of the composed system, the two abstract specifications `Broker` implements
  and the attempts a wake gets.

* `ActivityProofs`: `ActivityTypeOK` and `OwnerNotOverlooked`. The property alone is
  not inductive: a report is built from an entry and a file of earlier moments.
  `OwnerInv` adds one statement for each place where an old fact waits: whoever is
  away has been at work for 0 ticks (`PresenceInv`); a file that says idle is at
  least as old as the owner's return (`FileInv`); so is an entry that says away,
  measured by the time of the request (`EntryInv`), and so is the report, with the
  age a fresh file may have (`ReportInv`). `WrapsLow` shows that the modular
  difference never exceeds the true idle time, `FreshIsYoung` that a clock set back
  hides at most `MaxSkew`.
* `IdleShutdownProofs`: that the composition is an `ActivityAgent` and an `IdleWatch`, each
  by its own specification (`PartsTheorem`), so that `OwnerNotOverlooked` and both type
  invariants are inherited; and `OwnerNotCutOff`. Its invariant `WayInv` follows the fact
  "the owner was away" on its way to the command, with what it may have aged: no call is
  out without a watch that asks (`AskInv`); the request of an awaited query has waited no
  longer than the query (`RequestInv`); an answer that allows a shutdown is true of the
  owner up to the age of the file, the clock step and the time of the query (`AnswerInv`); a command up
  to that and the time of its own call (`CommandInv`). A request counts for the query
  only while that is awaited, so `MaxQuery` drops out: the two timeouts are the bound.
* `GpuCacheProofs`: `CachedIsRecent`, for any number of handlers. The invariant says of
  every handler at once how old its `now` and its reading may be, and of the cache that
  unless somebody is between the two writes, stamp and value are at most a query apart.
* `WebUiProofs`: the page's type invariant (`UiTypeCorrect`), `HistoryAlternates` and
  `ControlsAgree`, for any number of refreshes in flight and of turns; and
  `LateAnswersPass`, the safety half of `PageConverges`, from the type invariant: what each
  step does to the one call it moves (`Renders`), and to a page that shows the truth.

Only model-checked: the liveness properties (`WakeSettles`, `IdleShutdownRequested`,
`PageConverges`, `ModelsOffered`), as fairness and ENABLED are out of the prover's
reach. The modules use no recursion.

## What is left out

Display strings (`last_seen`, `last_wake_request`, `reason`, logs, event
messages), the bytes of the packet and of chunks, the sanitising of options, the
token checks and the body limit: no decision of the modelled state reads them. At
most one `POST /api/power/off` and one `GET /api/llm/models` are in flight at a
time. A model list is `empty` or `some` in `Broker`, a set in `WebUi`. `ActivityAgent`
serves one `/activity` request at a time, and its GPU reading is any value; the cache
that handler threads share is `GpuCache`. `WebUi` has idle shutdown enabled, as there
is no keep-awake box without it, and one toggle in flight.

Not modelled: the event log (`app/events.py`). Every writer appends in the same step
as the change it reports, nothing reads the log to decide, and that it is bounded and
newest first is what `deque(maxlen=200)` with `appendleft` is. Installers, workflows,
template and styles have no run-time behaviour.

Observations no run states. A model listing that returns after the poll
found the PC gone leaves `models` filled in an offline status, until the next poll
clears it. `POST /api/power/on` restamps the wake on every
press, so pressing it keeps a dead wake alive (the README calls it idempotent). The
`error` state (`app/state.py:12`) is never set. Power-on answers "packet sent"
when it found the PC awake and sent none. While waking, a PC that accepts a
power-off before the poll saw it up is sent another packet by the re-send, which may
start it again. A chat accepted between the idle verdict and the agent's 202 is cut off
by the shutdown (`LateComersOnly`, proved, is what holds: only chats that came after
the verdict are). A status change during a chat enables the input again; Enter then
does nothing, as `sendChat` looks at `currentAbort` (`SendWhenEnabled` is the mutant
without that guard). A page that has loaded a model list never loads another, so it
offers the old one when the PC returns with other models. For the first ten seconds
after boot the agent reports a null GPU load from its empty cache.

## Plan

Done: 1 `IdlePolicy`, `IdleOrder`; 2 `Broker`; 3 `BrokerHistory`; 4 `ChatProxy` with
the refinement; 5 `ActivityAgent`; 6 `GpuCache`; 7 `WebUi`; 8 `WakeLife` with the
refinement; 9 `IdleWatch` with the refinement and `IdleShutdown`; and the proofs of all
of them.

Left:

10. The idle countdown the page shows (`llm_idle_seconds`, `updateIdleUI`) against the
   verdict that ends it, across a page that is late.
