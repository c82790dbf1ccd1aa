------------------------------ MODULE GpuCache ------------------------------
(***************************************************************************)
(* _gpu_util_percent of agent/agent.py: nvidia-smi behind a module-level   *)
(* dict that every handler thread of the ThreadingHTTPServer reads and     *)
(* writes without a lock.  What a reading says does not matter here, only  *)
(* how old it is: instants of the monotonic clock, which starts at boot,   *)
(* are kept as their ages in ticks.                                        *)
(***************************************************************************)
EXTENDS Integers

CONSTANTS
    Handlers,   \* threads in do_GET at once
    Ttl,        \* _GPU_CACHE_TTL
    MaxQuery    \* the timeout of nvidia-smi

ASSUME GpuConstants == Ttl \in Nat \ {0} /\ MaxQuery \in Nat

Never == -1     \* of the empty cache's value

VARIABLES
    uptime,     \* of the PC, up to Ttl
    at, value,  \* the ages of _gpu_cache["at"] and of the reading in _gpu_cache["value"]
    pc,         \* where each handler is
    now, read   \* its locals: the ages of now and of the reading it got

gvars == <<uptime, at, value, pc, now, read>>

(***************************************************************************)
(* idle     not in the function           query   nvidia-smi has not read  *)
(* hit      at was fresh, value not read  result  it has; awaited or back  *)
(* store    at is written, value is not                                    *)
(***************************************************************************)
Points == {"idle", "hit", "query", "result", "store"}

GpuTypeOK ==
    /\ uptime \in 0..Ttl /\ at \in 0..Ttl + MaxQuery
    /\ value \in {Never} \cup 0..Ttl + MaxQuery
    /\ pc \in [Handlers -> Points]
    /\ now \in [Handlers -> 0..MaxQuery] /\ read \in [Handlers -> 0..MaxQuery]

\* The stamp is 0.0, the moment of boot.
GpuInit ==
    /\ uptime \in 0..Ttl /\ at = uptime /\ value = Never
    /\ pc = [h \in Handlers |-> "idle"]
    /\ now = [h \in Handlers |-> 0] /\ read = [h \in Handlers |-> 0]

-----------------------------------------------------------------------------
Goes(h, point) == pc' = [pc EXCEPT ![h] = point]

\* Defect for the gpu_cache run: a reading is kept once there is one.
KeptForEver == value # Never
CacheFresh == at < Ttl

Enter(h) ==
    /\ pc[h] = "idle"
    /\ Goes(h, IF CacheFresh THEN "hit" ELSE "query")
    /\ now' = [now EXCEPT ![h] = 0]
    /\ UNCHANGED <<uptime, at, value, read>>

ReturnCached(h) ==
    /\ pc[h] = "hit"
    /\ Goes(h, "idle")
    /\ UNCHANGED <<uptime, at, value, now, read>>

\* nvidia-smi reads the load, fails or times out (a null read now).
Reads(h) ==
    /\ pc[h] = "query"
    /\ Goes(h, "result")
    /\ read' = [read EXCEPT ![h] = 0]
    /\ UNCHANGED <<uptime, at, value, now>>

Stamp(h) ==
    /\ pc[h] = "result"
    /\ Goes(h, "store")
    /\ at' = now[h]
    /\ UNCHANGED <<uptime, value, now, read>>

\* value is written, and returned.
Store(h) ==
    /\ pc[h] = "store"
    /\ Goes(h, "idle")
    /\ value' = read[h]
    /\ UNCHANGED <<uptime, at, now, read>>

AgentRestarts ==
    /\ at' = uptime /\ value' = Never
    /\ pc' = [h \in Handlers |-> "idle"]
    /\ UNCHANGED <<uptime, now, read>>

Running(h) == pc[h] \in {"query", "result"}
Older(a, cap) == IF a = Never \/ a >= cap THEN a ELSE a + 1

\* Time passes while handlers wait for nvidia-smi, at most its timeout.
GpuTick ==
    /\ \A h \in Handlers : pc[h] = "idle" \/ (Running(h) /\ now[h] < MaxQuery)
    /\ uptime' = Older(uptime, Ttl)
    /\ at' = Older(at, Ttl) /\ value' = Older(value, Ttl + MaxQuery)
    /\ now'  = [h \in Handlers |-> IF Running(h) THEN now[h] + 1 ELSE now[h]]
    /\ read' = [h \in Handlers |-> IF pc[h] = "result" THEN read[h] + 1 ELSE read[h]]
    /\ UNCHANGED pc

GpuNext ==
    \/ \E h \in Handlers : Enter(h) \/ ReturnCached(h) \/ Reads(h) \/ Stamp(h) \/ Store(h)
    \/ AgentRestarts
    \/ GpuTick

GpuSpec == GpuInit /\ [][GpuNext]_gvars

-----------------------------------------------------------------------------
Torn  == \E h \in Handlers : pc[h] = "store"
Empty == value = Never

(***************************************************************************)
(* "Cached ~10s" (agent.py:242), as far as it holds with two requests at   *)
(* once: a reading answered from the cache is younger than the lifetime    *)
(* and one query, though stamp and value may be of different handlers,     *)
(* unless another handler is between its two writes, or the PC booted less *)
(* than a lifetime ago and nothing was read yet.                           *)
(***************************************************************************)
CachedIsRecent ==
    \A h \in Handlers : pc[h] = "hit" =>
        \/ value # Never /\ value < Ttl + MaxQuery
        \/ Torn
        \/ (Empty /\ uptime < Ttl)
=============================================================================
