--------------------------- MODULE GpuCacheProofs ---------------------------
(***************************************************************************)
(* What is proved of GpuCache: for any number of handler threads, any      *)
(* lifetime and any query timeout.                                         *)
(***************************************************************************)
EXTENDS GpuCache, TLAPS

(***************************************************************************)
(* The strengthening.  A reading is never older than the now of the call   *)
(* that made it; an empty cache is stamped with the boot; and while no     *)
(* handler is between its two writes, the reading is at most one query     *)
(* older than the stamp, whichever handlers the two came from.             *)
(***************************************************************************)
ReadInv    == \A h \in Handlers : pc[h] = "result" => read[h] <= now[h]
EmptyInv   == Empty => Torn \/ at = uptime
SettledInv == ~Torn /\ ~Empty => value <= at + MaxQuery

GpuInv == GpuTypeOK /\ ReadInv /\ EmptyInv /\ SettledInv /\ CachedIsRecent

LEMMA GpuInitially == GpuInit => GpuInv
  BY GpuConstants
  DEF GpuInit, GpuInv, GpuTypeOK, Points, ReadInv, EmptyInv, SettledInv, CachedIsRecent, Empty,
      Torn, Never

LEMMA GpuStep ==
    ASSUME GpuInv, [GpuNext]_gvars
    PROVE  GpuInv'
  <1> USE GpuConstants DEF Goes, Torn, Empty, Never
  <1> USE DEF GpuInv
  <1>1. ASSUME NEW h \in Handlers, Enter(h) PROVE GpuInv'
    <2>1. GpuTypeOK' /\ ReadInv' /\ EmptyInv' /\ SettledInv'
      BY <1>1 DEF Enter, GpuTypeOK, Points, ReadInv, EmptyInv, SettledInv
    <2>2. CachedIsRecent'
      <3>1. SUFFICES ASSUME NEW g \in Handlers, pc'[g] = "hit", ~Torn'
                     PROVE  \/ value # Never /\ value < Ttl + MaxQuery
                            \/ Empty /\ uptime < Ttl
        BY <1>1 DEF Enter, CachedIsRecent
      <3>2. ~Torn
        BY <1>1, <3>1 DEF Enter, GpuTypeOK
      <3>3. CASE g = h
        BY <1>1, <3>1, <3>2, <3>3 DEF Enter, CacheFresh, GpuTypeOK, EmptyInv, SettledInv
      <3>4. CASE g # h
        BY <1>1, <3>1, <3>2, <3>4 DEF Enter, GpuTypeOK, CachedIsRecent
      <3>5. QED BY <3>3, <3>4
    <2>3. QED BY <2>1, <2>2
  <1>2. ASSUME NEW h \in Handlers, ReturnCached(h) \/ Reads(h) PROVE GpuInv'
    <2>1. GpuTypeOK' /\ ReadInv'
      BY <1>2 DEF ReturnCached, Reads, GpuTypeOK, Points, ReadInv
    <2>2. Torn' <=> Torn
      BY <1>2 DEF ReturnCached, Reads, GpuTypeOK
    <2>3. UNCHANGED <<uptime, at, value>>
      BY <1>2 DEF ReturnCached, Reads
    <2>4. EmptyInv' /\ SettledInv'
      BY <2>2, <2>3 DEF EmptyInv, SettledInv
    <2>5. CachedIsRecent'
      <3>1. \A g \in Handlers : pc'[g] = "hit" => pc[g] = "hit"
        BY <1>2 DEF ReturnCached, Reads, GpuTypeOK
      <3>2. QED BY <2>2, <2>3, <3>1 DEF CachedIsRecent
    <2>6. QED BY <2>1, <2>4, <2>5
  <1>3. ASSUME NEW h \in Handlers, Stamp(h) PROVE GpuInv'
    <2>1. Torn'
      BY <1>3 DEF Stamp, GpuTypeOK
    <2>2. ReadInv'
      BY <1>3 DEF Stamp, GpuTypeOK, ReadInv
    <2>3. GpuTypeOK'
      BY <1>3 DEF Stamp, GpuTypeOK, Points
    <2> HIDE DEF Torn
    <2>4. EmptyInv' /\ SettledInv' /\ CachedIsRecent'
      BY <2>1 DEF EmptyInv, SettledInv, CachedIsRecent
    <2>5. QED BY <2>2, <2>3, <2>4
  <1>4. ASSUME NEW h \in Handlers, Store(h) PROVE GpuInv'
    <2>1. value' = read[h] /\ at' = at /\ read[h] \in 0..MaxQuery /\ at \in 0..Ttl + MaxQuery
      BY <1>4 DEF Store, GpuTypeOK
    <2>2. GpuTypeOK' /\ ReadInv'
      BY <1>4, <2>1 DEF Store, GpuTypeOK, Points, ReadInv
    <2>3. read[h] # Never /\ read[h] <= at + MaxQuery /\ read[h] < Ttl + MaxQuery
      BY <2>1
    <2> HIDE DEF Torn
    <2>4. EmptyInv' /\ SettledInv' /\ CachedIsRecent'
      BY <2>1, <2>3 DEF EmptyInv, SettledInv, CachedIsRecent
    <2>5. QED BY <2>2, <2>4
  <1>5. CASE AgentRestarts
    BY <1>5 DEF AgentRestarts, GpuTypeOK, Points, ReadInv, EmptyInv, SettledInv, CachedIsRecent
  <1>6. CASE GpuTick
    <2>1. \A h \in Handlers : /\ now[h] \in 0..MaxQuery /\ read[h] \in 0..MaxQuery
                              /\ pc[h] \notin {"hit", "store"}
                              /\ Running(h) => now[h] < MaxQuery
      BY <1>6 DEF GpuTick, GpuTypeOK, Running
    <2>2. now' \in [Handlers -> 0..MaxQuery]
      BY <1>6, <2>1 DEF GpuTick
    <2>3. read' \in [Handlers -> 0..MaxQuery] /\ ReadInv'
      BY <1>6, <2>1 DEF GpuTick, ReadInv, Running
    <2>4. /\ uptime' \in 0..Ttl /\ at' \in 0..Ttl + MaxQuery
          /\ at' = IF at >= Ttl THEN at ELSE at + 1
          /\ at = uptime => at' = uptime'
      BY <1>6 DEF GpuTick, Older, GpuTypeOK
    <2>5. /\ value' \in {Never} \cup 0..Ttl + MaxQuery
          /\ value' = Never <=> value = Never
          /\ value # Never => value' = IF value = Ttl + MaxQuery THEN value ELSE value + 1
      BY <1>6 DEF GpuTick, Older, GpuTypeOK
    <2>6. pc' = pc /\ ~Torn /\ ~Torn'
      BY <1>6, <2>1 DEF GpuTick
    <2>7. EmptyInv' /\ SettledInv'
      BY <2>4, <2>5, <2>6 DEF EmptyInv, SettledInv, GpuTypeOK
    <2>8. CachedIsRecent'
      BY <2>1, <2>6 DEF CachedIsRecent
    <2>9. QED BY <2>2, <2>3, <2>4, <2>5, <2>6, <2>7, <2>8 DEF GpuTypeOK
  <1>7. CASE UNCHANGED gvars
    BY <1>7 DEF gvars, GpuTypeOK, ReadInv, EmptyInv, SettledInv, CachedIsRecent
  <1>8. QED BY <1>1, <1>2, <1>3, <1>4, <1>5, <1>6, <1>7 DEF GpuNext

(***************************************************************************)
(* A reading answered from the cache of _gpu_util_percent is younger than  *)
(* its lifetime and one query, in every interleaving of the handlers'      *)
(* reads and writes, but for the two exceptions CachedIsRecent names.      *)
(***************************************************************************)
THEOREM CachedIsRecentTheorem == GpuSpec => []CachedIsRecent
  <1>1. GpuInv => CachedIsRecent
    BY DEF GpuInv
  <1>2. GpuInv /\ [GpuNext]_gvars => GpuInv'
    BY GpuStep
  <1>3. QED BY <1>1, <1>2, GpuInitially, PTL DEF GpuSpec
=============================================================================
