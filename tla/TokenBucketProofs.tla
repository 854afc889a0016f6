------------------------- MODULE TokenBucketProofs -------------------------
(***************************************************************************)
(* Proofs about TokenBucket, for any numbers of keys, goroutines and       *)
(* entries and any rate, burst and ttl.                                    *)
(***************************************************************************)
EXTENDS TokenBucket, TLAPS

\* No entry serves two keys.
Injective ==
  \A j, k \in Keys : j # k /\ entries[j] # Nil => entries[j] # entries[k]

\* An Allow uses the entry of its key, unless an eviction took it away, ...
HoldsCurrent ==
  \A t \in Threads : Holding(t) /\ key[t] \notin lossy => held[t] = entries[key[t]]

\* ... and never the entry of another key.
HoldsNoOther ==
  \A t \in Threads, k \in Keys : Holding(t) /\ k # key[t] => held[t] # entries[k]

\* The bucket of a key that lost nothing holds what the ideal bucket holds.
IdealMatches ==
  \A k \in Keys \ lossy :
    ideal[k] = IF entries[k] = Nil THEN Burst ELSE tokens[entries[k]]

Visited(k) == k \notin todo /\ ~(sweep = "delete" /\ victim = k)

\* The sweep so far has left no stale entry among the keys it has visited.
SweptSoFar ==
  /\ cutoff <= now
  /\ sweep \in {"select", "exited"} => todo = {}
  /\ \A k \in Keys :
       Visited(k) /\ KeyStale(k) => \E t \in Threads : pc[t] = "touch" /\ held[t] = entries[k]

IInv == TypeOK /\ Injective /\ HoldsCurrent /\ HoldsNoOther /\ IdealMatches /\ SweptSoFar
-----------------------------------------------------------------------------
\* A bucket that is refilled holds between 0 and Burst tokens, and a full one
\* stays full.
LEMMA RefillBounds ==
  /\ \A n \in 0..Burst : Refill(n) \in 0..Burst
  /\ \A n \in Int : Refill(n) \in Int
  /\ Refill(Burst) = Burst
BY TokenBucketAssumption DEF Refill

\* The limiter as NewTokenBucketLimiter returns it satisfies the invariant.
LEMMA InitIInv == Init => IInv
<1> SUFFICES ASSUME Init PROVE IInv
  OBVIOUS
<1>1. TypeOK
  <2>1. cutoff \in Int
    BY TokenBucketAssumption DEF Init
  <2>2. tokens \in [Entries -> 0..Burst] /\ ideal \in [Keys -> Int]
    BY TokenBucketAssumption DEF Init
  <2>3. tick \in BOOLEAN /\ stopOnce \in BOOLEAN /\ stopCh \in BOOLEAN
    BY DEF Init
  <2> QED
    BY <2>1, <2>2, <2>3, TokenBucketAssumption DEF Init, TypeOK, Holding
<1>2. Injective /\ HoldsCurrent /\ HoldsNoOther
  BY DEF Init, Injective, HoldsCurrent, HoldsNoOther, Holding
<1>3. IdealMatches
  BY DEF Init, IdealMatches
<1>4. SweptSoFar
  BY TokenBucketAssumption DEF Init, SweptSoFar, KeyStale
<1> QED
  BY <1>1, <1>2, <1>3, <1>4 DEF IInv
-----------------------------------------------------------------------------
\* The clock: tokens and the ideal buckets are refilled alike.
LEMMA TickIInv == IInv /\ Tick => IInv'
<1> SUFFICES ASSUME IInv, Tick PROVE IInv'
  OBVIOUS
<1> USE TokenBucketAssumption DEF IInv
<1>1. TypeOK'
  BY RefillBounds DEF TypeOK, Tick, Holding, allowVars, stopVars
<1>2. Injective' /\ HoldsCurrent' /\ HoldsNoOther'
  BY DEF Tick, Injective, HoldsCurrent, HoldsNoOther, Holding, allowVars
<1>3. IdealMatches'
  BY RefillBounds DEF IdealMatches, Tick, TypeOK
<1>4. SweptSoFar'
  BY DEF SweptSoFar, Tick, TypeOK, Visited, KeyStale, Stale, allowVars
<1> QED
  BY <1>1, <1>2, <1>3, <1>4

\* Calling Allow changes nothing shared.
LEMMA CallAllowIInv ==
  ASSUME NEW t \in Threads, NEW k \in Keys, IInv, CallAllow(t, k)
  PROVE  IInv'
<1> USE DEF IInv, TypeOK, CallAllow, Holding, evictVars, stopVars
<1>1. TypeOK'
  OBVIOUS
<1>2. Injective' /\ HoldsCurrent' /\ HoldsNoOther'
  BY DEF Injective, HoldsCurrent, HoldsNoOther
<1>3. IdealMatches'
  BY DEF IdealMatches
<1>4. SweptSoFar'
  BY DEF SweptSoFar, Visited, KeyStale, Stale
<1> QED
  BY <1>1, <1>2, <1>3, <1>4

\* The first look of getOrCreate: a hit is the entry of this key and, entries
\* being distinct, of no other.
LEMMA LoadIInv ==
  ASSUME NEW t \in Threads, IInv, Load(t)
  PROVE  IInv'
<1> USE DEF IInv, TypeOK, Load, Holding, evictVars, stopVars
<1>1. TypeOK'
  OBVIOUS
<1>2. Injective'
  BY DEF Injective
<1>3. HoldsCurrent'
  BY DEF HoldsCurrent
<1>4. HoldsNoOther'
  BY DEF HoldsNoOther, Injective
<1>5. IdealMatches'
  BY DEF IdealMatches
<1>6. SweptSoFar'
  BY DEF SweptSoFar, Visited, KeyStale, Stale
<1> QED
  BY <1>1, <1>2, <1>3, <1>4, <1>5, <1>6

\* LoadOrStore: whoever stores first decides the entry, the others adopt it;
\* the entry stored is new, so no other key or goroutine refers to it.
LEMMA LoadOrStoreIInv ==
  ASSUME NEW t \in Threads, IInv, LoadOrStore(t)
  PROVE  IInv'
<1> USE TokenBucketAssumption DEF IInv, Holding, evictVars, stopVars
<1>1. CASE entries[key[t]] # Nil
  <2> USE <1>1 DEF LoadOrStore, TypeOK
  <2>0. UNCHANGED <<now, entries, lastSeen, tokens, key, evictVars, stopVars, ideal, lossy>>
        /\ held' = [held EXCEPT ![t] = entries[key[t]]]
        /\ pc[t] = "store" /\ pc' = [pc EXCEPT ![t] = "touch"]
        /\ made' = [made EXCEPT ![t] = 0]
    OBVIOUS
  <2> HIDE DEF LoadOrStore
  <2>1. TypeOK'
    BY <2>0
  <2>2. Injective' /\ HoldsCurrent' /\ HoldsNoOther'
    BY <2>0 DEF HoldsNoOther, Injective, HoldsCurrent
  <2>3. IdealMatches'
    BY <2>0 DEF IdealMatches
  <2>4. SweptSoFar'
    BY <2>0 DEF SweptSoFar, Visited, KeyStale, Stale
  <2> QED
    BY <2>1, <2>2, <2>3, <2>4
<1>2. CASE entries[key[t]] = Nil
  <2>1. PICK e \in Free :
          /\ entries' = [entries EXCEPT ![key[t]] = e]
          /\ lastSeen' = [lastSeen EXCEPT ![e] = made[t]]
          /\ tokens' = [tokens EXCEPT ![e] = Burst]
          /\ held' = [held EXCEPT ![t] = e]
    BY <1>2 DEF LoadOrStore
  <2>2. /\ pc[t] = "store" /\ pc' = [pc EXCEPT ![t] = "touch"]
        /\ made' = [made EXCEPT ![t] = 0]
        /\ UNCHANGED <<now, key, evictVars, stopVars, ideal, lossy>>
    BY DEF LoadOrStore
  <2>3. /\ e \in Entries /\ e # Nil
        /\ \A k \in Keys : entries[k] # e
        /\ \A u \in Threads : Holding(u) => held[u] # e
    BY <2>1 DEF Free
  <2>4. key[t] \in Keys
    BY <2>2 DEF TypeOK
  <2>5. TypeOK'
    BY <1>2, <2>1, <2>2, <2>3, <2>4 DEF TypeOK
  <2>6. Injective' /\ HoldsNoOther'
    BY <2>1, <2>2, <2>3, <2>4 DEF TypeOK, HoldsNoOther, Injective
  <2>7. HoldsCurrent'
    BY <1>2, <2>1, <2>2, <2>3, <2>4 DEF TypeOK, HoldsCurrent
  <2>8. IdealMatches'
    BY <1>2, <2>1, <2>2, <2>3, <2>4 DEF TypeOK, IdealMatches
  <2>9. SweptSoFar'
    BY <1>2, <2>1, <2>2, <2>3, <2>4 DEF TypeOK, SweptSoFar, Visited, KeyStale, Stale
  <2> QED
    BY <2>5, <2>6, <2>7, <2>8, <2>9
<1> QED
  BY <1>1, <1>2

\* A touch makes the entry fresh: the cutoff is never in the future.
LEMMA TouchIInv ==
  ASSUME NEW t \in Threads, IInv, Touch(t)
  PROVE  IInv'
<1> USE TokenBucketAssumption DEF IInv, TypeOK, Touch, Holding, evictVars, stopVars
<1>1. TypeOK'
  OBVIOUS
<1>2. Injective' /\ HoldsCurrent' /\ HoldsNoOther'
  BY DEF Injective, HoldsCurrent, HoldsNoOther
<1>3. IdealMatches'
  BY DEF IdealMatches
<1>4. SweptSoFar'
  BY DEF SweptSoFar, Visited, KeyStale, Stale
<1> QED
  BY <1>1, <1>2, <1>3, <1>4

\* A token taken is taken from the bucket of the caller's key alone.
LEMMA TakeIInv ==
  ASSUME NEW t \in Threads, IInv, Take(t)
  PROVE  IInv'
<1> USE TokenBucketAssumption DEF IInv, Holding, evictVars, stopVars
<1>0. /\ pc[t] = "take" /\ key[t] \in Keys /\ held[t] \in Entries
      /\ pc' = [pc EXCEPT ![t] = "idle"]
      /\ held' = [held EXCEPT ![t] = Nil] /\ key' = [key EXCEPT ![t] = Nil]
      /\ UNCHANGED <<now, entries, lastSeen, made, evictVars, stopVars, lossy>>
  BY DEF Take, TypeOK
<1>1. TypeOK'
  BY <1>0 DEF Take, TypeOK
<1>2. Injective' /\ HoldsCurrent' /\ HoldsNoOther'
  BY <1>0 DEF TypeOK, Injective, HoldsCurrent, HoldsNoOther
<1>3. IdealMatches'
  BY <1>0 DEF Take, TypeOK, IdealMatches, HoldsCurrent, HoldsNoOther
<1>4. SweptSoFar'
  BY <1>0 DEF TypeOK, SweptSoFar, Visited, KeyStale, Stale
<1> QED
  BY <1>1, <1>2, <1>3, <1>4
-----------------------------------------------------------------------------
\* The steps of cleanupLoop that only read.
LEMMA SweepIInv == IInv /\ (SelectStop \/ SelectTick \/ RangeVisit \/ RangeEnd) => IInv'
<1> SUFFICES ASSUME IInv, SelectStop \/ SelectTick \/ RangeVisit \/ RangeEnd PROVE IInv'
  OBVIOUS
<1> USE TokenBucketAssumption
    DEF IInv, SelectStop, SelectTick, RangeVisit, RangeEnd, allowVars, stopVars
<1>0. UNCHANGED <<now, entries, lastSeen, tokens, pc, key, made, held, stopOnce, stopCh, ideal, lossy>>
  OBVIOUS
<1>1. TypeOK'
  <2>1. cutoff' \in Int /\ todo' \subseteq Keys
    BY <1>0 DEF TypeOK
  <2>2. tick' \in BOOLEAN /\ sweep' \in {"select", "range", "delete", "exited"}
    BY DEF TypeOK
  <2>3. /\ victim' \in Keys \cup {Nil}
        /\ sweep' = "delete" => victim' \in Keys /\ entries[victim'] \in Entries
    BY DEF TypeOK, KeyStale
  <2> QED
    BY <1>0, <2>1, <2>2, <2>3 DEF TypeOK, Holding
<1>2. Injective' /\ HoldsCurrent' /\ HoldsNoOther' /\ IdealMatches'
  BY <1>0 DEF Injective, HoldsCurrent, HoldsNoOther, Holding, IdealMatches
<1>3. SweptSoFar'
  BY <1>0 DEF TypeOK, SweptSoFar, Visited, KeyStale, Stale
<1> QED
  BY <1>1, <1>2, <1>3

\* Deleting a bucket that is full and unused loses nothing; deleting any other
\* is what lossy records.
LEMMA DeleteIInv == IInv /\ Delete => IInv'
<1> SUFFICES ASSUME IInv, Delete PROVE IInv'
  OBVIOUS
<1> USE TokenBucketAssumption DEF IInv, Holding, allowVars, stopVars
<1>0. /\ sweep = "delete" /\ victim \in Keys /\ entries[victim] \in Entries
      /\ entries' = [entries EXCEPT ![victim] = Nil]
      /\ sweep' = "range" /\ victim' = Nil
      /\ lossy \subseteq lossy' /\ lossy' \subseteq lossy \cup {victim}
      /\ UNCHANGED <<now, lastSeen, tokens, pc, key, made, held, tick, cutoff, todo,
                     stopOnce, stopCh, ideal>>
  BY DEF Delete, TypeOK
<1>1. victim \notin lossy' =>
        /\ tokens[entries[victim]] = Burst
        /\ \A t \in Threads : Holding(t) => held[t] # entries[victim]
  BY <1>0 DEF Delete, TypeOK, InUse
<1>2. TypeOK'
  BY <1>0 DEF TypeOK
<1>3. Injective'
  BY <1>0 DEF TypeOK, Injective
<1>4. HoldsCurrent'
  BY <1>0, <1>1 DEF TypeOK, HoldsCurrent
<1>5. HoldsNoOther'
  BY <1>0 DEF TypeOK, HoldsNoOther
<1>6. IdealMatches'
  BY <1>0, <1>1 DEF TypeOK, IdealMatches
<1>7. SweptSoFar'
  BY <1>0 DEF TypeOK, SweptSoFar, Visited, KeyStale, Stale
<1> QED
  BY <1>2, <1>3, <1>4, <1>5, <1>6, <1>7

\* Stop only touches the channel.
LEMMA StopIInv == IInv /\ Stop => IInv'
<1> SUFFICES ASSUME IInv, Stop PROVE IInv'
  OBVIOUS
<1> USE DEF IInv, Stop, allowVars, evictVars
<1>1. TypeOK'
  BY DEF TypeOK, Holding
<1>2. Injective' /\ HoldsCurrent' /\ HoldsNoOther' /\ IdealMatches'
  BY DEF Injective, HoldsCurrent, HoldsNoOther, Holding, IdealMatches
<1>3. SweptSoFar'
  BY DEF SweptSoFar, Visited, KeyStale, Stale
<1> QED
  BY <1>1, <1>2, <1>3

\* Every step of the limiter keeps the invariant.
LEMMA NextIInv == IInv /\ [Next]_vars => IInv'
<1> SUFFICES ASSUME IInv, [Next]_vars PROVE IInv'
  OBVIOUS
<1>1. CASE \E t \in Threads : (\E k \in Keys : CallAllow(t, k)) \/ Allow(t)
  BY <1>1, CallAllowIInv, LoadIInv, LoadOrStoreIInv, TouchIInv, TakeIInv DEF Allow
<1>2. CASE UNCHANGED vars
  BY <1>2 DEF IInv, TypeOK, Injective, HoldsCurrent, HoldsNoOther, IdealMatches, SweptSoFar,
              Visited, KeyStale, Stale, Holding, vars, allowVars, evictVars, stopVars
<1> QED
  BY <1>1, <1>2, TickIInv, SweepIInv, DeleteIInv, StopIInv DEF Next, EvictStale
-----------------------------------------------------------------------------
\* The invariant holds in every state the limiter reaches.
THEOREM LimiterInvariant == Spec => []IInv
BY InitIInv, NextIInv, PTL DEF Spec

\* The limiter's state has its types: in particular an Allow past getOrCreate
\* always has an entry, and a bucket never goes below zero or above Burst.
THEOREM TypeCorrect == Spec => []TypeOK
<1>1. IInv => TypeOK
  BY DEF IInv
<1> QED
  BY <1>1, LimiterInvariant, PTL

\* A key whose bucket was never lost to an eviction gets at most what one
\* bucket of its own gives, whatever races in getOrCreate.
THEOREM NoOverdraw == Spec => []OverdrawnOnlyByLossyEviction
<1>1. ASSUME IInv, NEW k \in Keys \ lossy PROVE ideal[k] >= 0
  <2>1. CASE entries[k] = Nil
    BY <1>1, <2>1, TokenBucketAssumption DEF IInv, IdealMatches
  <2>2. CASE entries[k] # Nil
    <3>1. entries[k] \in Entries /\ tokens[entries[k]] \in 0..Burst
      BY <1>1, <2>2 DEF IInv, TypeOK
    <3> QED
      BY <1>1, <2>2, <3>1, TokenBucketAssumption DEF IInv, IdealMatches
  <2> QED
    BY <2>1, <2>2
<1>2. IInv => OverdrawnOnlyByLossyEviction
  BY <1>1 DEF OverdrawnOnlyByLossyEviction
<1> QED
  BY <1>2, LimiterInvariant, PTL

\* Concurrent requests of a key share its bucket, and keys never share one.
THEOREM OneBucketPerKey == Spec => []BucketShared
<1>1. IInv => BucketShared
  BY DEF IInv, BucketShared, HoldsCurrent, Injective
<1> QED
  BY <1>1, LimiterInvariant, PTL

\* A sweep that has ended has removed every stale bucket.
THEOREM SweepLeavesNoneStale == Spec => []SweepComplete
<1>1. IInv => SweepComplete
  BY DEF IInv, SweptSoFar, SweepComplete, Visited
<1> QED
  BY <1>1, LimiterInvariant, PTL
=============================================================================
