---------------------------- MODULE TokenBucket ----------------------------
(***************************************************************************)
(* ratelimit.TokenBucketLimiter: goroutines calling Allow on a shared      *)
(* sync.Map of buckets, the cleanup goroutine that sweeps stale buckets    *)
(* every Interval, and Stop.  sync.Map's Load, LoadOrStore and Delete are  *)
(* atomic and so is rate.Limiter.Allow; everything between them            *)
(* interleaves.  Time is counted in ticks, the rate in tokens per tick.    *)
(***************************************************************************)
EXTENDS Integers

CONSTANTS
  Keys,      \* the callers being limited
  Threads,   \* goroutines that call Allow
  Entries,   \* addresses for *entry objects
  Nil,       \* nil: no entry, no key
  Rate,      \* l.rate
  Burst,     \* l.burst
  Ttl,       \* l.ttl: 10 minutes
  Interval,  \* of the cleanup ticker: 5 minutes
  AllowMayStall, \* whether the clock runs while an Allow is under way
  MaxTime    \* bound: the clock stops here

ASSUME TokenBucketAssumption ==
  /\ Nil \notin Entries \cup Keys
  /\ Rate \in Nat /\ Burst \in Nat
  /\ Ttl \in Nat /\ Interval \in Nat \ {0}
  /\ AllowMayStall \in BOOLEAN
  /\ MaxTime \in Nat

VARIABLES
  now,       \* time.Now()
  entries,   \* l.entries: the entry of each key, or Nil
  lastSeen,  \* e.lastSeen
  tokens,    \* what e.limiter holds
  pc,        \* where each Allow is
  key,       \* its argument
  made,      \* when it made the entry it is about to store
  held,      \* the entry getOrCreate gave it
  tick,      \* ticker.C holds a tick
  sweep,     \* where cleanupLoop is: "select", "range", "delete", "exited"
  cutoff,    \* of the current or the last evictStale
  todo,      \* keys Range has not visited
  victim,    \* the key found stale
  stopOnce,  \* Stop has been called
  stopCh,    \* stopCh is closed
  ideal,     \* history: tokens of a bucket per key that is never evicted
  lossy      \* history: keys evicted with a bucket not full or still in use

allowVars == <<pc, key, made, held>>
evictVars == <<tick, sweep, cutoff, todo, victim>>
stopVars == <<stopOnce, stopCh>>
vars == <<now, entries, lastSeen, tokens, allowVars, evictVars, stopVars, ideal, lossy>>

Holding(t) == pc[t] \in {"touch", "take"}

\* Addresses no goroutine and no key refers to.
Free == {e \in Entries : /\ \A k \in Keys : entries[k] # e
                         /\ \A t \in Threads : Holding(t) => held[t] # e}
-----------------------------------------------------------------------------
\* NewTokenBucketLimiter
Init ==
  /\ now = 0
  /\ entries = [k \in Keys |-> Nil]
  /\ lastSeen = [e \in Entries |-> 0]
  /\ tokens = [e \in Entries |-> Burst]
  /\ pc = [t \in Threads |-> "idle"]
  /\ key = [t \in Threads |-> Nil]
  /\ made = [t \in Threads |-> 0]
  /\ held = [t \in Threads |-> Nil]
  /\ tick = FALSE
  /\ sweep = "select" /\ cutoff = -Ttl /\ todo = {} /\ victim = Nil
  /\ stopOnce = FALSE /\ stopCh = FALSE
  /\ ideal = [k \in Keys |-> Burst]
  /\ lossy = {}

Refill(n) == IF n + Rate > Burst THEN Burst ELSE n + Rate

\* The clock: buckets refill, and the ticker, whose channel holds one tick,
\* fires every Interval.
Tick ==
  /\ now < MaxTime
  /\ AllowMayStall \/ \A t \in Threads : pc[t] = "idle"
  /\ now' = now + 1
  /\ tokens' = [e \in Entries |-> Refill(tokens[e])]
  /\ ideal' = [k \in Keys |-> Refill(ideal[k])]
  /\ tick' = (tick \/ (now + 1) % Interval = 0)
  /\ UNCHANGED <<entries, lastSeen, allowVars, sweep, cutoff, todo, victim, stopVars, lossy>>
-----------------------------------------------------------------------------
(* Allow *)

CallAllow(t, k) ==
  /\ pc[t] = "idle"
  /\ pc' = [pc EXCEPT ![t] = "load"]
  /\ key' = [key EXCEPT ![t] = k]
  /\ UNCHANGED <<now, entries, lastSeen, tokens, made, held, evictVars, stopVars, ideal, lossy>>

\* Mutant: the ok of the first Load is ignored.
LoadUnchecked(t) ==
  /\ pc[t] = "load"
  /\ pc' = [pc EXCEPT ![t] = "touch"]
  /\ held' = [held EXCEPT ![t] = entries[key[t]]]
  /\ UNCHANGED <<now, entries, lastSeen, tokens, key, made, evictVars, stopVars, ideal, lossy>>

\* getOrCreate's first look; after a miss it makes an entry seen just now.
Load(t) ==
  /\ pc[t] = "load"
  /\ \/ /\ entries[key[t]] # Nil
        /\ pc' = [pc EXCEPT ![t] = "touch"]
        /\ held' = [held EXCEPT ![t] = entries[key[t]]]
        /\ UNCHANGED made
     \/ /\ entries[key[t]] = Nil
        /\ pc' = [pc EXCEPT ![t] = "store"]
        /\ made' = [made EXCEPT ![t] = now]
        /\ UNCHANGED held
  /\ UNCHANGED <<now, entries, lastSeen, tokens, key, evictVars, stopVars, ideal, lossy>>

\* Mutant: Store instead of LoadOrStore.
StoreAlways(t) ==
  /\ pc[t] = "store"
  /\ pc' = [pc EXCEPT ![t] = "touch"]
  /\ \E e \in Free :
       /\ entries' = [entries EXCEPT ![key[t]] = e]
       /\ lastSeen' = [lastSeen EXCEPT ![e] = made[t]]
       /\ tokens' = [tokens EXCEPT ![e] = Burst]
       /\ held' = [held EXCEPT ![t] = e]
  /\ made' = [made EXCEPT ![t] = 0]
  /\ UNCHANGED <<now, key, evictVars, stopVars, ideal, lossy>>

\* LoadOrStore: the entry made after the miss is stored or thrown away.
LoadOrStore(t) ==
  /\ pc[t] = "store"
  /\ pc' = [pc EXCEPT ![t] = "touch"]
  /\ \/ /\ entries[key[t]] # Nil
        /\ held' = [held EXCEPT ![t] = entries[key[t]]]
        /\ UNCHANGED <<entries, lastSeen, tokens>>
     \/ /\ entries[key[t]] = Nil
        /\ \E e \in Free :
             /\ entries' = [entries EXCEPT ![key[t]] = e]
             /\ lastSeen' = [lastSeen EXCEPT ![e] = made[t]]
             /\ tokens' = [tokens EXCEPT ![e] = Burst]
             /\ held' = [held EXCEPT ![t] = e]
  /\ made' = [made EXCEPT ![t] = 0]
  /\ UNCHANGED <<now, key, evictVars, stopVars, ideal, lossy>>

Touch(t) ==
  /\ pc[t] = "touch"
  /\ pc' = [pc EXCEPT ![t] = "take"]
  /\ lastSeen' = [lastSeen EXCEPT ![held[t]] = now]
  /\ UNCHANGED <<now, entries, tokens, key, made, held, evictVars, stopVars, ideal, lossy>>

\* e.limiter.Allow(): true takes a token, false changes nothing.
Take(t) ==
  /\ pc[t] = "take"
  /\ pc' = [pc EXCEPT ![t] = "idle"]
  /\ \/ /\ tokens[held[t]] >= 1
        /\ tokens' = [tokens EXCEPT ![held[t]] = @ - 1]
        /\ ideal' = [ideal EXCEPT ![key[t]] = @ - 1]
     \/ /\ tokens[held[t]] < 1
        /\ UNCHANGED <<tokens, ideal>>
  /\ held' = [held EXCEPT ![t] = Nil] /\ key' = [key EXCEPT ![t] = Nil]
  /\ UNCHANGED <<now, entries, lastSeen, made, evictVars, stopVars, lossy>>
-----------------------------------------------------------------------------
(* cleanupLoop and evictStale *)

\* select picks either case when the channel is closed and a tick waits.
SelectStop ==
  /\ sweep = "select" /\ stopCh
  /\ sweep' = "exited"
  /\ UNCHANGED <<now, entries, lastSeen, tokens, allowVars, tick, cutoff, todo, victim, stopVars, ideal, lossy>>

SelectTick ==
  /\ sweep = "select" /\ tick
  /\ tick' = FALSE
  /\ cutoff' = now - Ttl
  /\ todo' = Keys
  /\ sweep' = "range"
  /\ UNCHANGED <<now, entries, lastSeen, tokens, allowVars, victim, stopVars, ideal, lossy>>

Stale(e) == lastSeen[e] < cutoff

KeyStale(k) == entries[k] # Nil /\ Stale(entries[k])

\* Range visits the keys in any order; one that is absent is skipped.
RangeVisit ==
  /\ sweep = "range"
  /\ \E k \in todo :
       /\ todo' = todo \ {k}
       /\ \/ /\ KeyStale(k)
             /\ sweep' = "delete" /\ victim' = k
          \/ /\ ~KeyStale(k)
             /\ UNCHANGED <<sweep, victim>>
  /\ UNCHANGED <<now, entries, lastSeen, tokens, allowVars, tick, cutoff, stopVars, ideal, lossy>>

RangeEnd ==
  /\ sweep = "range" /\ todo = {}
  /\ sweep' = "select"
  /\ UNCHANGED <<now, entries, lastSeen, tokens, allowVars, tick, cutoff, todo, victim, stopVars, ideal, lossy>>

InUse(e) == \E t \in Threads : Holding(t) /\ held[t] = e

\* Mutant: the callback returns false after a delete, which ends Range.
DeleteAndStop ==
  /\ sweep = "delete"
  /\ entries' = [entries EXCEPT ![victim] = Nil]
  /\ lossy' = IF InUse(entries[victim]) \/ tokens[entries[victim]] < Burst
              THEN lossy \cup {victim} ELSE lossy
  /\ sweep' = "select" /\ victim' = Nil /\ todo' = {}
  /\ UNCHANGED <<now, lastSeen, tokens, allowVars, tick, cutoff, stopVars, ideal>>

\* The entry is deleted after its lock is released: it may have been touched,
\* and its tokens taken, since it was found stale.
Delete ==
  /\ sweep = "delete"
  /\ entries' = [entries EXCEPT ![victim] = Nil]
  /\ lossy' = IF InUse(entries[victim]) \/ tokens[entries[victim]] < Burst
              THEN lossy \cup {victim} ELSE lossy
  /\ sweep' = "range" /\ victim' = Nil
  /\ UNCHANGED <<now, lastSeen, tokens, allowVars, tick, cutoff, todo, stopVars, ideal>>
-----------------------------------------------------------------------------
\* Mutant: a send nobody waits for instead of a close.
StopSends ==
  /\ stopOnce' = TRUE
  /\ stopCh' = (stopCh \/ (~stopOnce /\ sweep = "select"))
  /\ UNCHANGED <<now, entries, lastSeen, tokens, allowVars, evictVars, ideal, lossy>>

\* Safe to call again: stopOnce closes the channel once.
Stop ==
  /\ stopOnce' = TRUE
  /\ stopCh' = (stopCh \/ ~stopOnce)
  /\ UNCHANGED <<now, entries, lastSeen, tokens, allowVars, evictVars, ideal, lossy>>

Allow(t) == Load(t) \/ LoadOrStore(t) \/ Touch(t) \/ Take(t)

EvictStale == RangeVisit \/ RangeEnd \/ Delete

Next ==
  \/ Tick
  \/ \E t \in Threads : (\E k \in Keys : CallAllow(t, k)) \/ Allow(t)
  \/ SelectStop \/ SelectTick \/ EvictStale
  \/ Stop

Spec == Init /\ [][Next]_vars

\* The cleanup goroutine keeps running, and a select that finds stopCh closed
\* again and again does not pick the ticker for ever: Go chooses at random.
FairSpec == Spec /\ WF_vars(SelectTick) /\ WF_vars(EvictStale) /\ SF_vars(SelectStop)
-----------------------------------------------------------------------------
(* Properties *)

TypeOK ==
  /\ now \in 0..MaxTime
  /\ entries \in [Keys -> Entries \cup {Nil}]
  /\ lastSeen \in [Entries -> 0..MaxTime]
  /\ tokens \in [Entries -> 0..Burst]
  /\ pc \in [Threads -> {"idle", "load", "store", "touch", "take"}]
  /\ key \in [Threads -> Keys \cup {Nil}]
  /\ \A t \in Threads : pc[t] # "idle" => key[t] \in Keys
  /\ made \in [Threads -> 0..MaxTime]
  /\ held \in [Threads -> Entries \cup {Nil}]
  /\ \A t \in Threads : Holding(t) => held[t] \in Entries
  /\ tick \in BOOLEAN
  /\ sweep \in {"select", "range", "delete", "exited"}
  /\ cutoff \in Int
  /\ todo \subseteq Keys
  /\ victim \in Keys \cup {Nil}
  /\ sweep = "delete" => victim \in Keys /\ entries[victim] \in Entries
  /\ stopOnce \in BOOLEAN /\ stopCh \in BOOLEAN
  /\ ideal \in [Keys -> Int]
  /\ lossy \subseteq Keys

\* A key never gets more than a bucket of its own would give it, however many
\* first requests race in getOrCreate and however often its bucket is evicted,
\* as long as the bucket was full and in nobody's hands when it was deleted.
OverdrawnOnlyByLossyEviction ==
  \A k \in Keys \ lossy : ideal[k] >= 0

\* Two buckets never serve the same key, nor one bucket two keys, except for a
\* bucket that a lossy eviction took away from a goroutine still using it.
BucketShared ==
  /\ \A t \in Threads : Holding(t) /\ key[t] \notin lossy => held[t] = entries[key[t]]
  /\ \A j, k \in Keys : j # k /\ entries[j] # Nil => entries[j] # entries[k]

\* A finished sweep leaves no stale bucket behind: what remains was seen at or
\* after the cutoff, or was stored since by an Allow that is about to touch it.
SweepComplete ==
  sweep = "select" =>
    \A k \in Keys :
      KeyStale(k) => \E t \in Threads : pc[t] = "touch" /\ held[t] = entries[k]

\* Stop ends the cleanup goroutine, whatever it was doing when Stop was called.
CleanupExits == stopOnce ~> sweep = "exited"

\* "r: sustained requests per second", "burst: maximum burst size"
\* (tokenbucket.go): a key never gets more than one such bucket gives.
WithinRate == \A k \in Keys : ideal[k] >= 0
=============================================================================
