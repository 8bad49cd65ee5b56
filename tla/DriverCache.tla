----------------------------- MODULE DriverCache -----------------------------
(***************************************************************************)
(* pythoncomplete/api/{api,drivers}.go with collections/ordered_map.go:    *)
(* requests that get the Driver of their file from a cache and update it,  *)
(* and the two callers that reset all Drivers, API.Reset and the goroutine *)
(* that unloads everything when the API has not been used for a while.     *)
(*                                                                         *)
(* The OrderedMap is the sequence of its entries, the least recent first.  *)
(* Of a Driver this module knows whether Cleanup was called and whether    *)
(* work is in progress; module Driver has the rest.                        *)
(***************************************************************************)
EXTENDS Integers, SequencesExt

CONSTANTS
    Request,         \* calls of API.Complete and API.Edit
    Key,             \* data.UMF: user, machine and file
    cloudTTL,        \* the ttl that New chooses in the cloud
    unloadInterval,  \* of the goroutine started by New
    MaxTime          \* bound: the clock stops here

ASSUME CacheAssumption ==
    /\ cloudTTL \in Nat \ {0}
    /\ unloadInterval \in Nat /\ MaxTime \in Nat

VARIABLES
    cap,       \* umfDrivers.cap, 0 for no limit
    ttl,       \* umfDrivers.ttl, 0 for no limit
    now,       \* the clock
    cache,     \* umfDrivers.drivers
    made,      \* how many Drivers there are; they are 1..made
    stopped,   \* the Drivers on which Cleanup was called
    busy,      \* the Drivers with work in progress
    req,       \* progress and Driver of each request
    lastUsed,  \* API.lastUsed, Never for the zero time
    resetter,  \* progress of the callers of umfDrivers.Reset
    lock,      \* who holds umfDrivers.lock over several steps
    resetOn    \* the Driver whose Reset that caller waits for, 0 if none

vars == <<cap, ttl, now, cache, made, stopped, busy, req, lastUsed, resetter, lock, resetOn>>

Never     == -1
Unlocked  == "nobody"
Resetters == {"API.Reset", "unloader"}
Entry     == [key : Key, driver : Nat \ {0}, ts : Nat]

TypeOK ==
    /\ cap \in 0..1 /\ ttl \in {0, cloudTTL}
    /\ now \in 0..MaxTime
    /\ cache \in Seq(Entry)
    /\ made \in Nat
    /\ stopped \subseteq 1..made
    /\ busy \subseteq 1..made
    /\ req \in [Request -> [phase : {"idle", "got", "updating", "failed", "returned"},
                            driver : 0..made]]
    /\ lastUsed \in {Never} \cup 0..MaxTime
    /\ resetter \in [Resetters -> {"idle", "called", "returned"}]
    /\ lock \in {Unlocked} \cup Resetters
    /\ resetOn \in 0..made

(* New: in the cloud Drivers expire, on a client there is only one.        *)
Init ==
    /\ \/ cap = 0 /\ ttl = cloudTTL
       \/ cap = 1 /\ ttl = 0
    /\ now = 0
    /\ cache = <<>>
    /\ made = 0
    /\ stopped = {} /\ busy = {}
    /\ req = [q \in Request |-> [phase |-> "idle", driver |-> 0]]
    /\ lastUsed = 0
    /\ resetter = [r \in Resetters |-> "idle"]
    /\ lock = Unlocked
    /\ resetOn = 0

Drivers(entries) == {entries[i].driver : i \in 1..Len(entries)}

-----------------------------------------------------------------------------
(* OrderedMap.items: the place of a key's entry in the order.              *)
Has(entries, k)   == \E i \in 1..Len(entries) : entries[i].key = k
Place(entries, k) == CHOOSE i \in 1..Len(entries) : entries[i].key = k

(* OrderedMap.Delete.                                                      *)
Delete(entries, k) ==
    IF Has(entries, k) THEN RemoveAt(entries, Place(entries, k)) ELSE entries

(* Mutant: the entry is added at the wrong end.                            *)
SetLeastRecent(entries, k, d) == <<[key |-> k, driver |-> d, ts |-> now + ttl]>> \o entries

(* OrderedMap.Set of a key that is not in the map, with a new timestamp.   *)
Set(entries, k, d) == Append(entries, [key |-> k, driver |-> d, ts |-> now + ttl])

(* Mutant: the cache is full when it has more than cap entries.            *)
PurgeableLate(entries, i) ==
    \/ cap > 0 /\ Len(entries) - (i - 1) > cap
    \/ ttl > 0 /\ now - entries[i].ts > ttl

(* purgeLocked(false) goes through the entries from the least recent one   *)
(* and stops at the first that need not go; i - 1 are deleted already when *)
(* it is at the i-th.                                                      *)
Purgeable(entries, i) ==
    \/ cap > 0 /\ Len(entries) - (i - 1) >= cap
    \/ ttl > 0 /\ now - entries[i].ts > ttl

Purged(entries) ==
    CHOOSE n \in 0..Len(entries) :
        /\ \A i \in 1..n : Purgeable(entries, i)
        /\ n < Len(entries) => ~Purgeable(entries, n + 1)

(* Mutant: purged Drivers stay in the map.                                 *)
KeptAll(entries) == entries

Kept(entries) == SubSeq(entries, Purged(entries) + 1, Len(entries))

(* Mutant: purged Drivers are dropped without a Cleanup.                   *)
CleanedUpNone(entries) == {}

CleanedUp(entries) == Drivers(SubSeq(entries, 1, Purged(entries)))

(* umfDrivers.Get: the entry is deleted or made, the others are purged,    *)
(* and the entry is added again as the most recent one.                    *)
Get(q, k) ==
    /\ lock = Unlocked
    /\ req[q].phase = "idle"
    /\ LET rest == Delete(cache, k)
           d    == IF Has(cache, k) THEN cache[Place(cache, k)].driver ELSE made + 1
       IN  /\ made' = IF Has(cache, k) THEN made ELSE made + 1
           /\ cache' = Set(Kept(rest), k, d)
           /\ stopped' = stopped \cup CleanedUp(rest)
           /\ req' = [req EXCEPT ![q] = [phase |-> "got", driver |-> d]]
    /\ UNCHANGED <<cap, ttl, now, busy, lastUsed, resetter, lock, resetOn>>

(* Driver.Update, of a Driver that may be stopped by now.                  *)
Update(q) ==
    /\ req[q].phase = "got"
    /\ IF req[q].driver \in stopped
       THEN /\ req' = [req EXCEPT ![q].phase = "failed"]
            /\ UNCHANGED busy
       ELSE /\ req' = [req EXCEPT ![q].phase = "updating"]
            /\ busy' = busy \cup {req[q].driver}
    /\ UNCHANGED <<cap, ttl, now, cache, made, stopped, lastUsed, resetter, lock, resetOn>>

(* The work a Driver has in progress ends.                                 *)
WorkEnds(d) ==
    /\ busy' = busy \ {d}
    /\ UNCHANGED <<cap, ttl, now, cache, made, stopped, req, lastUsed, resetter, lock, resetOn>>

(* The unloader has API.lastUsedLock while it resets the Drivers.          *)
LastUsedLocked == resetter["unloader"] = "called"

(* API.update returns; its deferred function needs API.lastUsedLock.       *)
UpdateReturns(q) ==
    /\ req[q].phase \in {"updating", "failed"}
    /\ ~LastUsedLocked
    /\ req' = [req EXCEPT ![q].phase = "returned"]
    /\ lastUsed' = now
    /\ UNCHANGED <<cap, ttl, now, cache, made, stopped, busy, resetter, lock, resetOn>>

-----------------------------------------------------------------------------
(* API.Reset calls umfDrivers.Reset.                                       *)
ResetCall ==
    /\ resetter["API.Reset"] = "idle"
    /\ resetter' = [resetter EXCEPT !["API.Reset"] = "called"]
    /\ UNCHANGED <<cap, ttl, now, cache, made, stopped, busy, req, lastUsed, lock, resetOn>>

(* A tick of the unloader that finds the API unused.  The models' caches,  *)
(* which it resets as well, are not modelled.                              *)
UnloaderTick ==
    /\ ~LastUsedLocked
    /\ lastUsed # Never
    /\ now - lastUsed >= unloadInterval
    /\ resetter' = [resetter EXCEPT !["unloader"] = "called"]
    /\ UNCHANGED <<cap, ttl, now, cache, made, stopped, busy, req, lastUsed, lock, resetOn>>

ResetLocks(r) ==
    /\ resetter[r] = "called"
    /\ lock = Unlocked
    /\ lock' = r
    /\ UNCHANGED <<cap, ttl, now, cache, made, stopped, busy, req, lastUsed, resetter, resetOn>>

(* One turn of RangeInc: the entry is deleted and Driver.Reset called ...  *)
ResetNext(r) ==
    /\ lock = r
    /\ resetOn = 0
    /\ cache # <<>>
    /\ cache' = Tail(cache)
    /\ stopped' = stopped \cup {Head(cache).driver}
    /\ resetOn' = Head(cache).driver
    /\ UNCHANGED <<cap, ttl, now, made, busy, req, lastUsed, resetter, lock>>

(* ... which waits for the work in progress.                               *)
ResetWaited(r) ==
    /\ lock = r
    /\ resetOn # 0
    /\ resetOn \notin busy
    /\ resetOn' = 0
    /\ UNCHANGED <<cap, ttl, now, cache, made, stopped, busy, req, lastUsed, resetter, lock>>

(* The unloader stores the zero time and releases API.lastUsedLock.        *)
ResetReturns(r) ==
    /\ lock = r
    /\ resetOn = 0
    /\ cache = <<>>
    /\ lock' = Unlocked
    /\ resetter' = [resetter EXCEPT ![r] = IF r = "unloader" THEN "idle" ELSE "returned"]
    /\ lastUsed' = IF r = "unloader" THEN Never ELSE lastUsed
    /\ UNCHANGED <<cap, ttl, now, cache, made, stopped, busy, req, resetOn>>

ResetStep(r) == ResetLocks(r) \/ ResetNext(r) \/ ResetWaited(r) \/ ResetReturns(r)

Tick ==
    /\ now < MaxTime
    /\ now' = now + 1
    /\ UNCHANGED <<cap, ttl, cache, made, stopped, busy, req, lastUsed, resetter, lock, resetOn>>

(* Nothing is left to do.  In any other state a request or a Reset that    *)
(* cannot go on is a deadlock.                                             *)
Terminated ==
    /\ \A q \in Request : req[q].phase = "returned"
    /\ \A r \in Resetters : resetter[r] # "called"
    /\ UNCHANGED vars

Next ==
    \/ \E q \in Request, k \in Key : Get(q, k)
    \/ \E q \in Request : Update(q) \/ UpdateReturns(q)
    \/ \E d \in busy : WorkEnds(d)
    \/ ResetCall \/ UnloaderTick
    \/ \E r \in Resetters : ResetStep(r)
    \/ Tick \/ Terminated

Spec == Init /\ [][Next]_vars

-----------------------------------------------------------------------------
(* drivers.go:88 "it clears enough drivers so that m.drivers.Len() < m.cap *)
(* (strictly)": the entry that Get adds fits, and no file has two.         *)
CacheIsBounded ==
    /\ cap > 0 => Len(cache) <= cap
    /\ \A i, j \in 1..Len(cache) : i # j =>
         cache[i].key # cache[j].key /\ cache[i].driver # cache[j].driver

(* A Driver has two goroutines that only Cleanup ends.  One that requests  *)
(* can no longer get is stopped.                                           *)
NoDriverLeaks == (1..made) \ Drivers(cache) \subseteq stopped

(* A stopped Driver refuses every Update.  None is handed out again.       *)
CachedIsLive == Drivers(cache) \cap stopped = {}

(* purgeLocked stops at the first entry that is not expired.  Because the  *)
(* entries are ordered by the time of their last use, none that is expired *)
(* is behind it when Get returns.                                          *)
PurgeIsComplete ==
    [][\A q \in Request : req[q].phase = "idle" /\ req'[q].phase = "got" /\ ttl > 0 =>
         \A i \in 1..Len(cache') : now - cache'[i].ts <= ttl]_vars

(* api.go:107 "no cap on # of drivers, but expire them after 5 seconds":   *)
(* when Get has purged the cache, it holds no Driver that was not used for *)
(* longer than the ttl.                                                    *)
ExpiresAfterTTL ==
    [][\A q \in Request : req[q].phase = "idle" /\ req'[q].phase = "got" /\ ttl > 0 =>
         \A i \in 1..Len(cache') : now - (cache'[i].ts - ttl) <= ttl]_vars
=============================================================================
