----------------------------- MODULE LazyLoader -----------------------------
(***************************************************************************)
(* kite-golib/lazy/lazy.go: data loaded on first use by any of several     *)
(* readers, who hold it under a read lock, and unloaded by a writer.       *)
(*                                                                         *)
(* The read lock is held by the readers whose pc says so.  A writer that   *)
(* waits for a sync.RWMutex keeps new readers out.  sync.Once counts a     *)
(* function that panics as done.                                           *)
(***************************************************************************)
EXTENDS Naturals

CONSTANTS Reader,     \* goroutines that call LoadAndLock and Unlock
          Unloader    \* goroutines that call Unload

ASSUME LoaderAssumption == Reader \cap Unloader = {}

VARIABLES pc,        \* progress of each goroutine
          once,      \* l.once
          loadErr,   \* l.loadErr # nil
          loaded     \* the data is in memory, or what a load that panicked left

vars == <<pc, once, loadErr, loaded>>

ReaderPc == {"idle", "locked", "loading", "holding"}

TypeOK ==
    /\ pc \in [Reader \cup Unloader -> ReaderPc \cup {"waiting"}]
    /\ \A t \in Reader : pc[t] # "waiting"
    /\ \A u \in Unloader : pc[u] \in {"idle", "waiting"}
    /\ once \in {"fresh", "running", "done"}
    /\ loadErr \in {"nil", "error"}
    /\ loaded \in {"no", "yes", "panicked"}

Init ==
    /\ pc = [t \in Reader \cup Unloader |-> "idle"]
    /\ once = "fresh"
    /\ loadErr = "nil"
    /\ loaded = "no"

HasReadLock(t) == pc[t] \in {"locked", "loading", "holding"}

(* l.lock.RLock().                                                         *)
LoadAndLock(t) ==
    /\ pc[t] = "idle"
    /\ \A u \in Unloader : pc[u] # "waiting"
    /\ pc' = [pc EXCEPT ![t] = "locked"]
    /\ UNCHANGED <<once, loadErr, loaded>>

(* l.once.Do lets one reader call l.load(), and the others wait.           *)
LoadBegins(t) ==
    /\ pc[t] = "locked"
    /\ once = "fresh"
    /\ once' = "running"
    /\ pc' = [pc EXCEPT ![t] = "loading"]
    /\ UNCHANGED <<loadErr, loaded>>

(* l.load() returns, with the data or with an error.                       *)
LoadReturns(t) ==
    /\ pc[t] = "loading"
    /\ once' = "done"
    /\ pc' = [pc EXCEPT ![t] = "locked"]
    /\ \/ loaded' = "yes" /\ loadErr' = "nil"
       \/ loadErr' = "error" /\ UNCHANGED loaded

(* A panic of l.load() goes through LoadAndLock, whose deferred function   *)
(* releases the lock, to its caller.                                       *)
LoadPanicked(t) ==
    /\ pc[t] = "loading"
    /\ once' = "done"
    /\ pc' = [pc EXCEPT ![t] = "idle"]
    /\ loaded' = "panicked"
    /\ UNCHANGED loadErr

(* Mutant: the lock is kept when the load failed.                          *)
LoadAndLockReturnsLocked(t) ==
    /\ pc[t] = "locked"
    /\ once = "done"
    /\ loadErr = "nil"
    /\ pc' = [pc EXCEPT ![t] = "holding"]
    /\ UNCHANGED <<once, loadErr, loaded>>

(* LoadAndLock returns: with the lock if there was no error.               *)
LoadAndLockReturns(t) ==
    /\ pc[t] = "locked"
    /\ once = "done"
    /\ pc' = [pc EXCEPT ![t] = IF loadErr = "nil" THEN "holding" ELSE "idle"]
    /\ UNCHANGED <<once, loadErr, loaded>>

(* The caller's deferred l.Unlock().                                       *)
Unlock(t) ==
    /\ pc[t] = "holding"
    /\ pc' = [pc EXCEPT ![t] = "idle"]
    /\ UNCHANGED <<once, loadErr, loaded>>

(* Unload waits for l.lock.Lock() ...                                      *)
UnloadWaits(u) ==
    /\ pc[u] = "idle"
    /\ pc' = [pc EXCEPT ![u] = "waiting"]
    /\ UNCHANGED <<once, loadErr, loaded>>

(* Mutant: the sync.Once is not replaced.                                  *)
UnloadKeepsOnce(u) ==
    /\ pc[u] = "waiting"
    /\ \A t \in Reader : ~HasReadLock(t)
    /\ pc' = [pc EXCEPT ![u] = "idle"]
    /\ loaded' = "no"
    /\ loadErr' = "nil"
    /\ UNCHANGED once

(* Mutant: Unload takes a read lock.                                       *)
UnloadShared(u) ==
    /\ pc[u] = "waiting"
    /\ pc' = [pc EXCEPT ![u] = "idle"]
    /\ once' = "fresh"
    /\ loaded' = "no"
    /\ loadErr' = "nil"

(* ... and runs with no reader inside.                                     *)
Unload(u) ==
    /\ pc[u] = "waiting"
    /\ \A t \in Reader : ~HasReadLock(t)
    /\ pc' = [pc EXCEPT ![u] = "idle"]
    /\ once' = "fresh"
    /\ loaded' = "no"
    /\ loadErr' = "nil"

ReaderStep(t) == LoadBegins(t) \/ LoadReturns(t) \/ LoadAndLockReturns(t) \/ Unlock(t)

Next ==
    \/ \E t \in Reader : LoadAndLock(t) \/ ReaderStep(t) \/ LoadPanicked(t)
    \/ \E u \in Unloader : UnloadWaits(u) \/ Unload(u)

Spec == Init /\ [][Next]_vars

(* A reader that has the lock goes on and unlocks; sync.RWMutex gives the  *)
(* lock to a waiting writer when the readers have left.                    *)
Fairness ==
    /\ \A t \in Reader : WF_vars(ReaderStep(t))
    /\ \A u \in Unloader : WF_vars(Unload(u))

FairSpec == Spec /\ Fairness

-----------------------------------------------------------------------------
(* Who has the lock from LoadAndLock has the data, however it interleaves  *)
(* with the loads and unloads of others, unless the load panicked.         *)
HolderHasData == \A t \in Reader : pc[t] = "holding" => loaded # "no"

(* One load at a time, and none that the sync.Once does not know of.       *)
LoadIsExclusive ==
    \A t \in Reader : pc[t] = "loading" =>
        once = "running" /\ \A s \in Reader \ {t} : pc[s] \notin {"loading", "holding"}

Shared == INSTANCE SharedData WITH
    holders <- {t \in Reader : pc[t] = "holding"},
    data    <- loaded

(* To its users the loader is data that nobody replaces or frees under     *)
(* them: the sync.Once that Unload resets starts no load beside a holder.  *)
LoaderIsShared == Shared!Spec

(* New readers cannot keep an Unload waiting for ever.                     *)
UnloadIsNotStarved == \A u \in Unloader : pc[u] = "waiting" ~> pc[u] = "idle"

(* lazy.go:39 "l.load() ran without a panic or error": this is so when     *)
(* LoadAndLock returns with the lock.                                      *)
HolderSawNoPanic == \A t \in Reader : pc[t] = "holding" => loaded = "yes"
=============================================================================
