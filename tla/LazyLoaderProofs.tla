--------------------------- MODULE LazyLoaderProofs ---------------------------
(* Proofs about LazyLoader, for any number of readers and unloaders.       *)
EXTENDS LazyLoader, TLAPS

(* A reader that holds the lock got past the check of l.loadErr, and no    *)
(* one has replaced the sync.Once since.                                   *)
HolderSawLoad ==
    \A t \in Reader : pc[t] = "holding" => once = "done" /\ loadErr = "nil"

(* A reader inside l.load() is known to the sync.Once and alone.           *)
LoaderIsAlone ==
    \A t \in Reader : pc[t] = "loading" =>
        once = "running" /\ \A s \in Reader \ {t} : pc[s] # "loading"

(* A load that is done without an error left the data, or panicked.        *)
DoneHasData == once = "done" /\ loadErr = "nil" => loaded # "no"

IInv == TypeOK /\ HolderSawLoad /\ LoaderIsAlone /\ DoneHasData

(* A new Loader satisfies the invariant.                                   *)
LEMMA InitIInv == Init => IInv
BY LoaderAssumption
   DEF Init, IInv, TypeOK, ReaderPc, HolderSawLoad, LoaderIsAlone, DoneHasData

(* Each step of a reader or an unloader preserves the invariant.  Unload   *)
(* needs the exclusive lock: it may reset the sync.Once and drop the data  *)
(* only because no reader is locked, loading or holding.                   *)
LEMMA NextIInv == IInv /\ [Next]_vars => IInv'
<1> SUFFICES ASSUME IInv, [Next]_vars PROVE IInv'
  OBVIOUS
<1> USE LoaderAssumption DEF IInv, TypeOK, ReaderPc, HolderSawLoad, LoaderIsAlone, DoneHasData
<1>1. ASSUME NEW t \in Reader, LoadAndLock(t) PROVE IInv'
  BY <1>1 DEF LoadAndLock
<1>2. ASSUME NEW t \in Reader, LoadBegins(t) PROVE IInv'
  BY <1>2 DEF LoadBegins
<1>3. ASSUME NEW t \in Reader, LoadReturns(t) PROVE IInv'
  BY <1>3 DEF LoadReturns
<1>4. ASSUME NEW t \in Reader, LoadAndLockReturns(t) PROVE IInv'
  BY <1>4 DEF LoadAndLockReturns
<1>5. ASSUME NEW t \in Reader, Unlock(t) PROVE IInv'
  BY <1>5 DEF Unlock
<1>6. ASSUME NEW t \in Reader, LoadPanicked(t) PROVE IInv'
  BY <1>6 DEF LoadPanicked
<1>7. ASSUME NEW u \in Unloader, UnloadWaits(u) PROVE IInv'
  BY <1>7 DEF UnloadWaits
<1>8. ASSUME NEW u \in Unloader, Unload(u) PROVE IInv'
  BY <1>8 DEF Unload, HasReadLock
<1>9. CASE UNCHANGED vars
  BY <1>9 DEF vars
<1> QED
  BY <1>1, <1>2, <1>3, <1>4, <1>5, <1>6, <1>7, <1>8, <1>9 DEF Next, ReaderStep

(* The inductive invariant holds in every reachable state.                 *)
THEOREM Invariance == Spec => []IInv
BY InitIInv, NextIInv, PTL DEF Spec

(* Type correctness of the loader.                                         *)
THEOREM TypeCorrect == Spec => []TypeOK
<1>1. IInv => TypeOK
  BY DEF IInv
<1> QED
  BY <1>1, Invariance, PTL

(* LoadAndLock never runs l.load() twice at a time, nor beside a reader    *)
(* that holds the data.                                                    *)
THEOREM LoadExclusive == Spec => []LoadIsExclusive
<1>1. IInv => LoadIsExclusive
  BY DEF IInv, HolderSawLoad, LoaderIsAlone, LoadIsExclusive
<1> QED
  BY <1>1, Invariance, PTL

(* Whoever has the lock has the data, or what a load that panicked left.   *)
THEOREM HolderIsServed == Spec => []HolderHasData
<1>1. IInv => HolderHasData
  BY DEF IInv, HolderSawLoad, DoneHasData, HolderHasData
<1> QED
  BY <1>1, Invariance, PTL

(* lazy.Loader implements SharedData: loads and unloads happen only while  *)
(* nobody holds the data, and LoadAndLock gives the lock only with it.     *)
THEOREM LoaderRefinesShared == Spec => LoaderIsShared
<1>1. Init => Shared!Init
  BY LoaderAssumption DEF Init, Shared!Init
<1>2. ASSUME IInv, [Next]_vars PROVE [Shared!Next]_Shared!vars
  <2> USE <1>2, LoaderAssumption DEF IInv, TypeOK, ReaderPc
  <2>0. ASSUME \A s \in Reader : (pc'[s] = "holding") <=> pc[s] = "holding", loaded' = loaded
        PROVE  UNCHANGED Shared!vars
    BY <2>0 DEF Shared!vars
  <2>1. ASSUME NEW t \in Reader, LoadAndLock(t) \/ LoadBegins(t) PROVE UNCHANGED Shared!vars
    <3>1. \A s \in Reader : (pc'[s] = "holding") <=> pc[s] = "holding"
      BY <2>1 DEF LoadAndLock, LoadBegins
    <3> QED
      BY <2>0, <2>1, <3>1 DEF LoadAndLock, LoadBegins
  <2>2. ASSUME NEW t \in Reader, LoadReturns(t) \/ LoadPanicked(t)
        PROVE  Shared!Load \/ UNCHANGED Shared!vars
    <3>1. \A s \in Reader : pc[s] # "holding" /\ pc'[s] # "holding"
      BY <2>2 DEF HolderSawLoad, LoaderIsAlone, LoadReturns, LoadPanicked
    <3>2. CASE loaded' = loaded
      BY <2>0, <3>1, <3>2
    <3>3. CASE loaded' # loaded
      BY <2>2, <3>1, <3>3 DEF LoadReturns, LoadPanicked, Shared!Load
    <3> QED
      BY <3>2, <3>3
  <2>3. ASSUME NEW t \in Reader, LoadAndLockReturns(t)
        PROVE  Shared!Acquire(t) \/ UNCHANGED Shared!vars
    <3>1. CASE loadErr = "nil"
      <4>1. \A s \in Reader : pc'[s] = "holding" <=> (pc[s] = "holding" \/ s = t)
        BY <2>3, <3>1 DEF LoadAndLockReturns
      <4> QED
        BY <2>3, <3>1, <4>1 DEF DoneHasData, LoadAndLockReturns, Shared!Acquire
    <3>2. CASE loadErr # "nil"
      <4>1. \A s \in Reader : (pc'[s] = "holding") <=> pc[s] = "holding"
        BY <2>3, <3>2 DEF LoadAndLockReturns
      <4> QED
        BY <2>0, <2>3, <4>1 DEF LoadAndLockReturns
    <3> QED
      BY <3>1, <3>2
  <2>4. ASSUME NEW t \in Reader, Unlock(t) PROVE Shared!Release(t)
    <3>1. \A s \in Reader : pc'[s] = "holding" <=> (pc[s] = "holding" /\ s # t)
      BY <2>4 DEF Unlock
    <3> QED
      BY <2>4, <3>1 DEF Unlock, Shared!Release
  <2>5. ASSUME NEW u \in Unloader, UnloadWaits(u) PROVE UNCHANGED Shared!vars
    <3>1. \A s \in Reader : (pc'[s] = "holding") <=> pc[s] = "holding"
      BY <2>5 DEF UnloadWaits
    <3> QED
      BY <2>0, <2>5, <3>1 DEF UnloadWaits
  <2>6. ASSUME NEW u \in Unloader, Unload(u) PROVE Shared!Unload
    <3>1. \A s \in Reader : pc[s] # "holding" /\ pc'[s] # "holding"
      BY <2>6 DEF Unload, HasReadLock
    <3> QED
      BY <2>6, <3>1 DEF Unload, Shared!Unload
  <2>7. CASE UNCHANGED vars
    BY <2>0, <2>7 DEF vars
  <2> QED
    BY <1>2, <2>1, <2>2, <2>3, <2>4, <2>5, <2>6, <2>7 DEF Next, ReaderStep, Shared!Next
<1> QED
  BY <1>1, <1>2, Invariance, PTL DEF Spec, Shared!Spec, LoaderIsShared
===============================================================================
