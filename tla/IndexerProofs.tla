---------------------------- MODULE IndexerProofs ----------------------------
(***************************************************************************)
(* The indexer for any finite set of files, any artifacts, channel and     *)
(* number of requests and writes: the counts of the watches are those of   *)
(* the artifacts, and an outdated artifact is going to be rebuilt.         *)
(***************************************************************************)
EXTENDS Indexer, DataFacts

-----------------------------------------------------------------------------
(* The maps of requests and changes                                        *)

IsMap(m) == m \in [Path -> Nat] /\ \E b \in Nat : \A p \in Path : m[p] <= b

(* sync.Map.Delete takes away one key, whatever the order of the others.   *)
LEMMA DeletedKeys ==
    ASSUME NEW m, IsMap(m), NEW p \in Path
    PROVE  IsMap(Deleted(m, p)) /\ Keys(Deleted(m, p)) = Keys(m) \ {p}
<1>1. PICK b \in Nat : \A q \in Path : m[q] <= b
  BY DEF IsMap
<1>2. \A q \in Path : m[q] \in Nat
  BY DEF IsMap
<1>3. /\ Deleted(m, p) \in [Path -> Nat]
      /\ \A q \in Path : Deleted(m, p)[q] <= m[q] /\ (Deleted(m, p)[q] > 0 <=> q # p /\ m[q] > 0)
  BY <1>2 DEF Deleted
<1>4. IsMap(Deleted(m, p))
  BY <1>1, <1>2, <1>3 DEF IsMap
<1> QED BY <1>3, <1>4 DEF Keys

LEMMA LastTimeBounds ==
    ASSUME NEW m, IsMap(m), Path # {}
    PROVE  LastTime(m) \in Nat /\ \A p \in Path : m[p] <= LastTime(m)
<1> DEFINE T == {m[p] : p \in Path}
<1>1. PICK b \in Nat : \A q \in Path : m[q] <= b
  BY DEF IsMap
<1>2. T \subseteq Nat /\ T # {} /\ \A n \in T : n <= b
  BY <1>1 DEF IsMap
<1>3. \E t \in T : \A n \in T : n <= t
  <2> HIDE DEF T
  <2> QED BY <1>2, GreatestNat
<1>4. LastTime(m) \in T /\ \A n \in T : n <= LastTime(m)
  <2>1. \E t \in T : \A n \in T : t >= n
    BY <1>2, <1>3
  <2>2. LastTime(m) = CHOOSE t \in T : \A n \in T : t >= n
    BY DEF LastTime, Max
  <2> HIDE DEF T
  <2>3. LastTime(m) \in T /\ \A n \in T : LastTime(m) >= n
    BY <2>1, <2>2, Zenon
  <2> QED BY <1>2, <2>3
<1> QED BY <1>2, <1>4

LEMMA StoredKeys ==
    ASSUME NEW m, IsMap(m), NEW p \in Path
    PROVE  IsMap(StoredNow(m, p)) /\ Keys(StoredNow(m, p)) = Keys(m) \cup {p}
<1> DEFINE t == LastTime(m)
<1>1. t \in Nat /\ \A q \in Path : m[q] <= t
  BY LastTimeBounds
<1> HIDE DEF t
<1>2. StoredNow(m, p) = [m EXCEPT ![p] = t + 1]
  BY DEF StoredNow, t
<1>3. /\ StoredNow(m, p) \in [Path -> Nat]
      /\ \A q \in Path : StoredNow(m, p)[q] = IF q = p THEN t + 1 ELSE m[q]
  BY <1>1, <1>2 DEF IsMap
<1>4. \A q \in Path : StoredNow(m, p)[q] <= t + 1
  BY <1>1, <1>3 DEF IsMap
<1>5. IsMap(StoredNow(m, p))
  BY <1>1, <1>3, <1>4 DEF IsMap
<1> QED BY <1>1, <1>3, <1>5 DEF Keys

(* A job takes one of the paths it has.                                    *)
LEMMA MostRecentIsThere ==
    ASSUME IsMap(worker.todo), worker.todo # Empty
    PROVE  MostRecent \in Path
<1> DEFINE m == worker.todo
           T == {m[p] : p \in Keys(m)}
<1>1. PICK b \in Nat : \A q \in Path : m[q] <= b
  BY DEF IsMap
<1>2. Keys(m) # {}
  <2> SUFFICES ASSUME Keys(m) = {} PROVE FALSE
    OBVIOUS
  <2>1. \A p \in Path : m[p] = 0
    BY DEF Keys, IsMap
  <2>2. m \in [Path -> Nat]
    BY DEF IsMap
  <2> QED BY <2>1, <2>2 DEF Empty
<1>3. T \subseteq Nat /\ T # {} /\ \A n \in T : n <= b
  BY <1>1, <1>2 DEF IsMap, Keys
<1>4. PICK t \in T : \A n \in T : n <= t
  <2> HIDE DEF T
  <2> QED BY <1>3, GreatestNat
<1>5. PICK p \in Keys(m) : m[p] = t
  BY <1>4
<1>6. \A q \in Path : m[q] <= m[p]
  BY <1>3, <1>4, <1>5 DEF Keys, IsMap
<1>7. MostRecent \in Keys(m)
  BY <1>5, <1>6 DEF MostRecent
<1> QED BY <1>7 DEF Keys

-----------------------------------------------------------------------------
(* Types                                                                   *)

(* What the loop, the worker and reset() have at hand.                     *)
AtHand ==
    /\ IsMap(requests) /\ IsMap(changes) /\ IsMap(worker.todo)
    /\ loop.pc # "ranging" => loop.left = {}
    /\ loop.pc = "select" => loop.rebuild = {}
    /\ worker.pc \notin {"idle", "next"} => worker.path \in Path
    /\ worker.pc \in {"building", "purging"} => worker.stale \subseteq Bundle[worker.path]
    /\ worker.pc \notin {"building", "purging"} => worker.stale = {}
    /\ worker.purged # NoPath => worker.pc = "purging" /\ artifacts[worker.purged] = NoArtifact
    /\ resetter.pc = "deleting" => resetter.key \in Path

TypeInv == TypeOK /\ AtHand

LEMMA EmptyIsMap == IsMap(Empty)
<1>1. Empty \in [Path -> Nat] /\ \A p \in Path : Empty[p] <= 0
  BY DEF Empty
<1> QED BY <1>1 DEF IsMap

LEMMA InitTypes == Init => TypeInv
<1> SUFFICES ASSUME Init PROVE TypeInv
  OBVIOUS
<1>1. requests = Empty /\ changes = Empty /\ worker = IdleWorker /\ loop = IdleLoop
      /\ resetter.pc \in {"unused", "over"}
  BY DEF Init
<1>2. AtHand
  BY <1>1, EmptyIsMap DEF AtHand, IdleWorker, IdleLoop
<1>3. Empty \in [Path -> Nat]
  BY EmptyIsMap DEF IsMap
<1>4. TypeOK
  <2>0. /\ requests \in [Path -> Nat] /\ changes \in [Path -> Nat]
        /\ artifacts \in [Path -> (SUBSET Path) \cup {NoArtifact}]
        /\ asking \in [Path -> {"no", "store", "notify"}]
        /\ watchCounts \in [Dir -> Nat] /\ waiting \in [{"request", "change"} -> Nat]
        /\ missed \in [Path -> SUBSET Path] /\ overlooked \in [Path -> SUBSET Path]
    BY <1>3 DEF Init
  <2>1. worker \in WorkerType /\ loop \in LoopType
    BY <1>1, <1>3 DEF IdleWorker, IdleLoop, WorkerType, LoopType
  <2>2. changeChan \in Seq(SUBSET Path) /\ Len(changeChan) <= changeChanSize
    BY IndexerAssumption DEF Init
  <2>3. asks \in 0 .. MaxAsks /\ writes \in 0 .. MaxWrites
    BY DEF Init
  <2>4. resetter \in ResetterType
    BY DEF Init, ResetterType
  <2>5. /\ {unsavedFiles, timedOutFiles, pending, exists} \subseteq SUBSET Path
        /\ notified \in BOOLEAN /\ mismatched \in BOOLEAN
    BY IndexerAssumption DEF Init
  <2> QED BY <2>0, <2>1, <2>2, <2>3, <2>4, <2>5, ZenonT(40) DEF TypeOK
<1> QED BY <1>2, <1>4 DEF TypeInv

(* Steps that only move on the loop, or the drivers, or reset().           *)
LEMMA LoopTyped ==
    ASSUME TypeInv, loop' \in LoopType, overlooked' \in [Path -> SUBSET Path],
           loop'.pc # "ranging" => loop'.left = {}, loop'.pc = "select" => loop'.rebuild = {},
           changeChan' \in Seq(SUBSET Path), Len(changeChan') <= changeChanSize,
           UNCHANGED <<asking, mapVars, notified, waiting, worker, resetter, watchCounts, pending,
                       exists, input, missed, mismatched>>
    PROVE  TypeInv'
<1>1. TypeOK'
  BY ZenonT(40) DEF TypeInv, TypeOK, mapVars, input
<1>2. AtHand'
  BY DEF TypeInv, AtHand, IsMap, mapVars
<1> QED BY <1>1, <1>2 DEF TypeInv

LEMMA ResetTyped ==
    ASSUME TypeInv, resetter' \in ResetterType, resetter'.pc = "deleting" => resetter'.key \in Path,
           watchCounts' \in [Dir -> Nat], mismatched' \in BOOLEAN,
           UNCHANGED <<asking, mapVars, notified, loop, waiting, worker, fsVars, input, missed, overlooked>>
    PROVE  TypeInv'
<1>1. TypeOK'
  BY ZenonT(40) DEF TypeInv, TypeOK, mapVars, fsVars, input
<1>2. AtHand'
  BY DEF TypeInv, AtHand, IsMap, mapVars
<1> QED BY <1>1, <1>2 DEF TypeInv

(* A step of the worker that leaves the artifacts.                         *)
WorkerAtHand(w) ==
    /\ w \in WorkerType /\ IsMap(w.todo)
    /\ w.pc \notin {"idle", "next"} => w.path \in Path
    /\ w.pc \in {"building", "purging"} => w.stale \subseteq Bundle[w.path]
    /\ w.pc \notin {"building", "purging"} => w.stale = {}
    /\ w.purged # NoPath => w.pc = "purging" /\ artifacts[w.purged] = NoArtifact

LEMMA WorkerTyped ==
    ASSUME TypeInv, WorkerAtHand(worker'), IsMap(requests'), IsMap(changes'),
           unsavedFiles' \in SUBSET Path, timedOutFiles' \in SUBSET Path,
           waiting' \in [{"request", "change"} -> Nat], watchCounts' \in [Dir -> Nat],
           missed' \in [Path -> SUBSET Path], overlooked' \in [Path -> SUBSET Path],
           mismatched' \in BOOLEAN,
           UNCHANGED <<asking, artifacts, notified, loop, resetter, fsVars, input>>
    PROVE  TypeInv'
<1>1. TypeOK'
  BY ZenonT(40) DEF TypeInv, TypeOK, WorkerAtHand, IsMap, fsVars, input
<1>2. AtHand'
  BY DEF TypeInv, AtHand, WorkerAtHand
<1> QED BY <1>1, <1>2 DEF TypeInv

LEMMA TypesNow ==
    ASSUME TypeInv
    PROVE  /\ loop \in LoopType /\ WorkerAtHand(worker) /\ resetter \in ResetterType
           /\ IsMap(requests) /\ IsMap(changes)
           /\ unsavedFiles \in SUBSET Path /\ timedOutFiles \in SUBSET Path
           /\ pending \in SUBSET Path /\ exists \in SUBSET Path
           /\ changeChan \in Seq(SUBSET Path) /\ Len(changeChan) <= changeChanSize
           /\ waiting \in [{"request", "change"} -> Nat] /\ watchCounts \in [Dir -> Nat]
           /\ artifacts \in [Path -> (SUBSET Path) \cup {NoArtifact}]
           /\ missed \in [Path -> SUBSET Path] /\ overlooked \in [Path -> SUBSET Path]
           /\ notified \in BOOLEAN /\ mismatched \in BOOLEAN
           /\ asking \in [Path -> {"no", "store", "notify"}]
<1>1. /\ loop \in LoopType /\ worker \in WorkerType /\ resetter \in ResetterType
      /\ unsavedFiles \in SUBSET Path /\ timedOutFiles \in SUBSET Path
      /\ pending \in SUBSET Path /\ exists \in SUBSET Path
      /\ changeChan \in Seq(SUBSET Path) /\ Len(changeChan) <= changeChanSize
      /\ waiting \in [{"request", "change"} -> Nat] /\ watchCounts \in [Dir -> Nat]
      /\ artifacts \in [Path -> (SUBSET Path) \cup {NoArtifact}]
      /\ missed \in [Path -> SUBSET Path] /\ overlooked \in [Path -> SUBSET Path]
      /\ notified \in BOOLEAN /\ mismatched \in BOOLEAN
      /\ asking \in [Path -> {"no", "store", "notify"}]
  BY ZenonT(40) DEF TypeInv, TypeOK
<1>2. AtHand
  BY DEF TypeInv
<1> QED BY <1>1, <1>2 DEF AtHand, WorkerAtHand

LEMMA StepTypes == TypeInv /\ [Next]_vars => TypeInv'
<1> SUFFICES ASSUME TypeInv, [Next]_vars PROVE TypeInv'
  OBVIOUS
<1>0. PICK w \in WorkerType : w = worker /\ WorkerAtHand(w)
  BY TypesNow DEF WorkerAtHand
<1>1. CASE UNCHANGED vars
  <2>1. TypeOK'
    BY <1>1, ZenonT(40) DEF vars, mapVars, fsVars, input, history, TypeInv, TypeOK
  <2>2. AtHand'
    BY <1>1 DEF vars, mapVars, TypeInv, AtHand, IsMap
  <2> QED BY <2>1, <2>2 DEF TypeInv
<1>2. ASSUME NEW f \in Path, Write(f) PROVE TypeInv'
  <2>1. /\ artifacts' = [k \in Path |-> IF k \in Containing(f) THEN artifacts[k] \cup {f} ELSE artifacts[k]]
        /\ exists' = exists \cup {f}
        /\ writes < MaxWrites /\ writes' = writes + 1
        /\ UNCHANGED <<asking, requests, changes, unsavedFiles, timedOutFiles, notified, loop, waiting,
                       resetter, watchCounts, changeChan, asks, overlooked, mismatched>>
    BY <1>2 DEF Write
  <2>2. /\ artifacts' \in [Path -> (SUBSET Path) \cup {NoArtifact}]
        /\ \A k \in Path : artifacts[k] = NoArtifact => artifacts'[k] = NoArtifact
    BY <2>1, TypesNow DEF Containing, Stored
  <2>3. /\ worker' \in WorkerType /\ worker'.todo = worker.todo /\ worker'.pc = worker.pc
        /\ worker'.path = worker.path /\ worker'.purged = worker.purged
        /\ \/ worker'.stale = worker.stale
           \/ /\ worker.pc \in {"building", "purging"} /\ f \in Bundle[worker.path]
              /\ worker'.stale = worker.stale \cup {f}
    BY <1>2, TypesNow DEF Write, WorkerAtHand, WorkerType
  <2>4. exists' \in SUBSET Path /\ pending' \in SUBSET Path /\ missed' \in [Path -> SUBSET Path]
    <3>1. pending \in SUBSET Path /\ missed \in [Path -> SUBSET Path] /\ exists \in SUBSET Path
      BY TypesNow
    <3>2. Misses({f}) => missed' \in [Path -> SUBSET Path]
      BY <3>1 DEF Misses
    <3>3. \/ pending' = pending \cup {f} /\ missed' = missed
          \/ Misses({f}) /\ pending' = pending
      BY <1>2 DEF Write
    <3> QED BY <2>1, <3>1, <3>2, <3>3
  <2>5. writes' \in 0 .. MaxWrites
    <3>1. writes \in 0 .. MaxWrites /\ MaxWrites \in Nat
      BY IndexerAssumption DEF TypeInv, TypeOK
    <3> QED BY <2>1, <3>1
  <2>6. TypeOK'
    BY <2>1, <2>2, <2>3, <2>4, <2>5, ZenonT(40) DEF TypeInv, TypeOK
  <2>7. AtHand'
    <3>1. AtHand /\ worker.purged \in Path \cup {NoPath}
      BY TypesNow DEF TypeInv, WorkerAtHand, WorkerType
    <3> QED BY <2>1, <2>2, <2>3, <3>1 DEF AtHand, IsMap
  <2> QED BY <2>6, <2>7 DEF TypeInv
(* The drivers                                                             *)
<1>3. ASSUME NEW p \in Path, artifactThatContains(p) PROVE TypeInv'
  <2>1. /\ asks < MaxAsks /\ asks' = asks + 1 /\ asking' = [asking EXCEPT ![p] = "store"]
        /\ UNCHANGED <<mapVars, notified, loop, waiting, worker, resetter, watchCounts, fsVars, writes,
                       history>>
    BY <1>3 DEF artifactThatContains
  <2>2. asks' \in 0 .. MaxAsks
    <3>1. asks \in 0 .. MaxAsks /\ MaxAsks \in Nat
      BY IndexerAssumption DEF TypeInv, TypeOK
    <3> QED BY <2>1, <3>1
  <2>3. asking' \in [Path -> {"no", "store", "notify"}]
    BY <2>1, TypesNow
  <2>4. TypeOK'
    BY <2>1, <2>2, <2>3, ZenonT(40) DEF TypeInv, TypeOK, mapVars, fsVars, history
  <2>5. AtHand'
    BY <2>1 DEF TypeInv, AtHand, IsMap, mapVars
  <2> QED BY <2>4, <2>5 DEF TypeInv
<1>4. ASSUME NEW p \in Path, StoreRequest(p) PROVE TypeInv'
  <2>1. /\ asking' = [asking EXCEPT ![p] = "notify"] /\ requests' = StoredNow(requests, p)
        /\ UNCHANGED <<changes, artifacts, unsavedFiles, timedOutFiles, notified, loop, waiting, worker,
                       resetter, watchCounts, fsVars, input, history>>
    BY <1>4 DEF StoreRequest
  <2>2. IsMap(requests') /\ asking' \in [Path -> {"no", "store", "notify"}]
    BY <2>1, TypesNow, StoredKeys
  <2>3. TypeOK'
    BY <2>1, <2>2, ZenonT(40) DEF TypeInv, TypeOK, IsMap, fsVars, input, history
  <2>4. AtHand'
    BY <2>1, <2>2 DEF TypeInv, AtHand, IsMap
  <2> QED BY <2>3, <2>4 DEF TypeInv
<1>5. ASSUME NEW p \in Path, NotifyLoop(p) PROVE TypeInv'
  <2>1. /\ asking' = [asking EXCEPT ![p] = "no"] /\ notified' = TRUE
        /\ UNCHANGED <<mapVars, loop, waiting, worker, resetter, watchCounts, fsVars, input, history>>
    BY <1>5 DEF NotifyLoop
  <2>2. asking' \in [Path -> {"no", "store", "notify"}] /\ notified' \in BOOLEAN
    BY <2>1, TypesNow
  <2>3. TypeOK'
    BY <2>1, <2>2, ZenonT(40) DEF TypeInv, TypeOK, mapVars, fsVars, input, history
  <2>4. AtHand'
    BY <2>1 DEF TypeInv, AtHand, IsMap, mapVars
  <2> QED BY <2>3, <2>4 DEF TypeInv
(* The watcher and the loop                                                *)
<1>6. CASE SendChanges
  <2>1. changeChan' \in Seq(SUBSET Path) /\ Len(changeChan') <= changeChanSize
    <3>1. /\ changeChan \in Seq(SUBSET Path) /\ Len(changeChan) <= changeChanSize
          /\ changeChanSize \in Nat /\ pending \in SUBSET Path
      BY IndexerAssumption, TypesNow
    <3>2. CASE Len(changeChan) < changeChanSize /\ changeChan' = Append(changeChan, pending)
      BY <3>1, <3>2
    <3>3. CASE changeChan' = changeChan
      BY <3>1, <3>3
    <3> QED BY <1>6, <3>2, <3>3 DEF SendChanges
  <2>2. pending' \in SUBSET Path /\ missed' \in [Path -> SUBSET Path]
    BY <1>6, TypesNow DEF SendChanges, Misses
  <2>3. UNCHANGED <<asking, mapVars, notified, loop, waiting, worker, resetter, watchCounts, exists,
                    input, overlooked, mismatched>>
    BY <1>6 DEF SendChanges
  <2>4. TypeOK'
    BY <2>1, <2>2, <2>3, ZenonT(40) DEF TypeInv, TypeOK, mapVars, input
  <2>5. AtHand'
    BY <2>3 DEF TypeInv, AtHand, IsMap, mapVars
  <2> QED BY <2>4, <2>5 DEF TypeInv
<1>7. CASE RequestNotified \/ AddChangeJob
  <2>1. /\ loop' \in {loop, IdleLoop} /\ notified' \in BOOLEAN
        /\ \E kind \in {"request", "change"} : waiting' = [waiting EXCEPT ![kind] = waiting[kind] + 1]
        /\ UNCHANGED <<asking, mapVars, worker, resetter, watchCounts, fsVars, input, history>>
    BY <1>7, TypesNow DEF RequestNotified, AddChangeJob
  <2>2. waiting' \in [{"request", "change"} -> Nat]
    <3>1. waiting \in [{"request", "change"} -> Nat]
      BY TypesNow
    <3> QED BY <2>1, <3>1
  <2>3. loop' \in LoopType
    BY <2>1, TypesNow DEF LoopType, IdleLoop
  <2>4. TypeOK'
    BY <2>1, <2>2, <2>3, ZenonT(40) DEF TypeInv, TypeOK, mapVars, fsVars, input, history
  <2>5. AtHand'
    BY <2>1 DEF TypeInv, AtHand, IdleLoop, IsMap, mapVars
  <2> QED BY <2>4, <2>5 DEF TypeInv
<1>8. CASE ChangeReceived
  <2>1. changeChan' \in Seq(SUBSET Path) /\ Len(changeChan') <= changeChanSize
    BY <1>8, IndexerAssumption, TypesNow DEF ChangeReceived
  <2>2. loop' \in LoopType /\ loop'.pc = "ranging"
    BY <1>8, TypesNow DEF ChangeReceived, LoopType
  <2>3. UNCHANGED <<asking, mapVars, notified, waiting, worker, resetter, watchCounts, pending, exists,
                    input, missed, mismatched, overlooked>>
    BY <1>8 DEF ChangeReceived, history
  <2> QED BY <2>1, <2>2, <2>3, TypesNow, LoopTyped
<1>9. ASSUME NEW k \in Path, outdatedArtifacts(k) PROVE TypeInv'
  <2>1. loop' \in LoopType /\ loop'.pc = "ranging"
    BY <1>9, TypesNow DEF outdatedArtifacts, LoopType
  <2>2. overlooked' \in [Path -> SUBSET Path]
    BY <1>9, TypesNow, <1>0 DEF outdatedArtifacts, WorkerType
  <2>3. UNCHANGED <<asking, mapVars, notified, waiting, worker, resetter, watchCounts, pending, exists,
                    changeChan, input, missed, mismatched>>
    BY <1>9 DEF outdatedArtifacts, fsVars
  <2> QED BY <2>1, <2>2, <2>3, TypesNow, LoopTyped
<1>10. CASE outdatedUnsaved
  <2>1. /\ loop' \in LoopType /\ loop'.pc = "storing" /\ loop'.left = {}
        /\ unsavedFiles' \in SUBSET Path
    BY <1>10, TypesNow DEF outdatedUnsaved, LoopType
  <2>2. UNCHANGED <<asking, requests, changes, artifacts, timedOutFiles, notified, waiting,
                    worker, resetter, watchCounts, fsVars, input, history>>
    BY <1>10 DEF outdatedUnsaved
  <2>3. TypeOK'
    BY <2>1, <2>2, ZenonT(40) DEF TypeInv, TypeOK, fsVars, input, history
  <2>4. AtHand'
    BY <2>1, <2>2 DEF TypeInv, AtHand, IsMap
  <2> QED BY <2>3, <2>4 DEF TypeInv
<1>11. ASSUME NEW p \in Path, StoreChange(p) PROVE TypeInv'
  <2>1. IsMap(changes')
    BY <1>11, TypesNow, StoredKeys DEF StoreChange
  <2>2. loop' \in LoopType /\ loop'.pc = "storing" /\ loop'.left = loop.left
    BY <1>11, TypesNow DEF StoreChange, LoopType
  <2>3. UNCHANGED <<asking, requests, artifacts, unsavedFiles, timedOutFiles, notified, waiting,
                    worker, resetter, watchCounts, fsVars, input, history>> /\ loop.pc = "storing"
    BY <1>11 DEF StoreChange
  <2>4. TypeOK'
    BY <2>1, <2>2, <2>3, ZenonT(40) DEF TypeInv, TypeOK, IsMap, fsVars, input, history
  <2>5. AtHand'
    BY <2>1, <2>2, <2>3 DEF TypeInv, AtHand, IsMap
  <2> QED BY <2>4, <2>5 DEF TypeInv
(* The worker                                                              *)
<1>12. ASSUME NEW kind \in {"request", "change"}, JobStarts(kind) PROVE TypeInv'
  <2>1. /\ worker' = [pc |-> "next", kind |-> kind, path |-> NoPath, stale |-> {}, purged |-> NoPath,
                      todo |-> IF kind = "request" THEN requests ELSE changes]
        /\ UNCHANGED <<asking, mapVars, notified, loop, resetter, watchCounts, fsVars, input, history>>
    BY <1>12 DEF JobStarts, IdleWorker
  <2>2. waiting' \in [{"request", "change"} -> Nat]
    BY <1>12, TypesNow DEF JobStarts
  <2>3. WorkerAtHand(worker')
    BY <2>1, TypesNow DEF WorkerAtHand, WorkerType, IsMap
  <2> QED BY <2>1, <2>2, <2>3, TypesNow, WorkerTyped DEF mapVars, history
<1>13. CASE JobEnds
  <2>1. WorkerAtHand(worker')
    BY <1>13, EmptyIsMap DEF JobEnds, IdleWorker, WorkerAtHand, WorkerType, IsMap
  <2> QED BY <1>13, <2>1, TypesNow, WorkerTyped DEF JobEnds, mapVars, history
<1>14. ASSUME worker.pc = "next", worker.todo # Empty
       PROVE  /\ MostRecent \in Path /\ IsMap(Deleted(worker.todo, MostRecent))
              /\ IsMap(Deleted(changes, MostRecent))
              /\ worker.stale = {} /\ worker.purged = NoPath
  BY <1>14, MostRecentIsThere, DeletedKeys, TypesNow DEF WorkerAtHand
<1>15. CASE SkipChange
  <2>1. WorkerAtHand(worker')
    BY <1>15, <1>14, TypesNow DEF SkipChange, WorkerAtHand, WorkerType, IsMap
  <2>2. IsMap(changes')
    BY <1>15, <1>14 DEF SkipChange
  <2>3. missed' \in [Path -> SUBSET Path]
    BY <1>15, <1>14, TypesNow, IndexerAssumption DEF SkipChange
  <2> QED BY <1>15, <2>1, <2>2, <2>3, TypesNow, WorkerTyped DEF SkipChange
<1>16. CASE Filter
  <2>1. WorkerAtHand(worker')
    BY <1>16, <1>14, TypesNow DEF Filter, WorkerAtHand, WorkerType, IsMap
  <2> QED BY <1>16, <2>1, TypesNow, WorkerTyped DEF Filter, mapVars, history
<1>17. ASSUME worker.purged = NoPath PROVE WorkerAtHand(ToNext)
  BY <1>17, TypesNow DEF ToNext, WorkerAtHand, WorkerType
<1>18. CASE SkipRequest
  <2>1. worker.path \in Path /\ worker.pc \in {"filtered", "absent"} /\ worker.purged = NoPath
    BY <1>18, TypesNow DEF SkipRequest, WorkerAtHand
  <2>2. WorkerAtHand(worker')
    BY <1>18, <1>17, <2>1, TypesNow DEF SkipRequest, WorkerAtHand, WorkerType
  <2>3. IsMap(requests')
    BY <1>18, <2>1, TypesNow, DeletedKeys DEF SkipRequest
  <2> QED BY <1>18, <2>2, <2>3, TypesNow, WorkerTyped DEF SkipRequest, history
<1>19. CASE StoreUnsaved
  <2>1. worker.path \in Path /\ worker.purged = NoPath
    BY <1>19, TypesNow DEF StoreUnsaved, WorkerAtHand
  <2>2. WorkerAtHand(worker')
    BY <1>19, <1>17, <2>1 DEF StoreUnsaved
  <2>3. unsavedFiles' \in SUBSET Path
    BY <1>19, <2>1, TypesNow DEF StoreUnsaved
  <2> QED BY <1>19, <2>2, <2>3, TypesNow, WorkerTyped DEF StoreUnsaved, history
<1>20. CASE BuildStarts
  <2>1. WorkerAtHand(worker')
    BY <1>20, <1>14, TypesNow DEF BuildStarts, WorkerAtHand, WorkerType, IsMap
  <2>2. IsMap(changes')
    BY <1>20, <1>14, TypesNow DEF BuildStarts
  <2>3. missed' \in [Path -> SUBSET Path] /\ overlooked' \in [Path -> SUBSET Path]
    BY <1>20, <1>14, TypesNow DEF BuildStarts
  <2> QED BY <1>20, <2>1, <2>2, <2>3, TypesNow, WorkerTyped DEF BuildStarts
<1>21. CASE BuildFails \/ WatchDirs
  <2>1. worker.path \in Path /\ worker' = ToNext /\ worker.pc \in {"building", "watching"}
    BY <1>21, TypesNow DEF BuildFails, WatchDirs, WorkerAtHand
  <2>2. WorkerAtHand(worker')
    BY <1>17, <2>1, TypesNow DEF WorkerAtHand
  <2>3. IsMap(requests')
    BY <1>21, <2>1, TypesNow, DeletedKeys DEF BuildFails, WatchDirs, RequestDone
  <2>4. watchCounts' \in [Dir -> Nat]
    BY <1>21, TypesNow DEF BuildFails, WatchDirs, Watch
  <2>5. timedOutFiles' \in SUBSET Path /\ missed' \in [Path -> SUBSET Path] /\ mismatched' \in BOOLEAN
    <3>1. CASE BuildFails
      <4>1. missed' \in [Path -> SUBSET Path]
        BY <2>1, <3>1, TypesNow, IndexerAssumption DEF BuildFails
      <4>2. timedOutFiles' \in SUBSET Path /\ mismatched' = mismatched
        BY <2>1, <3>1, TypesNow DEF BuildFails
      <4> QED BY <4>1, <4>2, TypesNow
    <3>2. CASE WatchDirs
      BY <3>2, TypesNow DEF WatchDirs
    <3> QED BY <1>21, <3>1, <3>2
  <2>6. UNCHANGED <<asking, changes, artifacts, unsavedFiles, notified, loop, waiting, resetter,
                    fsVars, input, overlooked>>
    BY <1>21 DEF BuildFails, WatchDirs
  <2> QED BY <2>2, <2>3, <2>4, <2>5, <2>6, TypesNow, WorkerTyped
<1>22. CASE BuildReturns
  <2>1. WorkerAtHand(worker')
    BY <1>22, TypesNow DEF BuildReturns, WorkerAtHand, WorkerType
  <2>2. mismatched' \in BOOLEAN
    BY <1>22, TypesNow DEF BuildReturns
  <2> QED BY <1>22, <2>1, <2>2, TypesNow, WorkerTyped DEF BuildReturns, mapVars
<1>23. ASSUME NEW k \in Path, Purge(k) PROVE TypeInv'
  <2>1. /\ worker.pc = "purging" /\ artifacts' = [artifacts EXCEPT ![k] = NoArtifact]
        /\ worker' = [worker EXCEPT !.purged = k]
        /\ UNCHANGED <<asking, requests, changes, unsavedFiles, timedOutFiles, notified, loop, waiting,
                       resetter, watchCounts, fsVars, input, history>>
    BY <1>23 DEF Purge
  <2>2. /\ worker' \in WorkerType /\ worker'.purged = k
        /\ worker'.pc = worker.pc /\ worker'.path = worker.path /\ worker'.stale = worker.stale
        /\ worker'.todo = worker.todo
    BY <2>1, TypesNow DEF WorkerAtHand, WorkerType
  <2>3. artifacts' \in [Path -> (SUBSET Path) \cup {NoArtifact}] /\ artifacts'[k] = NoArtifact
    BY <2>1, TypesNow
  <2>4. TypeOK'
    BY <2>1, <2>2, <2>3, ZenonT(40) DEF TypeInv, TypeOK, fsVars, input, history
  <2>5. AtHand'
    BY <2>1, <2>2, <2>3 DEF TypeInv, AtHand, IsMap
  <2> QED BY <2>4, <2>5 DEF TypeInv
<1>24. CASE UnwatchPurged
  <2>1. WorkerAtHand(worker')
    BY <1>24, TypesNow DEF UnwatchPurged, WorkerAtHand, WorkerType
  <2>2. watchCounts' \in [Dir -> Nat]
    BY <1>24, TypesNow DEF UnwatchPurged, Unwatch
  <2> QED BY <1>24, <2>1, <2>2, TypesNow, WorkerTyped DEF UnwatchPurged, mapVars, history
<1>25. CASE Store
  <2>1. /\ worker.pc = "purging" /\ worker.purged = NoPath
        /\ unsavedFiles' = unsavedFiles \ Bundle[worker.path]
        /\ artifacts' = [artifacts EXCEPT ![worker.path] = worker.stale]
        /\ worker' = [worker EXCEPT !.pc = "watching", !.stale = {}]
        /\ UNCHANGED <<asking, requests, changes, timedOutFiles, notified, loop, waiting, resetter,
                       watchCounts, fsVars, input, history>>
    BY <1>25 DEF Store
  <2>2. /\ worker' \in WorkerType /\ worker'.purged = NoPath /\ worker'.pc = "watching"
        /\ worker'.path = worker.path /\ worker'.stale = {} /\ worker'.todo = worker.todo
        /\ worker.path \in Path
    BY <2>1, TypesNow DEF WorkerAtHand, WorkerType
  <2>3. artifacts' \in [Path -> (SUBSET Path) \cup {NoArtifact}] /\ unsavedFiles' \in SUBSET Path
    BY <2>1, <1>0, TypesNow DEF WorkerType
  <2>4. TypeOK'
    BY <2>1, <2>2, <2>3, ZenonT(40) DEF TypeInv, TypeOK, fsVars, input, history
  <2>5. AtHand'
    BY <2>1, <2>2 DEF TypeInv, AtHand, IsMap
  <2> QED BY <2>4, <2>5 DEF TypeInv
(* reset()                                                                 *)
<1>26. CASE Reset \/ ResetReturns
  <2>1. resetter' \in ResetterType /\ resetter'.pc # "deleting" /\ mismatched' \in BOOLEAN
    BY <1>26, TypesNow DEF Reset, ResetReturns, ResetterType, history
  <2>2. UNCHANGED <<asking, mapVars, notified, loop, waiting, worker, watchCounts, fsVars, input,
                    missed, overlooked>>
    BY <1>26 DEF Reset, ResetReturns, history
  <2> QED BY <2>1, <2>2, TypesNow, ResetTyped
<1>27. ASSUME NEW k \in Path, ResetUnwatches(k) \/ ResetPasses(k) PROVE TypeInv'
  <2>1. resetter' \in ResetterType /\ (resetter'.pc = "deleting" => resetter'.key \in Path)
    BY <1>27, TypesNow DEF ResetUnwatches, ResetPasses, ResetterType
  <2>2. watchCounts' \in [Dir -> Nat]
    BY <1>27, TypesNow DEF ResetUnwatches, ResetPasses, Unwatch
  <2>3. UNCHANGED <<asking, mapVars, notified, loop, waiting, worker, fsVars, input, history>>
    BY <1>27 DEF ResetUnwatches, ResetPasses
  <2> QED BY <2>1, <2>2, <2>3, TypesNow, ResetTyped DEF history
<1>28. CASE ResetDeletes
  <2>1. /\ resetter.pc = "deleting" /\ artifacts' = [artifacts EXCEPT ![resetter.key] = NoArtifact]
        /\ resetter' = [resetter EXCEPT !.pc = "ranging", !.key = NoPath]
        /\ UNCHANGED <<asking, requests, changes, unsavedFiles, timedOutFiles, notified, loop, waiting,
                       worker, watchCounts, fsVars, input, history>>
    BY <1>28 DEF ResetDeletes
  <2>2. resetter' \in ResetterType /\ resetter'.pc = "ranging"
    BY <2>1, TypesNow DEF ResetterType
  <2>3. /\ artifacts' \in [Path -> (SUBSET Path) \cup {NoArtifact}]
        /\ \A k \in Path : artifacts[k] = NoArtifact => artifacts'[k] = NoArtifact
    BY <2>1, TypesNow
  <2>4. TypeOK'
    BY <2>1, <2>2, <2>3, ZenonT(40) DEF TypeInv, TypeOK, fsVars, input, history
  <2>5. AtHand'
    BY <2>1, <2>2, <2>3, <1>0 DEF TypeInv, AtHand, WorkerType, IsMap
  <2> QED BY <2>4, <2>5 DEF TypeInv
<1> QED
  BY <1>1, <1>2, <1>3, <1>4, <1>5, <1>6, <1>7, <1>8, <1>9, <1>10, <1>11, <1>12, <1>13, <1>15, <1>16,
     <1>18, <1>19, <1>20, <1>21, <1>22, <1>23, <1>24, <1>25, <1>26, <1>27, <1>28
     DEF Next, DriverStep, LoopStep, JobStep

-----------------------------------------------------------------------------
(* Watches                                                                 *)

(* The artifacts that a directory is watched for.                          *)
Counted(d) == {k \in Path : Watched(k) /\ d \in watchedDirs(k)}

(* reset() and the end of a build do not meet, and nobody but reset() can  *)
(* take away an artifact that is about to be watched.                      *)
Exclusive ==
    ~mismatched => /\ worker.pc \in {"purging", "watching"} => resetter.pc \in {"unused", "over"}
                   /\ worker.pc = "watching" => worker.path \in Stored

WatchInv == Exclusive /\ WatchesMatch

(* A step that watches nothing, and leaves what the watches are for.       *)
LEMMA NoneWatched ==
    ASSUME WatchInv, Exclusive', UNCHANGED watchCounts, mismatched' \/ ~mismatched,
           ~mismatched => \A k \in Path : Watched(k)' <=> Watched(k)
    PROVE  WatchInv'
<1> SUFFICES ASSUME ~mismatched', NEW d \in Dir
             PROVE  watchCounts'[d] = Cardinality(Counted(d)')
  BY DEF WatchInv, WatchesMatch, Counted
<1>1. Counted(d)' = Counted(d)
  BY DEF Counted, watchedDirs
<1> QED BY <1>1 DEF WatchInv, WatchesMatch, Counted

(* Unwatch(watchedDirs(k)) undoes what was counted for the artifact k.     *)
LEMMA OneUnwatched ==
    ASSUME TypeOK, WatchInv, Exclusive', NEW k \in Path, Unwatch(watchedDirs(k)), mismatched' \/ ~mismatched,
           ~mismatched => Watched(k) /\ \A j \in Path : Watched(j)' <=> Watched(j) /\ j # k
    PROVE  WatchInv'
<1> SUFFICES ASSUME ~mismatched', NEW d \in Dir
             PROVE  watchCounts'[d] = Cardinality(Counted(d)')
  BY DEF WatchInv, WatchesMatch, Counted
<1>1. watchCounts[d] = Cardinality(Counted(d))
  BY DEF WatchInv, WatchesMatch, Counted
<1>2. IsFiniteSet(Counted(d))
  <2>1. Counted(d) \subseteq Path
    BY DEF Counted
  <2> QED BY <2>1, FS_Subset, IndexerAssumption
<1>3. watchCounts'[d] = IF d \in watchedDirs(k) /\ watchCounts[d] > 0
                        THEN watchCounts[d] - 1 ELSE watchCounts[d]
  BY DEF Unwatch
<1>4. Counted(d)' = Counted(d) \ {k}
  BY DEF Counted, watchedDirs
<1>5. CASE d \in watchedDirs(k)
  <2>1. k \in Counted(d)
    BY <1>5 DEF Counted
  <2>2. Cardinality(Counted(d) \ {k}) = Cardinality(Counted(d)) - 1 /\ Cardinality(Counted(d)) \in Nat
    BY <1>2, <2>1, FS_RemoveElement, FS_CardinalityType
  <2>3. Cardinality(Counted(d)) # 0
    BY <1>2, <2>1, FS_EmptySet
  <2>4. watchCounts[d] > 0 /\ watchCounts'[d] = watchCounts[d] - 1
    BY <1>1, <1>3, <1>5, <2>2, <2>3
  <2> QED BY <1>1, <1>4, <2>2, <2>4
<1>6. CASE d \notin watchedDirs(k)
  <2>1. Counted(d) \ {k} = Counted(d)
    BY <1>6 DEF Counted
  <2> QED BY <1>1, <1>3, <1>4, <1>6, <2>1
<1> QED BY <1>5, <1>6

(* The artifact that was stored is counted as soon as it is watched.       *)
LEMMA OneWatched ==
    ASSUME TypeOK, WatchInv, Exclusive', NEW k \in Path, Watch(watchedDirs(k)), mismatched' \/ ~mismatched,
           ~mismatched => ~Watched(k) /\ \A j \in Path : Watched(j)' <=> Watched(j) \/ j = k
    PROVE  WatchInv'
<1> SUFFICES ASSUME ~mismatched', NEW d \in Dir
             PROVE  watchCounts'[d] = Cardinality(Counted(d)')
  BY DEF WatchInv, WatchesMatch, Counted
<1>1. watchCounts[d] = Cardinality(Counted(d))
  BY DEF WatchInv, WatchesMatch, Counted
<1>2. IsFiniteSet(Counted(d))
  <2>1. Counted(d) \subseteq Path
    BY DEF Counted
  <2> QED BY <2>1, FS_Subset, IndexerAssumption
<1>3. watchCounts'[d] = IF d \in watchedDirs(k) THEN watchCounts[d] + 1 ELSE watchCounts[d]
  BY DEF Watch
<1>4. k \notin Counted(d) /\ Counted(d)' = IF d \in watchedDirs(k) THEN Counted(d) \cup {k} ELSE Counted(d)
  BY DEF Counted, watchedDirs
<1>5. Cardinality(Counted(d) \cup {k}) = Cardinality(Counted(d)) + 1
  BY <1>2, <1>4, FS_AddElement
<1> QED BY <1>1, <1>3, <1>4, <1>5

LEMMA InitWatches == Init => WatchInv
<1> SUFFICES ASSUME Init PROVE WatchInv
  OBVIOUS
<1>1. worker.pc = "idle" /\ worker.purged = NoPath /\ Stored = {}
  BY DEF Init, IdleWorker, Stored
<1>2. ASSUME NEW d \in Dir PROVE watchCounts[d] = Cardinality(Counted(d))
  <2>1. Counted(d) = {}
    BY <1>1, IndexerAssumption DEF Counted, Watched
  <2> QED BY <2>1, FS_EmptySet DEF Init
<1> QED BY <1>1, <1>2 DEF WatchInv, WatchesMatch, Counted, Exclusive

LEMMA StepWatches == TypeInv /\ WatchInv /\ [Next]_vars => WatchInv'
<1> SUFFICES ASSUME TypeInv, WatchInv, [Next]_vars PROVE WatchInv'
  OBVIOUS
<1>0. /\ TypeOK /\ worker \in WorkerType /\ worker.purged \in Path \cup {NoPath}
      /\ worker.purged # NoPath => worker.pc = "purging" /\ worker.purged \notin Stored
      /\ worker.pc \notin {"idle", "next"} => worker.path \in Path
  BY TypesNow DEF TypeInv, WorkerAtHand, WorkerType, Stored
(* Steps that leave artifacts, and do not touch an end of a build.         *)
<1>1. ASSUME UNCHANGED <<watchCounts, artifacts, resetter, mismatched>>, worker'.purged = worker.purged,
             \/ worker'.pc = worker.pc /\ worker'.path = worker.path
             \/ worker.pc # "watching" /\ worker'.pc \notin {"purging", "watching"}
      PROVE  WatchInv'
  <2>1. Stored' = Stored
    BY <1>1 DEF Stored
  <2>2. Exclusive'
    BY <1>1, <2>1 DEF WatchInv, Exclusive
  <2>3. \A k \in Path : Watched(k)' <=> Watched(k)
    BY <1>1, <2>1 DEF Watched
  <2> QED BY <1>1, <2>2, <2>3, NoneWatched
<1>2. ASSUME UNCHANGED <<watchCounts, artifacts, resetter, mismatched, worker>> PROVE WatchInv'
  BY <1>1, <1>2
<1>3. CASE UNCHANGED vars
  BY <1>2, <1>3 DEF vars, mapVars, history
<1>4. ASSUME NEW f \in Path, Write(f) PROVE WatchInv'
  <2>1. /\ UNCHANGED <<resetter, watchCounts, mismatched>>
        /\ worker'.pc = worker.pc /\ worker'.path = worker.path /\ worker'.purged = worker.purged
    BY <1>4, <1>0 DEF Write, WorkerType
  <2>2. Stored' = Stored
    <3>1. \A k \in Path : artifacts'[k] = IF k \in Containing(f) THEN artifacts[k] \cup {f} ELSE artifacts[k]
      BY <1>4 DEF Write
    <3>2. \A k \in Stored : artifacts[k] \in SUBSET Path /\ artifacts[k] \cup {f} \in SUBSET Path
      BY <1>0 DEF Stored, TypeOK
    <3> QED BY <3>1, <3>2, IndexerAssumption DEF Stored, Containing
  <2>3. Exclusive'
    BY <2>1, <2>2 DEF WatchInv, Exclusive
  <2>4. \A k \in Path : Watched(k)' <=> Watched(k)
    BY <2>1, <2>2 DEF Watched
  <2> QED BY <2>1, <2>3, <2>4, NoneWatched
<1>5. ASSUME NEW p \in Path,
             artifactThatContains(p) \/ StoreRequest(p) \/ NotifyLoop(p) \/ outdatedArtifacts(p) \/ StoreChange(p)
      PROVE  WatchInv'
  BY <1>2, <1>5 DEF artifactThatContains, StoreRequest, NotifyLoop, outdatedArtifacts, StoreChange,
                    mapVars, history
<1>6. CASE SendChanges \/ RequestNotified \/ ChangeReceived \/ outdatedUnsaved \/ AddChangeJob
  BY <1>2, <1>6 DEF SendChanges, RequestNotified, ChangeReceived, outdatedUnsaved, AddChangeJob,
                    mapVars, history
<1>7. ASSUME UNCHANGED <<watchCounts, artifacts, resetter, mismatched>>, worker.pc \notin {"purging", "watching"},
             worker'.purged = NoPath \/ worker'.purged = worker.purged, worker'.pc \notin {"purging", "watching"}
      PROVE  WatchInv'
  BY <1>0, <1>1, <1>7
<1>8. ASSUME NEW kind \in {"request", "change"}, JobStarts(kind) PROVE WatchInv'
  BY <1>7, <1>8 DEF JobStarts, IdleWorker, mapVars, history
<1>9. CASE JobEnds \/ SkipChange \/ Filter \/ SkipRequest \/ StoreUnsaved \/ BuildStarts \/ BuildFails
  <2>1. UNCHANGED <<watchCounts, artifacts, resetter, mismatched>>
    BY <1>9 DEF JobEnds, SkipChange, Filter, SkipRequest, StoreUnsaved, BuildStarts, BuildFails,
                mapVars, history
  <2>2. /\ worker.pc \notin {"purging", "watching"} /\ worker'.pc \notin {"purging", "watching"}
        /\ worker'.purged = NoPath \/ worker'.purged = worker.purged
    <3>1. CASE JobEnds
      BY <3>1 DEF JobEnds, IdleWorker
    <3>2. CASE SkipChange \/ Filter \/ BuildStarts
      BY <3>2, <1>0 DEF SkipChange, Filter, BuildStarts, WorkerType
    <3>3. CASE SkipRequest \/ StoreUnsaved \/ BuildFails
      BY <3>3, <1>0 DEF SkipRequest, StoreUnsaved, BuildFails, ToNext, WorkerType
    <3> QED BY <1>9, <3>1, <3>2, <3>3
  <2> QED BY <1>7, <2>1, <2>2
<1>10. CASE BuildReturns
  <2>1. /\ worker.pc = "building" /\ worker'.pc = "purging" /\ worker'.purged = worker.purged
        /\ UNCHANGED <<artifacts, resetter, watchCounts>>
        /\ mismatched' = (mismatched \/ resetter.pc \in {"ranging", "deleting"})
    BY <1>10, <1>0 DEF BuildReturns, mapVars, WorkerType
  <2>2. resetter.pc \in {"unused", "ranging", "deleting", "over"}
    BY TypesNow DEF ResetterType
  <2>3. Exclusive'
    BY <2>1, <2>2 DEF WatchInv, Exclusive
  <2>4. \A k \in Path : Watched(k)' <=> Watched(k)
    BY <2>1 DEF Watched, Stored
  <2> QED BY <2>1, <2>3, <2>4, NoneWatched
<1>11. ASSUME NEW k \in Path, Purge(k) PROVE WatchInv'
  <2>1. /\ worker.pc = "purging" /\ k \in Stored /\ UNCHANGED <<watchCounts, resetter, mismatched>>
        /\ artifacts' = [artifacts EXCEPT ![k] = NoArtifact]
        /\ worker.purged = NoPath /\ worker'.purged = k /\ worker'.pc = "purging"
    BY <1>11, <1>0 DEF Purge, Containing, history, WorkerType
  <2>2. Stored' = Stored \ {k}
    BY <1>0, <2>1 DEF Stored, TypeOK
  <2>3. Exclusive'
    BY <2>1 DEF WatchInv, Exclusive
  <2>4. ~mismatched => \A j \in Path : Watched(j)' <=> Watched(j)
    BY <2>1, <2>2, IndexerAssumption DEF WatchInv, Exclusive, Watched
  <2> QED BY <2>1, <2>3, <2>4, NoneWatched
<1>12. CASE UnwatchPurged
  <2> DEFINE k == worker.purged
  <2>1. /\ worker.pc = "purging" /\ k \in Path /\ k \notin Stored
        /\ UNCHANGED <<artifacts, resetter, mismatched>> /\ Unwatch(watchedDirs(k))
        /\ worker'.purged = NoPath /\ worker'.pc = "purging"
    BY <1>12, <1>0 DEF UnwatchPurged, mapVars, history, WorkerType
  <2>2. Exclusive'
    BY <2>1 DEF WatchInv, Exclusive
  <2>3. Watched(k) /\ \A j \in Path : Watched(j)' <=> Watched(j) /\ j # k
    BY <2>1, IndexerAssumption DEF Watched, Stored
  <2> QED BY <1>0, <2>1, <2>2, <2>3, OneUnwatched
<1>13. CASE Store
  <2>1. /\ worker.pc = "purging" /\ Containing(worker.path) = {} /\ worker'.pc = "watching"
        /\ worker'.path = worker.path /\ UNCHANGED <<resetter, watchCounts, mismatched>>
        /\ artifacts' = [artifacts EXCEPT ![worker.path] = worker.stale]
        /\ worker.purged = NoPath /\ worker'.purged = NoPath
    BY <1>13, <1>0 DEF Store, history, WorkerType
  <2>2. worker.path \in Path /\ worker.stale \in SUBSET Path
    BY <2>1, <1>0 DEF WorkerType
  <2>3. worker.path \notin Stored
    BY <2>1, <2>2, IndexerAssumption DEF Containing, Stored
  <2>4. Stored' = Stored \cup {worker.path}
    BY <1>0, <2>1, <2>2, IndexerAssumption DEF Stored, TypeOK
  <2>5. Exclusive'
    BY <2>1, <2>4 DEF WatchInv, Exclusive
  <2>6. \A k \in Path : Watched(k)' <=> Watched(k)
    BY <2>1, <2>3, <2>4 DEF Watched
  <2> QED BY <2>1, <2>5, <2>6, NoneWatched
<1>14. CASE WatchDirs
  <2>1. /\ worker.pc = "watching" /\ worker' = ToNext /\ UNCHANGED <<artifacts, resetter>>
        /\ mismatched' \/ (Watch(watchedDirs(worker.path)) /\ UNCHANGED mismatched)
    BY <1>14 DEF WatchDirs
  <2>2. /\ worker'.pc = "next" /\ worker'.purged = NoPath /\ worker.purged = NoPath
        /\ worker.path \in Path
    BY <1>0, <2>1 DEF ToNext, WorkerType
  <2>3. Exclusive'
    BY <2>2 DEF Exclusive
  <2>4. CASE mismatched'
    BY <2>3, <2>4 DEF WatchInv, WatchesMatch
  <2>5. CASE Watch(watchedDirs(worker.path)) /\ UNCHANGED mismatched
    <3>1. ~mismatched => worker.path \in Stored /\ resetter.pc # "deleting"
      BY <2>1 DEF WatchInv, Exclusive
    <3>2. ~mismatched => ~Watched(worker.path) /\ \A j \in Path : Watched(j)' <=> Watched(j) \/ j = worker.path
      BY <2>1, <2>2, <3>1, IndexerAssumption DEF Watched, Stored
    <3> QED BY <1>0, <2>2, <2>3, <2>5, <3>2, OneWatched
  <2> QED BY <2>1, <2>4, <2>5
<1>15. CASE Reset
  <2>1. /\ UNCHANGED <<artifacts, worker, watchCounts>> /\ resetter.pc = "unused" /\ resetter'.pc = "ranging"
        /\ mismatched' = (mismatched \/ worker.pc \in {"purging", "watching"})
    BY <1>15, TypesNow DEF Reset, mapVars, ResetterType
  <2>2. Exclusive'
    BY <2>1 DEF Exclusive
  <2>3. \A k \in Path : Watched(k)' <=> Watched(k)
    BY <2>1 DEF Watched, Stored
  <2> QED BY <2>1, <2>2, <2>3, NoneWatched
<1>16. ASSUME NEW k \in Path, ResetUnwatches(k) PROVE WatchInv'
  <2>1. /\ resetter.pc = "ranging" /\ k \in Stored /\ resetter'.pc = "deleting" /\ resetter'.key = k
        /\ Unwatch(watchedDirs(k)) /\ UNCHANGED <<artifacts, worker, mismatched>>
    BY <1>16 DEF ResetUnwatches, mapVars, history
  <2>2. ~mismatched => worker.pc \notin {"purging", "watching"}
    BY <2>1 DEF WatchInv, Exclusive
  <2>3. Exclusive'
    BY <2>1, <2>2 DEF Exclusive
  <2>4. ~mismatched => Watched(k) /\ \A j \in Path : Watched(j)' <=> Watched(j) /\ j # k
    BY <1>0, <2>1, <2>2, IndexerAssumption DEF Watched, Stored
  <2> QED BY <1>0, <2>1, <2>3, <2>4, OneUnwatched
<1>17. ASSUME NEW k \in Path, ResetPasses(k) PROVE WatchInv'
  <2>1. /\ UNCHANGED <<artifacts, worker, watchCounts, mismatched>> /\ resetter.pc = "ranging"
        /\ resetter'.pc = "ranging"
    BY <1>17, TypesNow DEF ResetPasses, mapVars, history, ResetterType
  <2>2. Exclusive' /\ \A j \in Path : Watched(j)' <=> Watched(j)
    BY <2>1 DEF WatchInv, Exclusive, Watched, Stored
  <2> QED BY <2>1, <2>2, NoneWatched
<1>18. CASE ResetDeletes
  <2>1. /\ resetter.pc = "deleting" /\ resetter.key \in Path /\ resetter'.pc = "ranging"
        /\ artifacts' = [artifacts EXCEPT ![resetter.key] = NoArtifact]
        /\ UNCHANGED <<worker, watchCounts, mismatched>>
    BY <1>18, TypesNow DEF ResetDeletes, history, TypeInv, AtHand, ResetterType
  <2>2. Stored' = Stored \ {resetter.key}
    BY <1>0, <2>1 DEF Stored, TypeOK
  <2>3. Exclusive'
    BY <2>1 DEF WatchInv, Exclusive
  <2>4. ~mismatched => \A k \in Path : Watched(k)' <=> Watched(k)
    BY <1>0, <2>1, <2>2, IndexerAssumption DEF WatchInv, Exclusive, Watched
  <2> QED BY <2>1, <2>3, <2>4, NoneWatched
<1>19. CASE ResetReturns
  <2>1. /\ UNCHANGED <<artifacts, worker, watchCounts, mismatched>> /\ resetter.pc = "ranging"
        /\ resetter'.pc = "over"
    BY <1>19, TypesNow DEF ResetReturns, mapVars, history, ResetterType
  <2>2. Exclusive' /\ \A k \in Path : Watched(k)' <=> Watched(k)
    BY <2>1 DEF WatchInv, Exclusive, Watched, Stored
  <2> QED BY <2>1, <2>2, NoneWatched
<1> QED
  BY <1>3, <1>4, <1>5, <1>6, <1>8, <1>9, <1>10, <1>11, <1>12, <1>13, <1>14, <1>15, <1>16, <1>17,
     <1>18, <1>19 DEF Next, DriverStep, LoopStep, JobStep

-----------------------------------------------------------------------------
(* Outdated artifacts                                                      *)

Seen(k, f) == f \notin missed[k] \cup overlooked[k]
Building == worker.pc \in {"building", "purging"}

(* The paths that the worker is going to be given.                         *)
Noted == loop.rebuild \cup Keys(changes)

(* A file that was written is one of the artifact's; and one that was      *)
(* written while the builder is at work is on its way too, so that the new *)
(* artifact is not forgotten when it is stored.                            *)
StaleInv ==
    /\ \A k \in Stored : artifacts[k] \subseteq Bundle[k]
    /\ StaleIsPending
    /\ \A f \in worker.stale :
         Seen(worker.path, f) => OnItsWay(worker.path, f) \/ worker.path \in Noted

LEMMA InitStale == Init => StaleInv
<1> SUFFICES ASSUME Init PROVE StaleInv
  OBVIOUS
<1>1. Stored = {} /\ worker.stale = {}
  BY DEF Init, Stored, IdleWorker
<1> QED BY <1>1 DEF StaleInv, StaleIsPending

(* Files that an artifact lacks, stored or being built.                    *)
Old(k, f) ==
    \/ k \in Stored /\ f \in artifacts[k]
    \/ Building /\ k = worker.path /\ f \in worker.stale

(* Steps that forget no change and start no build.                         *)
LEMMA NoneForgotten ==
    ASSUME StaleInv, Building => worker.path \in Path,
           ~Building => worker.stale = {},
           \A k \in Stored' : k \in Stored /\ artifacts'[k] = artifacts[k],
           \A k \in Path : \A f : Old(k, f) /\ Seen(k, f)' =>
              Seen(k, f) /\ (OnItsWay(k, f) => OnItsWay(k, f)' \/ k \in Noted'),
           Noted \subseteq Noted',
           \/ worker'.stale = worker.stale /\ worker'.path = worker.path /\ (Building => Building')
           \/ worker'.stale = {} /\ ~Building
    PROVE  StaleInv'
<1>1. \A k \in Stored' : artifacts'[k] \subseteq Bundle[k]
  BY DEF StaleInv
<1>2. ASSUME NEW k \in Stored', NEW f \in artifacts'[k], Seen(k, f)'
      PROVE  OnItsWay(k, f)' \/ BeingRebuilt(k, f)'
  <2>1. k \in Path /\ k \in Stored /\ f \in artifacts[k] /\ Old(k, f)
    BY <1>2 DEF Stored, Old
  <2>2. Seen(k, f) /\ (OnItsWay(k, f) => OnItsWay(k, f)' \/ k \in Noted')
    BY <1>2, <2>1
  <2>3. OnItsWay(k, f) \/ BeingRebuilt(k, f)
    BY <2>1, <2>2 DEF StaleInv, StaleIsPending, Seen
  <2>4. CASE OnItsWay(k, f)
    BY <2>2, <2>4 DEF BeingRebuilt, Noted
  <2>5. CASE BeingRebuilt(k, f)
    BY <2>5 DEF BeingRebuilt, Building, Noted
  <2> QED BY <2>3, <2>4, <2>5
<1>3. \A f \in worker'.stale :
        Seen(worker.path, f)' => OnItsWay(worker.path, f)' \/ worker'.path \in Noted'
  <2> SUFFICES ASSUME NEW f \in worker'.stale, Seen(worker.path, f)'
               PROVE  OnItsWay(worker.path, f)' \/ worker'.path \in Noted'
    OBVIOUS
  <2>1. /\ worker'.path = worker.path /\ f \in worker.stale /\ Building
        /\ worker.path \in Path /\ Old(worker.path, f)
    BY DEF Old
  <2>2. Seen(worker.path, f)' <=> f \notin missed'[worker'.path] \cup overlooked'[worker'.path]
    BY DEF Seen
  <2>3. PICK k \in Path : k = worker.path /\ k = worker'.path
    BY <2>1
  <2>4. Seen(k, f)'
    BY <2>2, <2>3 DEF Seen
  <2>5. Seen(k, f) /\ (OnItsWay(k, f) => OnItsWay(k, f)' \/ k \in Noted')
    BY <2>1, <2>3, <2>4
  <2>6. OnItsWay(k, f) \/ k \in Noted
    BY <2>1, <2>3, <2>5 DEF StaleInv
  <2>7. OnItsWay(k, f)' => OnItsWay(worker.path, f)'
    BY <2>3 DEF OnItsWay
  <2> QED BY <2>3, <2>5, <2>6, <2>7
<1>4. StaleIsPending'
  BY <1>2 DEF StaleIsPending, Seen
<1> QED BY <1>1, <1>3, <1>4 DEF StaleInv

LEMMA StepStale == TypeInv /\ StaleInv /\ [Next]_vars => StaleInv'
<1> SUFFICES ASSUME TypeInv, StaleInv, [Next]_vars PROVE StaleInv'
  OBVIOUS
<1>0. /\ worker \in WorkerType /\ loop \in LoopType
      /\ artifacts \in [Path -> (SUBSET Path) \cup {NoArtifact}]
      /\ missed \in [Path -> SUBSET Path] /\ overlooked \in [Path -> SUBSET Path]
      /\ worker.pc \notin {"idle", "next"} => worker.path \in Path
      /\ Building => worker.path \in Path /\ worker.stale \subseteq Bundle[worker.path]
      /\ ~Building => worker.stale = {}
      /\ loop.pc # "ranging" => loop.left = {}
      /\ loop.pc = "select" => loop.rebuild = {}
      /\ \A k, f : Old(k, f) => k \in Path /\ f \in Bundle[k]
  <2>1. /\ worker \in WorkerType /\ loop \in LoopType
        /\ artifacts \in [Path -> (SUBSET Path) \cup {NoArtifact}]
        /\ missed \in [Path -> SUBSET Path] /\ overlooked \in [Path -> SUBSET Path]
        /\ worker.pc \notin {"idle", "next"} => worker.path \in Path
        /\ Building => worker.path \in Path /\ worker.stale \subseteq Bundle[worker.path]
        /\ ~Building => worker.stale = {}
        /\ loop.pc # "ranging" => loop.left = {}
        /\ loop.pc = "select" => loop.rebuild = {}
    BY TypesNow DEF WorkerAtHand, Building, TypeInv, AtHand
  <2> QED BY <2>1 DEF Old, StaleInv, Stored
(* Nothing happens to the artifacts, the changes and the builds.           *)
<1>1. ASSUME UNCHANGED <<artifacts, changes, pending, changeChan, missed, overlooked>>,
             UNCHANGED loop \/ (loop' = IdleLoop /\ loop.rebuild = {} /\ loop.left = {}),
             \/ worker'.stale = worker.stale /\ worker'.path = worker.path /\ (Building => Building')
             \/ worker'.stale = {} /\ ~Building
      PROVE  StaleInv'
  <2>1. Noted' = Noted /\ Stored' = Stored
    BY <1>1 DEF Noted, Keys, Stored, IdleLoop
  <2>2. \A k, f : (Seen(k, f)' <=> Seen(k, f)) /\ (OnItsWay(k, f) => OnItsWay(k, f)')
    BY <1>1 DEF Seen, OnItsWay
  <2> QED BY <1>0, <1>1, <2>1, <2>2, NoneForgotten
<1>2. ASSUME UNCHANGED <<artifacts, changes, pending, changeChan, missed, overlooked, loop>>,
              worker'.pc = worker.pc, worker'.stale = worker.stale, worker'.path = worker.path
       PROVE  StaleInv'
  <2>1. Building => Building'
    BY <1>2 DEF Building
  <2>2. UNCHANGED <<artifacts, changes, pending, changeChan, missed, overlooked>> /\ UNCHANGED loop
    BY <1>2
  <2> QED BY <1>1, <1>2, <2>1, <2>2
<1>3. CASE UNCHANGED vars
  <2>1. UNCHANGED <<artifacts, changes, pending, changeChan, missed, overlooked, loop, worker>>
    BY <1>3 DEF vars, mapVars, fsVars, history
  <2> QED BY <1>2, <2>1
<1>4. ASSUME NEW p \in Path, \/ artifactThatContains(p) \/ StoreRequest(p) \/ NotifyLoop(p)
                             \/ ResetUnwatches(p) \/ ResetPasses(p)
      PROVE  StaleInv'
  <2>1. UNCHANGED <<artifacts, changes, pending, changeChan, missed, overlooked, loop, worker>>
    BY <1>4 DEF artifactThatContains, StoreRequest, NotifyLoop, ResetUnwatches, ResetPasses,
                mapVars, fsVars, history
  <2> QED BY <1>2, <2>1
<1>5. CASE RequestNotified \/ Reset \/ ResetReturns \/ UnwatchPurged
  <2>1. UNCHANGED <<artifacts, changes, pending, changeChan, missed, overlooked, loop>>
    BY <1>5 DEF RequestNotified, Reset, ResetReturns, UnwatchPurged, mapVars, fsVars, history
  <2>2. worker'.pc = worker.pc /\ worker'.stale = worker.stale /\ worker'.path = worker.path
    BY <1>5, <1>0 DEF RequestNotified, Reset, ResetReturns, UnwatchPurged, WorkerType
  <2> QED BY <1>2, <2>1, <2>2
<1>6. CASE AddChangeJob
  <2>1. loop' = IdleLoop /\ loop.rebuild = {} /\ loop.left = {}
    BY <1>6, <1>0 DEF AddChangeJob
  <2>2. UNCHANGED <<artifacts, changes, pending, changeChan, missed, overlooked>> /\ UNCHANGED worker
    BY <1>6 DEF AddChangeJob, mapVars, fsVars, history
  <2>3. Building => Building'
    BY <2>2 DEF Building
  <2> QED BY <1>1, <2>1, <2>2, <2>3
<1>7. ASSUME NEW kind \in {"request", "change"}, JobStarts(kind) PROVE StaleInv'
  <2>1. worker'.stale = {} /\ ~Building
    BY <1>7 DEF JobStarts, IdleWorker, Building
  <2>2. UNCHANGED <<artifacts, changes, pending, changeChan, missed, overlooked>> /\ UNCHANGED loop
    BY <1>7 DEF JobStarts, mapVars, fsVars, history
  <2> QED BY <1>1, <2>1, <2>2
<1>8. CASE JobEnds \/ WatchDirs \/ Filter \/ SkipRequest \/ StoreUnsaved
  <2>1. UNCHANGED <<artifacts, changes, pending, changeChan, missed, overlooked, loop>>
    BY <1>8 DEF JobEnds, WatchDirs, Filter, SkipRequest, StoreUnsaved, mapVars, fsVars, history
  <2>2. worker'.stale = {} /\ ~Building
    <3>1. CASE JobEnds
      BY <3>1 DEF JobEnds, IdleWorker, Building
    <3>2. CASE WatchDirs \/ StoreUnsaved
      BY <3>2, <1>0 DEF WatchDirs, StoreUnsaved, ToNext, Building, WorkerType
    <3>3. CASE Filter
      BY <3>3, <1>0 DEF Filter, Building, WorkerType
    <3>4. CASE SkipRequest
      BY <3>4, <1>0 DEF SkipRequest, ToNext, Building, WorkerType
    <3> QED BY <1>8, <3>1, <3>2, <3>3, <3>4
  <2> QED BY <1>1, <2>1, <2>2
<1>9. CASE BuildReturns
  <2>1. worker'.stale = worker.stale /\ worker'.path = worker.path /\ (Building => Building')
    BY <1>9, <1>0 DEF BuildReturns, Building, WorkerType
  <2>2. UNCHANGED <<artifacts, changes, pending, changeChan, missed, overlooked>> /\ UNCHANGED loop
    BY <1>9 DEF BuildReturns, mapVars, fsVars
  <2> QED BY <1>1, <2>1, <2>2
<1>10. ASSUME NEW k \in Path, artifacts' = [artifacts EXCEPT ![k] = NoArtifact],
             UNCHANGED <<changes, pending, changeChan, missed, overlooked, loop>>,
             worker'.pc = worker.pc, worker'.stale = worker.stale, worker'.path = worker.path
      PROVE  StaleInv'
  <2>1. \A j \in Stored' : j \in Stored /\ artifacts'[j] = artifacts[j]
    BY <1>0, <1>10 DEF Stored
  <2>2. /\ \A j, f : (Seen(j, f)' <=> Seen(j, f)) /\ (OnItsWay(j, f) => OnItsWay(j, f)')
        /\ Noted' = Noted /\ (Building => Building')
    BY <1>10 DEF Seen, OnItsWay, Noted, Keys, Building
  <2> QED BY <1>0, <1>10, <2>1, <2>2, NoneForgotten
<1>11. ASSUME NEW k \in Path, Purge(k) PROVE StaleInv'
  <2>1. /\ artifacts' = [artifacts EXCEPT ![k] = NoArtifact]
        /\ UNCHANGED <<changes, pending, changeChan, missed, overlooked, loop>>
        /\ worker'.pc = worker.pc /\ worker'.stale = worker.stale /\ worker'.path = worker.path
    BY <1>0, <1>11 DEF Purge, fsVars, history, WorkerType
  <2> QED BY <1>10, <2>1
<1>12. CASE ResetDeletes
  <2>1. resetter.key \in Path
    BY <1>12 DEF ResetDeletes, TypeInv, AtHand
  <2> QED BY <1>10, <1>12, <2>1 DEF ResetDeletes, fsVars, history
<1>13. CASE SendChanges
  <2>1. UNCHANGED <<artifacts, changes, worker, overlooked, loop>>
    BY <1>13 DEF SendChanges, mapVars
  <2>2. ASSUME NEW k \in Path, NEW f, Old(k, f), Seen(k, f)'
        PROVE  Seen(k, f) /\ (OnItsWay(k, f) => OnItsWay(k, f)')
    <3>1. CASE changeChan' = Append(changeChan, pending) /\ UNCHANGED missed
      <4>1. /\ changeChan \in Seq(SUBSET Path) /\ DOMAIN changeChan = 1..Len(changeChan)
            /\ Len(changeChan) \in Nat /\ pending \in SUBSET Path
        BY TypesNow
      <4>2. /\ DOMAIN changeChan' = 1..(Len(changeChan) + 1)
            /\ changeChan'[Len(changeChan) + 1] = pending
            /\ \A n \in 1..Len(changeChan) : changeChan'[n] = changeChan[n]
        BY <3>1, <4>1
      <4> QED BY <2>1, <2>2, <3>1, <4>1, <4>2 DEF Seen, OnItsWay
    <3>2. CASE Misses(pending) /\ UNCHANGED changeChan
      <4>1. f \in Bundle[k] /\ missed'[k] = missed[k] \cup (Bundle[k] \cap pending)
        BY <1>0, <2>2, <3>2 DEF Misses
      <4> QED BY <2>1, <2>2, <3>2, <4>1 DEF Seen, OnItsWay
    <3> QED BY <1>13, <3>1, <3>2 DEF SendChanges
  <2>3. /\ \A k \in Stored' : k \in Stored /\ artifacts'[k] = artifacts[k]
        /\ Noted \subseteq Noted' /\ (Building => Building')
    BY <2>1 DEF Stored, Noted, Keys, Building
  <2> QED BY <1>0, <2>1, <2>2, <2>3, NoneForgotten
<1>14. ASSUME NEW f \in Path, Write(f) PROVE StaleInv'
  <2>1. /\ UNCHANGED <<changes, changeChan, overlooked, loop>>
        /\ \/ pending' = pending \cup {f} /\ missed' = missed
           \/ Misses({f}) /\ pending' = pending
    BY <1>14 DEF Write
  <2>2. /\ worker'.pc = worker.pc /\ worker'.path = worker.path
        /\ worker'.stale \subseteq worker.stale \cup {f}
        /\ f \in worker'.stale => f \in worker.stale \/ (f \in Bundle[worker.path] /\ Building)
    BY <1>0, <1>14 DEF Write, Building, WorkerType
  <2>3. ASSUME NEW k \in Stored'
        PROVE  k \in Stored /\ artifacts'[k] \subseteq artifacts[k] \cup {f} /\ artifacts'[k] \subseteq Bundle[k]
    <3>1. artifacts'[k] = IF k \in Containing(f) THEN artifacts[k] \cup {f} ELSE artifacts[k]
      BY <1>14, <2>3 DEF Write, Stored
    <3> QED BY <3>1, <2>3 DEF Stored, Containing, StaleInv
  <2>4. ASSUME NEW k \in Path, f \in Bundle[k], Seen(k, f)' PROVE OnItsWay(k, f)'
    <3>1. Misses({f}) => f \in missed'[k]
      BY <2>4 DEF Misses
    <3> QED BY <2>1, <2>4, <3>1 DEF Seen, OnItsWay
  <2>5. \A k \in Path : \A g : (Seen(k, g)' => Seen(k, g)) /\ (OnItsWay(k, g) => OnItsWay(k, g)')
    <3>1. \A k \in Path : missed[k] \subseteq missed'[k]
      BY <1>0, <2>1 DEF Misses
    <3> QED BY <2>1, <3>1 DEF Seen, OnItsWay
  <2>6. ASSUME NEW k \in Stored', NEW g \in artifacts'[k], Seen(k, g)'
        PROVE  OnItsWay(k, g)' \/ BeingRebuilt(k, g)'
    <3>0. k \in Path /\ g \in Bundle[k]
      BY <2>3, <2>6 DEF Stored
    <3>1. CASE g = f
      BY <2>4, <2>6, <3>0, <3>1
    <3>2. CASE g # f
      <4>1. OnItsWay(k, g) \/ BeingRebuilt(k, g)
        BY <2>3, <2>5, <2>6, <3>0, <3>2 DEF StaleInv, StaleIsPending, Seen
      <4>2. BeingRebuilt(k, g) => BeingRebuilt(k, g)'
        BY <2>1, <2>2, <3>2 DEF BeingRebuilt, Keys
      <4> QED BY <2>5, <3>0, <4>1, <4>2
    <3> QED BY <3>1, <3>2
  <2>7. ASSUME NEW g \in worker'.stale, NEW k \in Path, k = worker.path, Seen(k, g)'
        PROVE  OnItsWay(k, g)' \/ k \in Noted'
    <3>1. CASE g \in worker.stale
      BY <2>1, <2>5, <2>7, <3>1 DEF StaleInv, Noted, Keys
    <3>2. CASE g = f /\ f \in Bundle[k]
      BY <2>4, <2>7, <3>2
    <3> QED BY <2>2, <2>7, <3>1, <3>2
  <2>8. \A g \in worker'.stale :
          Seen(worker.path, g)' => OnItsWay(worker.path, g)' \/ worker'.path \in Noted'
    <3>1. worker'.stale # {} => worker.path \in Path
      BY <1>0, <2>2
    <3> QED BY <2>2, <2>7, <3>1 DEF Seen, OnItsWay
  <2>9. StaleIsPending'
    BY <2>6 DEF StaleIsPending, Seen
  <2> QED BY <2>2, <2>3, <2>8, <2>9 DEF StaleInv
(* A change is received: every artifact is come by, then the unsaved files.*)
<1>15. CASE ChangeReceived
  <2>1. /\ UNCHANGED <<artifacts, changes, worker, pending, missed, overlooked>>
        /\ changeChan' = Tail(changeChan) /\ changeChan # <<>>
        /\ loop'.left = Path /\ loop'.paths = Head(changeChan) /\ loop.left = {} /\ loop.rebuild = {}
    BY <1>0, <1>15 DEF ChangeReceived, mapVars, history
  <2>2. ASSUME NEW k \in Path, NEW g PROVE OnItsWay(k, g) => OnItsWay(k, g)'
    <3>1. /\ changeChan \in Seq(SUBSET Path) /\ DOMAIN changeChan = 1..Len(changeChan)
          /\ DOMAIN changeChan' = 1..(Len(changeChan) - 1)
          /\ \A n \in 1..(Len(changeChan) - 1) : changeChan'[n] = changeChan[n + 1]
          /\ changeChan[1] = Head(changeChan) /\ Len(changeChan) \in Nat
      BY <2>1, TypesNow
    <3> SUFFICES ASSUME NEW n \in 1..Len(changeChan), g \in changeChan[n], n # 1
                 PROVE  \E i \in DOMAIN changeChan' : g \in changeChan'[i]
      BY <2>1, <3>1 DEF OnItsWay
    <3>2. n - 1 \in 1..(Len(changeChan) - 1) /\ (n - 1) + 1 = n
      BY <3>1
    <3>3. g \in changeChan'[n - 1]
      BY <3>1, <3>2
    <3> QED BY <3>1, <3>2, <3>3
  <2>3. /\ Noted \subseteq Noted' /\ (Building => Building')
        /\ \A k, g : Seen(k, g)' <=> Seen(k, g)
        /\ \A k \in Stored' : k \in Stored /\ artifacts'[k] = artifacts[k]
    BY <2>1 DEF Noted, Keys, Building, Seen, Stored
  <2> QED BY <1>0, <2>1, <2>2, <2>3, NoneForgotten
<1>16. ASSUME NEW j \in Path, outdatedArtifacts(j) PROVE StaleInv'
  <2>1. /\ UNCHANGED <<artifacts, changes, worker, pending, changeChan, missed>>
        /\ loop'.paths = loop.paths /\ loop'.left = loop.left \ {j}
        /\ loop'.rebuild = IF j \in Stored /\ Bundle[j] \cap loop.paths # {}
                           THEN loop.rebuild \cup {j} ELSE loop.rebuild
        /\ overlooked' = IF j \notin Stored /\ worker.path = j
                         THEN [overlooked EXCEPT ![j] = overlooked[j] \cup (worker.stale \cap loop.paths)]
                         ELSE overlooked
    BY <1>0, <1>16 DEF outdatedArtifacts, mapVars, fsVars, LoopType
  <2>2. ASSUME NEW k \in Path, NEW g, Old(k, g), Seen(k, g)'
        PROVE  Seen(k, g) /\ (OnItsWay(k, g) => OnItsWay(k, g)' \/ k \in Noted')
    <3>1. overlooked[k] \subseteq overlooked'[k]
      BY <1>0, <2>1
    <3>2. Seen(k, g)
      BY <2>1, <2>2, <3>1 DEF Seen
    <3>3. CASE k # j \/ g \notin loop.paths
      BY <2>1, <3>2, <3>3 DEF OnItsWay
    <3>4. CASE k = j /\ k \in Stored /\ g \in loop.paths
      <4>1. g \in Bundle[k]
        BY <1>0, <2>2
      <4> QED BY <2>1, <3>2, <3>4, <4>1 DEF Noted
    <3>5. CASE k = j /\ k \notin Stored /\ g \in loop.paths
      <4>1. k = worker.path /\ g \in worker.stale
        BY <2>2, <3>5 DEF Old
      <4>2. g \in overlooked'[k]
        BY <1>0, <2>1, <3>5, <4>1
      <4> QED BY <2>2, <4>2 DEF Seen
    <3> QED BY <3>2, <3>3, <3>4, <3>5
  <2>3. /\ Noted \subseteq Noted' /\ (Building => Building')
        /\ \A k \in Stored' : k \in Stored /\ artifacts'[k] = artifacts[k]
    BY <2>1 DEF Noted, Keys, Building, Stored
  <2> QED BY <1>0, <2>1, <2>2, <2>3, NoneForgotten
<1>17. CASE outdatedUnsaved
  <2>1. /\ UNCHANGED <<artifacts, changes, worker, pending, changeChan, missed, overlooked>>
        /\ loop'.left = {} /\ loop.left = {} /\ loop.rebuild \subseteq loop'.rebuild
    BY <1>0, <1>17 DEF outdatedUnsaved, fsVars, history, LoopType
  <2>2. /\ Noted \subseteq Noted' /\ (Building => Building')
        /\ \A k, g : (Seen(k, g)' <=> Seen(k, g)) /\ (OnItsWay(k, g) => OnItsWay(k, g)')
        /\ \A k \in Stored' : k \in Stored /\ artifacts'[k] = artifacts[k]
    BY <2>1 DEF Noted, Keys, Building, Seen, OnItsWay, Stored
  <2> QED BY <1>0, <2>1, <2>2, NoneForgotten
<1>18. ASSUME NEW p \in Path, StoreChange(p) PROVE StaleInv'
  <2>1. /\ UNCHANGED <<artifacts, worker, pending, changeChan, missed, overlooked>>
        /\ loop'.left = loop.left /\ loop'.paths = loop.paths /\ loop'.rebuild = loop.rebuild \ {p}
        /\ changes' = StoredNow(changes, p)
    BY <1>0, <1>18 DEF StoreChange, fsVars, history, LoopType
  <2>2. Keys(changes') = Keys(changes) \cup {p}
    BY <2>1, TypesNow, StoredKeys
  <2>3. Noted \subseteq Noted'
    BY <2>1, <2>2 DEF Noted, Keys
  <2>4. /\ Building => Building'
        /\ \A k, g : (Seen(k, g)' <=> Seen(k, g)) /\ (OnItsWay(k, g) => OnItsWay(k, g)')
        /\ \A k \in Stored' : k \in Stored /\ artifacts'[k] = artifacts[k]
    BY <2>1 DEF Building, Seen, OnItsWay, Stored
  <2> QED BY <1>0, <2>1, <2>3, <2>4, NoneForgotten
(* A path is taken off the changes, and built or given up.                 *)
<1>19. ASSUME NEW p \in Path, Noted \subseteq Noted' \cup {p}, worker.pc = "next", worker'.stale = {},
              UNCHANGED <<artifacts, pending, changeChan, loop>>,
              \A k \in Path \ {p} : missed'[k] = missed[k] /\ overlooked'[k] = overlooked[k],
              missed'[p] = Bundle[p] \/ (worker'.pc = "building" /\ worker'.path = p)
       PROVE  StaleInv'
  <2>1. Stored' = Stored
    BY <1>19 DEF Stored
  <2>2. ASSUME NEW k \in Stored', NEW g \in artifacts'[k], Seen(k, g)'
        PROVE  OnItsWay(k, g)' \/ BeingRebuilt(k, g)'
    <3>1. k \in Path /\ k \in Stored /\ g \in artifacts[k] /\ g \in Bundle[k]
      BY <1>19, <2>1, <2>2 DEF StaleInv, Stored
    <3>2. CASE k # p
      <4>1. Seen(k, g)
        BY <1>19, <2>2, <3>1, <3>2 DEF Seen
      <4>2. OnItsWay(k, g) \/ k \in Noted
        BY <1>19, <3>1, <4>1 DEF StaleInv, StaleIsPending, Seen, BeingRebuilt, Noted
      <4>3. OnItsWay(k, g) => OnItsWay(k, g)'
        BY <1>19 DEF OnItsWay
      <4>4. k \in Noted => k \in Noted'
        BY <1>19, <3>2
      <4> QED BY <4>2, <4>3, <4>4 DEF BeingRebuilt, Noted
    <3>3. CASE k = p
      <4>1. g \notin missed'[p]
        BY <2>2, <3>3 DEF Seen
      <4> QED BY <1>19, <3>1, <3>3, <4>1 DEF BeingRebuilt
    <3> QED BY <3>2, <3>3
  <2>3. StaleIsPending'
    BY <2>2 DEF StaleIsPending, Seen
  <2>4. \A k \in Stored' : artifacts'[k] \subseteq Bundle[k]
    BY <1>19, <2>1 DEF StaleInv
  <2> QED BY <1>19, <2>3, <2>4 DEF StaleInv
<1>20. ASSUME NEW p \in Path, changes' = Deleted(changes, p), loop' = loop
       PROVE  Noted \subseteq Noted' \cup {p}
  <2>1. Keys(changes') = Keys(changes) \ {p}
    BY <1>20, TypesNow, DeletedKeys
  <2> QED BY <1>20, <2>1 DEF Noted, Keys
<1>21. CASE SkipChange
  <2>1. MostRecent \in Path
    BY <1>21, MostRecentIsThere, TypesNow DEF SkipChange, WorkerAtHand
  <2>2. /\ worker.pc = "next" /\ worker'.stale = worker.stale
        /\ changes' = Deleted(changes, MostRecent)
        /\ missed' = [missed EXCEPT ![MostRecent] = Bundle[MostRecent]]
        /\ UNCHANGED <<artifacts, pending, changeChan, loop, overlooked>>
    BY <1>0, <1>21 DEF SkipChange, fsVars, WorkerType
  <2>3. worker'.stale = {}
    BY <1>0, <2>2 DEF Building
  <2>4. PICK p \in Path : p = MostRecent
    BY <2>1
  <2>5. /\ missed'[p] = Bundle[p]
        /\ \A k \in Path \ {p} : missed'[k] = missed[k] /\ overlooked'[k] = overlooked[k]
    BY <1>0, <2>2, <2>4
  <2>6. Noted \subseteq Noted' \cup {p}
    BY <1>20, <2>2, <2>4
  <2> QED BY <1>19, <2>2, <2>3, <2>5, <2>6
<1>22. CASE BuildStarts
  <2>1. MostRecent \in Path
    BY <1>22, MostRecentIsThere, TypesNow DEF BuildStarts, WorkerAtHand
  <2>2. /\ worker.pc = "next" /\ worker'.stale = worker.stale
        /\ worker'.pc = "building" /\ worker'.path = MostRecent
        /\ changes' = Deleted(changes, MostRecent) \/ changes' = changes
        /\ missed' = [missed EXCEPT ![MostRecent] = {}]
        /\ overlooked' = [overlooked EXCEPT ![MostRecent] = {}]
        /\ UNCHANGED <<artifacts, pending, changeChan, loop>>
    BY <1>0, <1>22 DEF BuildStarts, fsVars, WorkerType
  <2>3. worker'.stale = {}
    BY <1>0, <2>2 DEF Building
  <2>4. PICK p \in Path : p = MostRecent
    BY <2>1
  <2>5. \A k \in Path \ {p} : missed'[k] = missed[k] /\ overlooked'[k] = overlooked[k]
    BY <1>0, <2>2, <2>4
  <2>6. Noted \subseteq Noted' \cup {p}
    <3>1. CASE changes' = changes
      BY <2>2, <3>1 DEF Noted, Keys
    <3> QED BY <1>20, <2>2, <2>4, <3>1
  <2> QED BY <1>19, <2>2, <2>3, <2>4, <2>5, <2>6
<1>23. CASE BuildFails
  <2>1. /\ worker.pc = "building" /\ worker'.stale = {}
        /\ missed' = [missed EXCEPT ![worker.path] = Bundle[worker.path]]
        /\ UNCHANGED <<changes, artifacts, pending, changeChan, overlooked, loop>>
    BY <1>0, <1>23 DEF BuildFails, ToNext, fsVars, WorkerType
  <2>2. ASSUME NEW k \in Stored', NEW g \in artifacts'[k], Seen(k, g)'
        PROVE  OnItsWay(k, g)' \/ BeingRebuilt(k, g)'
    <3>1. k \in Path /\ k \in Stored /\ g \in artifacts[k] /\ g \in Bundle[k]
      BY <2>1, <2>2 DEF Stored, StaleInv
    <3>2. k # worker.path
      BY <1>0, <2>1, <2>2, <3>1 DEF Seen
    <3>3. Seen(k, g)
      BY <1>0, <2>1, <2>2, <3>1, <3>2 DEF Seen
    <3>4. OnItsWay(k, g) \/ k \in Noted
      BY <3>1, <3>2, <3>3 DEF StaleInv, StaleIsPending, Seen, BeingRebuilt, Noted
    <3> QED BY <2>1, <3>4 DEF BeingRebuilt, OnItsWay, Keys, Noted
  <2>3. StaleIsPending'
    BY <2>2 DEF StaleIsPending, Seen
  <2>4. \A k \in Stored' : artifacts'[k] \subseteq Bundle[k]
    BY <2>1 DEF Stored, StaleInv
  <2> QED BY <2>1, <2>3, <2>4 DEF StaleInv
<1>24. CASE Store
  <2>1. /\ worker.pc = "purging" /\ worker'.stale = {}
        /\ artifacts' = [artifacts EXCEPT ![worker.path] = worker.stale]
        /\ UNCHANGED <<changes, pending, changeChan, missed, overlooked, loop>>
    BY <1>0, <1>24 DEF Store, fsVars, history, WorkerType
  <2>2. worker.path \in Path /\ worker.stale \subseteq Bundle[worker.path]
    BY <1>0, <2>1 DEF Building
  <2>3. ASSUME NEW k \in Stored'
        PROVE  k \in Path /\ artifacts'[k] = IF k = worker.path THEN worker.stale ELSE artifacts[k]
    BY <1>0, <2>1, <2>2, <2>3 DEF Stored
  <2>4. ASSUME NEW k \in Stored', k # worker.path PROVE k \in Stored
    BY <2>3, <2>4 DEF Stored
  <2>5. ASSUME NEW k \in Stored', NEW g \in artifacts'[k], Seen(k, g)'
        PROVE  OnItsWay(k, g)' \/ BeingRebuilt(k, g)'
    <3>0. Seen(k, g)
      BY <2>1, <2>5 DEF Seen
    <3>1. OnItsWay(k, g) \/ k \in Noted
      <4>1. CASE k = worker.path
        BY <2>3, <2>5, <3>0, <4>1 DEF StaleInv
      <4>2. CASE k # worker.path
        <5>1. OnItsWay(k, g) \/ BeingRebuilt(k, g)
          BY <2>3, <2>4, <2>5, <3>0, <4>2 DEF StaleInv, StaleIsPending, Seen
        <5> QED BY <4>2, <5>1 DEF BeingRebuilt, Noted
      <4> QED BY <4>1, <4>2
    <3> QED BY <2>1, <3>1 DEF BeingRebuilt, OnItsWay, Keys, Noted
  <2>6. StaleIsPending'
    BY <2>5 DEF StaleIsPending, Seen
  <2>7. \A k \in Stored' : artifacts'[k] \subseteq Bundle[k]
    BY <2>2, <2>3, <2>4 DEF StaleInv
  <2> QED BY <2>1, <2>6, <2>7 DEF StaleInv
<1> QED
  BY <1>3, <1>4, <1>5, <1>6, <1>7, <1>8, <1>9, <1>11, <1>12, <1>13, <1>14, <1>15, <1>16, <1>17, <1>18,
     <1>21, <1>22, <1>23, <1>24 DEF Next, DriverStep, LoopStep, JobStep

-----------------------------------------------------------------------------
(* The theorems                                                            *)

IndexInv == TypeInv /\ WatchInv /\ StaleInv

(* The invariant of the indexer, of which the theorems below are parts.    *)
THEOREM Inductive == Spec => []IndexInv
<1>1. Init => IndexInv
  BY InitTypes, InitWatches, InitStale DEF IndexInv
<1>2. IndexInv /\ [Next]_vars => IndexInv'
  BY StepTypes, StepWatches, StepStale DEF IndexInv
<1> QED BY <1>1, <1>2, PTL DEF Spec

(* The values of all variables of the indexer, the watcher and reset().    *)
THEOREM IndexerTypes == Spec => []TypeOK
<1>1. IndexInv => TypeOK
  BY DEF IndexInv, TypeInv
<1> QED BY <1>1, Inductive, PTL

(* Whatever is built, purged, rebuilt and reset, each directory is watched *)
(* once per artifact with files in it.                                     *)
THEOREM WatchesMatchArtifacts == Spec => []WatchesMatch
<1>1. IndexInv => WatchesMatch
  BY DEF IndexInv, WatchInv
<1> QED BY <1>1, Inductive, PTL

(* An artifact made from old files is rebuilt, or the indexer is yet to be *)
(* told, whatever the order of builds, notifications and writes.           *)
THEOREM StaleArtifactsArePending == Spec => []StaleIsPending
<1>1. IndexInv => StaleIsPending
  BY DEF IndexInv, StaleInv
<1> QED BY <1>1, Inductive, PTL
=============================================================================
