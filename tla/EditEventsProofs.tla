--------------------------- MODULE EditEventsProofs ---------------------------
(***************************************************************************)
(* Editor events for any number of files, editors, texts and events.  Two  *)
(* facts carry the proofs: a driver that holds the text it is filed under  *)
(* is changed by no event, and no two readings of the clock are the same,  *)
(* so that cleanupLocked has no ties to break.                             *)
(***************************************************************************)
EXTENDS EditEvents, DataFacts

StateMap == [stateKey -> fileDriver \cup {NoDriver}]

(* No two drivers of a map were used at the same time.                     *)
DistinctTimes(st) == \A sk, tk \in Present(st) : sk # tk => st[sk].ts # st[tk].ts

(* All drivers of a map were used before a time.                           *)
Before(st, t) == \A sk \in Present(st) : st[sk].ts < t

(* An event that has the time it was received.                             *)
Waiting(i) == job[i].pc \in {"queued", "processed"}

-----------------------------------------------------------------------------
(* Operators                                                               *)

LEMMA PresentType ==
    ASSUME NEW st \in StateMap, NEW sk \in stateKey
    PROVE  sk \in Present(st) <=> st[sk] \in fileDriver
  BY EditAssumption DEF StateMap, Present, fileDriver

LEMMA KeyType ==
    ASSUME TypeOK, NEW i \in Event
    PROVE  /\ job[i] \in Job /\ Key(i) \in stateKey
           /\ Key(i)[1] = job[i].fs /\ Key(i)[2] = job[i].text
           /\ job[i].fs \in fileSource /\ job[i].text \in Text /\ job[i].ts \in Nat
  BY DEF TypeOK, Job, Key, stateKey

(* latestFileDriverLocked finds a driver when there is one.                *)
LEMMA LatestProperties ==
    ASSUME TypeOK, Before(states, now), NEW S, S \subseteq Present(states), S # {}
    PROVE  Latest(S) \in S
<1> DEFINE T == {n \in Nat : \E k \in S : n = states[k].ts}
<1>1. \A k \in S : k \in stateKey /\ states[k].ts \in Nat /\ states[k].ts < now
  <2> TAKE k \in S
  <2>1. k \in stateKey /\ states[k] \in fileDriver
    BY PresentType DEF TypeOK, StateMap, Present
  <2> QED BY <2>1 DEF fileDriver, Before
<1>2. now \in Nat
  BY DEF TypeOK
<1>3. T \subseteq Nat /\ T # {} /\ \A n \in T : n <= now
  BY <1>1, <1>2
<1> HIDE DEF T
<1>4. PICK m \in T : \A n \in T : n <= m
  BY <1>2, <1>3, GreatestNat
<1>5. PICK sk \in S : m = states[sk].ts
  BY <1>4 DEF T
<1>6. \A k \in S : states[k].ts <= states[sk].ts
  BY <1>1, <1>4, <1>5 DEF T
<1> QED
  BY <1>5, <1>6 DEF Latest

(* cleanupLocked keeps at most maxStates drivers: the oldest of those it   *)
(* keeps has all others among its younger ones.  It changes no driver, and *)
(* says so when it drops one.                                              *)
LEMMA CleanupProperties ==
    ASSUME NEW st \in StateMap, IsFiniteSet(Present(st)), DistinctTimes(st),
           lost \in BOOLEAN, cleanupLocked(st)
    PROVE  /\ states' \in StateMap
           /\ Present(states') \subseteq Present(st)
           /\ \A sk \in Present(states') : states'[sk] = st[sk]
           /\ lost' \in BOOLEAN
           /\ ~lost' => ~lost /\ Present(states') = Present(st)
           /\ IsFiniteSet(Present(states'))
           /\ Cardinality(Present(states')) <= maxStates
<1> DEFINE Younger(sk) == {k \in Present(st) : st[k].ts > st[sk].ts}
           kept == {sk \in Present(st) : Cardinality(Younger(sk)) < maxStates}
<1>1. /\ states' = [sk \in stateKey |-> IF sk \in kept THEN st[sk] ELSE NoDriver]
      /\ lost' = (lost \/ kept # Present(st))
  BY DEF cleanupLocked
<1>2. kept \subseteq Present(st) /\ IsFiniteSet(kept) /\ Present(st) \subseteq stateKey
  <2>1. kept \subseteq Present(st) /\ Present(st) \subseteq stateKey
    BY DEF Present
  <2> HIDE DEF kept
  <2> QED BY <2>1, FS_Subset
<1>3. \A sk \in Present(st) : st[sk] \in fileDriver /\ st[sk] # NoDriver /\ st[sk].ts \in Nat
  <2> TAKE sk \in Present(st)
  <2>1. st[sk] \in fileDriver /\ st[sk] # NoDriver
    BY PresentType DEF Present
  <2> QED BY <2>1 DEF fileDriver
<1>4. Cardinality(kept) <= maxStates
  <2>1. CASE kept = {}
    <3>1. Cardinality({}) = 0 /\ maxStates \in Nat
      BY FS_EmptySet, EditAssumption
    <3> HIDE DEF kept
    <3> QED BY <2>1, <3>1
  <2>2. CASE kept # {}
    <3> DEFINE T == {n \in Nat : \E k \in kept : n = st[k].ts}
    <3> HIDE DEF kept
    <3>1. T \subseteq Nat /\ T # {}
      BY <1>2, <1>3, <2>2
    <3> HIDE DEF T
    <3>2. PICK m \in T : \A n \in T : m <= n
      BY <3>1, LeastNat
    <3>3. PICK sk \in kept : m = st[sk].ts
      BY <3>2 DEF T
    <3>4. \A k \in kept \ {sk} : k \in Present(st) /\ st[k].ts > st[sk].ts
      BY <1>2, <1>3, <3>2, <3>3 DEF T, DistinctTimes
    <3>5. kept \ {sk} \subseteq Younger(sk)
      BY <3>4
    <3>6. IsFiniteSet(Younger(sk)) /\ Cardinality(Younger(sk)) < maxStates
      <4>1. Younger(sk) \subseteq Present(st)
        OBVIOUS
      <4>2. Cardinality(Younger(sk)) < maxStates
        BY DEF kept
      <4> HIDE DEF Younger
      <4> QED BY <4>1, <4>2, FS_Subset
    <3> HIDE DEF Younger
    <3>7. Cardinality(kept \ {sk}) <= Cardinality(Younger(sk))
      BY <3>5, <3>6, FS_Subset
    <3>8. Cardinality(kept \ {sk}) = Cardinality(kept) - 1
      BY <1>2, FS_RemoveElement
    <3>9. Cardinality(kept) \in Nat /\ Cardinality(Younger(sk)) \in Nat /\ maxStates \in Nat
      BY <1>2, <3>6, FS_CardinalityType, EditAssumption
    <3> QED BY <3>6, <3>7, <3>8, <3>9
  <2> QED BY <2>1, <2>2
<1> HIDE DEF kept
<1>5. states' \in StateMap
  BY <1>1, <1>2, <1>3 DEF StateMap
<1>6. Present(states') = kept
  BY <1>1, <1>2, <1>3 DEF Present
<1>7. \A sk \in Present(states') : states'[sk] = st[sk]
  BY <1>1, <1>2, <1>6
<1>8. lost' \in BOOLEAN /\ (~lost' => ~lost /\ kept = Present(st))
  BY <1>1
<1> QED BY <1>2, <1>4, <1>5, <1>6, <1>7, <1>8

-----------------------------------------------------------------------------
(* The inductive invariant                                                 *)

(* Every reading of the clock was of its own time, and is past: those that *)
(* drivers hold, and those that events on their way have yet to give one.  *)
TimesAreDistinct ==
    /\ DistinctTimes(states) /\ Before(states, now)
    /\ \A i \in Event : Waiting(i) => job[i].ts < now
    /\ \A i, j \in Event : Waiting(i) /\ Waiting(j) /\ i # j => job[i].ts # job[j].ts
    /\ \A i \in Event : Waiting(i) => \A sk \in Present(states) : states[sk].ts # job[i].ts

(* The driver of a text has the text.                                      *)
InSync(st, sk) == sk \in Present(st) /\ st[sk].content = sk[2]

(* An event that was applied, and whose response is still to be recorded,  *)
(* left its driver in sync.                                                *)
HandledInSync ==
    ~lost => \A i \in Event : job[i].pc = "handled" /\ ~job[i].resend => InSync(states, Key(i))

EditInv ==
    /\ TypeOK /\ IsFiniteSet(Present(states)) /\ TimesAreDistinct
    /\ KeyedByContent /\ HandledInSync /\ SyncedUnlessResend

LEMMA InitEstablishes == Init => EditInv
<1> SUFFICES ASSUME Init PROVE EditInv
  OBVIOUS
<1> USE EditAssumption
<1>0. fileSource # {}
  <2>1. PICK f \in File, e \in Editor : TRUE
    OBVIOUS
  <2>2. <<f, e>> \in fileSource
    BY DEF fileSource
  <2> QED BY <2>2
<1>1. TypeOK
  <2>1. Idle("unsent") \in Job
    BY <1>0 DEF Idle, Job
  <2>2. job \in [Event -> Job]
    BY <2>1 DEF Init
  <2>3. now \in Nat /\ calls \in 0 .. MaxCalls
    BY DEF Init
  <2>4. /\ seen \in [fileSource -> BOOLEAN] /\ resetting \in BOOLEAN /\ lost \in BOOLEAN
        /\ responses \in [fileSource -> responseData \cup {NoResponse}]
        /\ states \in [stateKey -> fileDriver \cup {NoDriver}]
    BY Zenon DEF Init
  <2> QED BY <2>2, <2>3, <2>4 DEF TypeOK
<1>2. Present(states) = {}
  BY DEF Init, Present
<1>3. \A i \in Event : job[i].pc = "unsent"
  BY DEF Init, Idle
<1>4. \A fs \in fileSource : responses[fs] = NoResponse
  BY DEF Init
<1>5. IsFiniteSet(Present(states))
  BY <1>2, FS_EmptySet
<1>6. TimesAreDistinct
  BY <1>2, <1>3 DEF TimesAreDistinct, DistinctTimes, Before, Waiting
<1> QED
  BY <1>1, <1>2, <1>3, <1>4, <1>5, <1>6
     DEF EditInv, KeyedByContent, HandledInSync, SyncedUnlessResend

(* What the map is like that an event is applied to, or was applied to:    *)
(* the driver of its key is there, the other drivers hold what they held,  *)
(* and the events J have times of their own.                               *)
Applied(i, st, J) ==
    /\ st \in StateMap
    /\ Present(st) = Present(states) \cup {Key(i)}
    /\ DistinctTimes(st) /\ Before(st, now + 2)
    /\ \A j \in J : Waiting(j) => \A sk \in Present(st) : st[sk].ts # job[j].ts
    /\ \A sk \in Present(states) \ {Key(i)} :
          st[sk].content = states[sk].content /\ st[sk].hash = states[sk].hash

(* The driver of the event's own key, when it was there already and when   *)
(* it is a new one.                                                        *)
OwnDriver(i, st) ==
    /\ Key(i) \in Present(states) =>
          /\ st[Key(i)].content = states[Key(i)].content
          /\ st[Key(i)].hash = states[Key(i)].hash
    /\ Key(i) \notin Present(states) =>
          /\ st[Key(i)].hash = NoText
          /\ job[i].text # Empty => st[Key(i)].content = Empty

Put(st, key, d) == [st EXCEPT ![key] = d]

(* A map in which one driver is put or replaced, with a time that no other *)
(* one has.                                                                *)
LEMMA Stamp ==
    ASSUME NEW st \in StateMap, NEW d \in fileDriver, NEW key \in stateKey,
           NEW new, new = Put(st, key, d),
           DistinctTimes(st), \A sk \in Present(st) \ {key} : st[sk].ts # d.ts,
           NEW b \in Nat, Before(st, b), d.ts < b
    PROVE  /\ new \in StateMap
           /\ Present(new) = Present(st) \cup {key}
           /\ new[key] = d
           /\ \A sk \in stateKey : sk # key => new[sk] = st[sk]
           /\ DistinctTimes(new) /\ Before(new, b)
<1>1. new \in StateMap /\ new[key] = d /\ \A sk \in stateKey : sk # key => new[sk] = st[sk]
  BY DEF StateMap, Put
<1>2. Present(new) = Present(st) \cup {key}
  <2>1. d # NoDriver
    BY EditAssumption DEF fileDriver
  <2> QED BY <1>1, <2>1 DEF Present
<1>3. Present(st) \subseteq stateKey
  BY DEF Present
<1>4. DistinctTimes(new)
  <2> SUFFICES ASSUME NEW x \in Present(new), NEW y \in Present(new), x # y
               PROVE  new[x].ts # new[y].ts
    BY DEF DistinctTimes
  <2>1. CASE x = key
    BY <1>1, <1>2, <1>3, <2>1
  <2>2. CASE y = key
    BY <1>1, <1>2, <1>3, <2>2
  <2>3. CASE x # key /\ y # key
    BY <1>1, <1>2, <1>3, <2>3 DEF DistinctTimes
  <2> QED BY <2>1, <2>2, <2>3
<1>5. Before(new, b)
  BY <1>1, <1>2, <1>3 DEF Before
<1> QED BY <1>1, <1>2, <1>4, <1>5

(* The driver of a key is used now.                                        *)
LEMMA TouchedProperties ==
    ASSUME EditInv, NEW key \in Present(states)
    PROVE  /\ Touched(key) \in StateMap
           /\ Present(Touched(key)) = Present(states)
           /\ DistinctTimes(Touched(key)) /\ Before(Touched(key), now + 1)
           /\ \A j \in Event : Waiting(j) =>
                 \A sk \in Present(states) : Touched(key)[sk].ts # job[j].ts
           /\ \A sk \in Present(states) : /\ Touched(key)[sk].content = states[sk].content
                                          /\ Touched(key)[sk].hash = states[sk].hash
<1> DEFINE d == [states[key] EXCEPT !.ts = now]
<1>0. now \in Nat /\ states \in StateMap /\ key \in stateKey
  BY DEF EditInv, TypeOK, StateMap, Present
<1>1. states[key] \in fileDriver
  BY <1>0, PresentType
<1>2. d \in fileDriver /\ d.ts = now /\ d.content = states[key].content /\ d.hash = states[key].hash
  BY <1>0, <1>1 DEF fileDriver
<1>3. Touched(key) = Put(states, key, d)
  BY <1>0 DEF Touched, StateMap, Put
<1> HIDE DEF d
<1>4. \A sk \in Present(states) : states[sk].ts \in Nat /\ states[sk].ts < now
  <2> TAKE sk \in Present(states)
  <2>1. sk \in stateKey
    BY DEF Present
  <2>2. states[sk] \in fileDriver
    BY <1>0, <2>1, PresentType
  <2> QED BY <2>2 DEF fileDriver, EditInv, TimesAreDistinct, Before
<1>5. Before(states, now + 1) /\ d.ts < now + 1 /\ now + 1 \in Nat
  BY <1>0, <1>2, <1>4 DEF Before
<1>6. DistinctTimes(states) /\ \A sk \in Present(states) \ {key} : states[sk].ts # d.ts
  BY <1>0, <1>2, <1>4 DEF EditInv, TimesAreDistinct
<1>7. /\ Touched(key) \in StateMap
      /\ Present(Touched(key)) = Present(states) \cup {key}
      /\ Touched(key)[key] = d
      /\ \A sk \in stateKey : sk # key => Touched(key)[sk] = states[sk]
      /\ DistinctTimes(Touched(key)) /\ Before(Touched(key), now + 1)
  BY <1>0, <1>2, <1>3, <1>5, <1>6, Stamp
<1>8. \A sk \in Present(states) : sk \in stateKey
  BY DEF Present
<1>9. ASSUME NEW j \in Event, Waiting(j), NEW sk \in Present(states)
      PROVE  Touched(key)[sk].ts # job[j].ts
  <2>1. job[j].ts < now /\ job[j].ts \in Nat /\ states[sk].ts # job[j].ts
    BY <1>9, KeyType DEF EditInv, TimesAreDistinct
  <2> QED BY <1>0, <1>2, <1>7, <1>8, <2>1
<1> QED BY <1>2, <1>7, <1>8, <1>9

(* handleEvent finds or makes the driver that the event is for.            *)
LEMMA FoundProperties ==
    ASSUME EditInv, NEW i \in Event, Waiting(i), ~NoneFound(i)
    PROVE  Applied(i, Found(i), Event) /\ OwnDriver(i, Found(i))
<1> DEFINE sk == Key(i)
           ref == Latest(References(i))
           With(st, content) == [st EXCEPT ![sk] = newFileDriver(content, now + 1)]
<1>0. /\ now \in Nat /\ states \in StateMap /\ sk \in stateKey
      /\ job[i].text \in Text /\ Empty \in Text /\ Before(states, now)
      /\ \A k \in Present(states) : k \in stateKey /\ states[k] \in fileDriver
  <2>1. \A k \in Present(states) : k \in stateKey /\ states[k] \in fileDriver
    BY PresentType DEF EditInv, TypeOK, StateMap, Present
  <2> QED BY <2>1, KeyType, EditAssumption DEF EditInv, TypeOK, StateMap, TimesAreDistinct
<1>1. sk \in Present(states) <=> states[sk] # NoDriver
  BY <1>0 DEF Present
<1>2. CASE sk \in Present(states)
  <2>1. Found(i) = Touched(sk)
    BY <1>1, <1>2 DEF Found
  <2>2. Before(Touched(sk), now + 2)
    <3>1. \A k \in Present(Touched(sk)) : Touched(sk)[k].ts \in Nat
      <4>1. Touched(sk) \in StateMap
        BY <1>2, TouchedProperties
      <4>2. \A k \in Present(Touched(sk)) : k \in stateKey /\ Touched(sk)[k] \in fileDriver
        BY <4>1, PresentType DEF Present
      <4> QED BY <4>2 DEF fileDriver
    <3>2. Before(Touched(sk), now + 1)
      BY <1>2, TouchedProperties
    <3> QED BY <1>0, <3>1, <3>2 DEF Before
  <2>3. /\ Touched(sk) \in StateMap
        /\ Present(Touched(sk)) = Present(states)
        /\ DistinctTimes(Touched(sk))
        /\ \A j \in Event : Waiting(j) =>
              \A k \in Present(states) : Touched(sk)[k].ts # job[j].ts
        /\ \A k \in Present(states) : /\ Touched(sk)[k].content = states[k].content
                                      /\ Touched(sk)[k].hash = states[k].hash
    BY <1>2, TouchedProperties
  <2> QED BY <1>2, <2>1, <2>2, <2>3 DEF Applied, OwnDriver
<1>3. CASE sk \notin Present(states)
  <2>1. ASSUME NEW st \in StateMap, NEW content \in Text,
               Present(st) = Present(states),
               DistinctTimes(st), Before(st, now + 1),
               \A j \in Event : Waiting(j) =>
                  \A k \in Present(states) : st[k].ts # job[j].ts,
               \A k \in Present(states) : /\ st[k].content = states[k].content
                                         /\ st[k].hash = states[k].hash,
               Found(i) = With(st, content), job[i].text # Empty => content = Empty
        PROVE  Applied(i, Found(i), Event) /\ OwnDriver(i, Found(i))
    <3> DEFINE d == newFileDriver(content, now + 1)
    <3>1. d \in fileDriver /\ d.ts = now + 1 /\ d.content = content /\ d.hash = NoText
      BY <1>0 DEF newFileDriver, fileDriver
    <3>2. \A k \in Present(st) : k \in stateKey /\ st[k].ts \in Nat /\ st[k].ts < now + 1
      <4>1. \A k \in Present(st) : k \in stateKey /\ st[k] \in fileDriver
        BY PresentType DEF Present
      <4> QED BY <2>1, <4>1 DEF Before, fileDriver
    <3>3. Found(i) = Put(st, sk, d)
      BY <2>1 DEF Put
    <3> HIDE DEF d, sk
    <3>4. Before(st, now + 2) /\ d.ts < now + 2 /\ now + 2 \in Nat
      BY <1>0, <3>1, <3>2 DEF Before
    <3>5. /\ \A k \in Present(st) \ {sk} : st[k].ts # d.ts
          /\ DistinctTimes(st) /\ sk \in stateKey
      BY <1>0, <2>1, <3>1, <3>2
    <3> HIDE DEF With
    <3>6. /\ Found(i) \in StateMap
          /\ Present(Found(i)) = Present(st) \cup {sk}
          /\ Found(i)[sk] = d
          /\ \A k \in stateKey : k # sk => Found(i)[k] = st[k]
          /\ DistinctTimes(Found(i)) /\ Before(Found(i), now + 2)
      BY <3>1, <3>3, <3>4, <3>5, Stamp
    <3>7. ASSUME NEW j \in Event, Waiting(j), NEW k \in Present(Found(i))
          PROVE  Found(i)[k].ts # job[j].ts
      <4>1. job[j].ts < now /\ job[j].ts \in Nat
        BY <3>7, KeyType DEF EditInv, TimesAreDistinct
      <4>2. CASE k = sk
        BY <1>0, <3>1, <3>6, <4>1, <4>2
      <4>3. CASE k # sk
        BY <2>1, <3>2, <3>6, <3>7, <4>3
      <4> QED BY <4>2, <4>3
    <3>8. Applied(i, Found(i), Event)
      BY <1>3, <2>1, <3>2, <3>6, <3>7 DEF Applied, sk
    <3>9. OwnDriver(i, Found(i))
      BY <1>3, <2>1, <3>1, <3>6 DEF OwnDriver, sk
    <3> QED BY <3>8, <3>9
  <2>2. Before(states, now + 1)
    <3>1. \A k \in Present(states) : states[k].ts \in Nat /\ states[k].ts < now
      BY <1>0 DEF fileDriver, Before
    <3> QED BY <1>0, <3>1 DEF Before
  <2>3. /\ DistinctTimes(states)
        /\ \A j \in Event : Waiting(j) => \A k \in Present(states) : states[k].ts # job[j].ts
    BY DEF EditInv, TimesAreDistinct
  <2>4. CASE job[i].text # Empty
    <3>1. Found(i) = With(states, Empty)
      BY <1>1, <1>3, <2>4 DEF Found
    <3> HIDE DEF sk, With
    <3> QED BY <1>0, <2>1, <2>2, <2>3, <3>1
  <2>5. CASE job[i].text = Empty
    <3>1. References(i) # {} /\ References(i) \subseteq Present(states)
      BY <1>1, <1>3, <2>5 DEF NoneFound, References, OfFile
    <3>2. ref \in Present(states)
      BY <1>0, <3>1, LatestProperties DEF EditInv
    <3>3. states[ref].content \in Text
      BY <1>0, <3>2 DEF fileDriver
    <3>4. Found(i) = With(IF job[i].ref = NoText THEN Touched(ref) ELSE states, states[ref].content)
      BY <1>1, <1>3, <2>5 DEF Found
    <3> HIDE DEF sk, With, ref
    <3>5. CASE job[i].ref = NoText
      <4>1. Found(i) = With(Touched(ref), states[ref].content)
        BY <3>4, <3>5
      <4>2. /\ Touched(ref) \in StateMap
            /\ Present(Touched(ref)) = Present(states)
            /\ DistinctTimes(Touched(ref)) /\ Before(Touched(ref), now + 1)
            /\ \A j \in Event : Waiting(j) =>
                  \A k \in Present(states) : Touched(ref)[k].ts # job[j].ts
            /\ \A k \in Present(states) : /\ Touched(ref)[k].content = states[k].content
                                          /\ Touched(ref)[k].hash = states[k].hash
        BY <3>2, TouchedProperties
      <4> QED BY <2>1, <2>5, <3>3, <4>1, <4>2
    <3>6. CASE job[i].ref # NoText
      <4>1. Found(i) = With(states, states[ref].content)
        BY <3>4, <3>6
      <4> QED BY <1>0, <2>1, <2>2, <2>3, <2>5, <3>3, <4>1
    <3> QED BY <3>5, <3>6
  <2> QED BY <2>4, <2>5
<1> QED BY <1>2, <1>3

(* The text HandleEvent leaves: the event's, or what the driver had.       *)
LEMMA PatchedProperties ==
    ASSUME EditInv, NEW i \in Event, Waiting(i), ~NoneFound(i)
    PROVE  /\ Patched(i) \in Text
           /\ job[i].text # Empty => Patched(i) = job[i].text
           /\ job[i].text = Empty /\ Key(i) \in Present(states) =>
                 Patched(i) = states[Key(i)].content
<1>1. Applied(i, Found(i), Event) /\ OwnDriver(i, Found(i))
  BY FoundProperties
<1>2. Key(i) \in stateKey /\ job[i].text \in Text
  BY KeyType DEF EditInv
<1>3. Found(i)[Key(i)].content \in Text
  <2>1. Found(i)[Key(i)] \in fileDriver
    BY <1>1, <1>2, PresentType DEF Applied
  <2> QED BY <2>1 DEF fileDriver
<1>4. Key(i) \in Present(states) <=> states[Key(i)] # NoDriver
  BY <1>2 DEF Present
<1> QED
  BY <1>1, <1>2, <1>3, <1>4 DEF Patched, OwnDriver

(* KeyedByContent, of any map.                                             *)
KeyedIn(st) ==
    \A sk \in Present(st) :
        /\ st[sk].hash \in {NoText, st[sk].content}
        /\ sk[2] # Empty => st[sk].content \in {sk[2], Empty}
        /\ sk[2] # Empty /\ st[sk].hash # NoText => st[sk].content = sk[2]

(* A map that an event may leave behind: the drivers in sync still are.    *)
Sound(st, J) ==
    /\ st \in StateMap /\ IsFiniteSet(Present(st))
    /\ DistinctTimes(st) /\ Before(st, now + 2)
    /\ \A j \in J : Waiting(j) => \A sk \in Present(st) : st[sk].ts # job[j].ts
    /\ KeyedIn(st)
    /\ \A sk \in stateKey : InSync(states, sk) => InSync(st, sk)

LEMMA StatesSound == EditInv => Sound(states, Event)
<1> SUFFICES ASSUME EditInv PROVE Sound(states, Event)
  OBVIOUS
<1>1. now \in Nat /\ states \in StateMap
  BY DEF EditInv, TypeOK, StateMap
<1>2. \A k \in Present(states) : states[k].ts \in Nat /\ states[k].ts < now
  <2>1. \A k \in Present(states) : k \in stateKey /\ states[k] \in fileDriver
    BY <1>1, PresentType DEF Present
  <2> QED BY <2>1 DEF fileDriver, Before, EditInv, TimesAreDistinct
<1>3. Before(states, now + 2)
  BY <1>1, <1>2 DEF Before
<1> QED BY <1>1, <1>3 DEF EditInv, Sound, TimesAreDistinct, KeyedIn, KeyedByContent

(* The three maps that handleEvent may have when it cleans up: the driver  *)
(* found but not yet patched, patched, and patched and stamped.            *)
LEMMA FoundSound ==
    ASSUME EditInv, NEW i \in Event, Waiting(i), ~NoneFound(i)
    PROVE  Sound(Found(i), Event)
<1> DEFINE st == Found(i)
<1>1. Applied(i, st, Event) /\ OwnDriver(i, st)
  BY FoundProperties
<1> HIDE DEF st
<1>2. Key(i) \in stateKey /\ Key(i)[2] = job[i].text
  BY KeyType DEF EditInv
<1>3. IsFiniteSet(Present(st))
  BY <1>1, FS_AddElement DEF Applied, EditInv
<1>4. KeyedIn(st)
  BY <1>1, <1>2 DEF Applied, OwnDriver, EditInv, KeyedByContent, KeyedIn
<1>5. \A sk \in stateKey : InSync(states, sk) => InSync(st, sk)
  BY <1>1, <1>2 DEF Applied, OwnDriver, InSync
<1> QED BY <1>1, <1>3, <1>4, <1>5 DEF Sound, Applied, st

LEMMA PatchedSound ==
    ASSUME EditInv, NEW i \in Event, Waiting(i), ~NoneFound(i)
    PROVE  Sound([Found(i) EXCEPT ![Key(i)].content = Patched(i)], Event)
<1> DEFINE old == Found(i)
           key == Key(i)
           d == [old[key] EXCEPT !.content = Patched(i)]
           st == [old EXCEPT ![key].content = Patched(i)]
<1>1. Applied(i, old, Event) /\ OwnDriver(i, old) /\ Sound(old, Event)
  BY FoundProperties, FoundSound
<1>2. key \in stateKey /\ key[2] = job[i].text
  BY KeyType DEF EditInv
<1>3. /\ Patched(i) \in Text
      /\ job[i].text # Empty => Patched(i) = job[i].text
      /\ job[i].text = Empty /\ key \in Present(states) => Patched(i) = states[key].content
  BY PatchedProperties
<1>4. old \in StateMap /\ key \in Present(old) /\ old[key] \in fileDriver
  BY <1>1, <1>2, PresentType DEF Applied
<1>5. d \in fileDriver /\ d.ts = old[key].ts /\ d.hash = old[key].hash /\ d.content = Patched(i)
  BY <1>3, <1>4 DEF fileDriver
<1>6. st \in StateMap /\ st[key] = d /\ \A sk \in stateKey : sk # key => st[sk] = old[sk]
  <2>1. st = [old EXCEPT ![key] = d]
    BY <1>2, <1>4 DEF StateMap
  <2> HIDE DEF d, st, old, key
  <2> QED BY <1>2, <1>4, <1>5, <2>1 DEF StateMap
<1> HIDE DEF d, st, old, key
<1>7. Present(st) = Present(old)
  <2>1. d # NoDriver
    BY <1>5, EditAssumption DEF fileDriver
  <2> QED BY <1>2, <1>4, <1>6, <2>1 DEF Present
<1>8. \A sk \in Present(st) : sk \in stateKey /\ st[sk].ts = old[sk].ts
  BY <1>5, <1>6, <1>7 DEF Present
<1>9. /\ IsFiniteSet(Present(st)) /\ DistinctTimes(st) /\ Before(st, now + 2)
      /\ \A j \in Event : Waiting(j) => \A sk \in Present(st) : st[sk].ts # job[j].ts
  BY <1>1, <1>7, <1>8 DEF Sound, DistinctTimes, Before
<1>10. KeyedIn(st)
  <2> SUFFICES ASSUME NEW sk \in Present(st)
               PROVE  /\ st[sk].hash \in {NoText, st[sk].content}
                      /\ sk[2] # Empty => st[sk].content \in {sk[2], Empty}
                      /\ sk[2] # Empty /\ st[sk].hash # NoText => st[sk].content = sk[2]
    BY DEF KeyedIn
  <2>1. CASE sk # key
    BY <1>1, <1>6, <1>7, <1>8, <2>1 DEF Sound, KeyedIn
  <2>2. CASE sk = key /\ key \in Present(states)
    <3>1. /\ old[key].content = states[key].content /\ old[key].hash = states[key].hash
      BY <1>1, <2>2 DEF OwnDriver, key, old
    <3>2. /\ states[key].hash \in {NoText, states[key].content}
          /\ key[2] # Empty /\ states[key].hash # NoText => states[key].content = key[2]
      BY <2>2 DEF EditInv, KeyedByContent
    <3>3. CASE job[i].text = Empty
      BY <1>2, <1>3, <1>5, <1>6, <2>2, <3>1, <3>2, <3>3
    <3>4. CASE job[i].text # Empty
      BY <1>2, <1>3, <1>5, <1>6, <2>2, <3>1, <3>2, <3>4
    <3> QED BY <3>3, <3>4
  <2>3. CASE sk = key /\ key \notin Present(states)
    <3>1. st[key].hash = NoText
      BY <1>1, <1>5, <1>6, <2>3 DEF OwnDriver, key, old
    <3> QED BY <1>2, <1>3, <1>5, <1>6, <2>3, <3>1
  <2> QED BY <2>1, <2>2, <2>3
<1>11. \A sk \in stateKey : InSync(states, sk) => InSync(st, sk)
  <2> SUFFICES ASSUME NEW sk \in stateKey, InSync(states, sk) PROVE InSync(st, sk)
    OBVIOUS
  <2>1. CASE sk # key
    BY <1>1, <1>6, <1>7, <2>1 DEF Sound, InSync
  <2>2. CASE sk = key
    BY <1>2, <1>3, <1>4, <1>5, <1>6, <1>7, <2>2 DEF InSync
  <2> QED BY <2>1, <2>2
<1> QED BY <1>6, <1>9, <1>10, <1>11 DEF Sound, st, old, key

LEMMA StampedSound ==
    ASSUME EditInv, NEW i \in Event, Waiting(i), ~NoneFound(i)
    PROVE  LET st == [Found(i) EXCEPT ![Key(i)] =
                        [content |-> Patched(i), hash |-> Patched(i), ts |-> job[i].ts]]
           IN  /\ Sound(st, Event \ {i})
               /\ Patched(i) = job[i].text => InSync(st, Key(i))
<1> DEFINE old == Found(i)
           key == Key(i)
           d == [content |-> Patched(i), hash |-> Patched(i), ts |-> job[i].ts]
           st == [old EXCEPT ![key] = d]
<1>1. Applied(i, old, Event) /\ OwnDriver(i, old) /\ Sound(old, Event)
  BY FoundProperties, FoundSound
<1>2. key \in stateKey /\ key[2] = job[i].text /\ job[i].ts \in Nat
  BY KeyType DEF EditInv
<1>3. /\ Patched(i) \in Text
      /\ job[i].text # Empty => Patched(i) = job[i].text
      /\ job[i].text = Empty /\ key \in Present(states) => Patched(i) = states[key].content
  BY PatchedProperties
<1>4. old \in StateMap /\ key \in Present(old)
  BY <1>1 DEF Applied
<1>5. d \in fileDriver /\ d.ts = job[i].ts /\ d.hash = Patched(i) /\ d.content = Patched(i)
  BY <1>2, <1>3 DEF fileDriver
<1>6. d.ts < now + 2 /\ now + 2 \in Nat
  BY <1>2, <1>5 DEF EditInv, TypeOK, TimesAreDistinct
<1>7. DistinctTimes(old) /\ Before(old, now + 2) /\ \A sk \in Present(old) \ {key} : old[sk].ts # d.ts
  BY <1>1, <1>5 DEF Sound
<1>8. st = Put(old, key, d)
  BY DEF Put
<1> HIDE DEF old, key, d, st
<1>9. /\ st \in StateMap
      /\ Present(st) = Present(old) \cup {key}
      /\ st[key] = d
      /\ \A sk \in stateKey : sk # key => st[sk] = old[sk]
      /\ DistinctTimes(st) /\ Before(st, now + 2)
  BY <1>2, <1>4, <1>5, <1>6, <1>7, <1>8, Stamp
<1>10. Present(st) = Present(old) /\ IsFiniteSet(Present(st)) /\ Present(old) \subseteq stateKey
  BY <1>1, <1>4, <1>9 DEF Sound, Present
<1>11. ASSUME NEW j \in Event \ {i}, Waiting(j), NEW sk \in Present(st)
       PROVE  st[sk].ts # job[j].ts
  <2>1. CASE sk = key
    BY <1>5, <1>9, <1>11, <2>1 DEF EditInv, TimesAreDistinct
  <2>2. CASE sk # key
    BY <1>1, <1>9, <1>10, <1>11, <2>2 DEF Sound
  <2> QED BY <2>1, <2>2
<1>12. KeyedIn(st)
  BY <1>1, <1>2, <1>3, <1>5, <1>9, <1>10 DEF Sound, KeyedIn
<1>13. \A sk \in stateKey : InSync(states, sk) => InSync(st, sk)
  <2> SUFFICES ASSUME NEW sk \in stateKey, InSync(states, sk) PROVE InSync(st, sk)
    OBVIOUS
  <2>1. CASE sk # key
    BY <1>1, <1>9, <1>10, <2>1 DEF Sound, InSync
  <2>2. CASE sk = key
    BY <1>2, <1>3, <1>5, <1>9, <2>2 DEF InSync
  <2> QED BY <2>1, <2>2
<1>14. Patched(i) = job[i].text => InSync(st, key)
  BY <1>2, <1>5, <1>9 DEF InSync
<1> QED BY <1>9, <1>10, <1>11, <1>12, <1>13, <1>14 DEF Sound, st, old, key, d

-----------------------------------------------------------------------------
(* The steps                                                               *)

LEMMA IdleType == Idle("done") \in Job /\ Idle("done").pc = "done"
<1>1. PICK f \in File, e \in Editor : TRUE
  BY EditAssumption
<1>2. <<f, e>> \in fileSource
  BY DEF fileSource
<1>3. (CHOOSE fs \in fileSource : TRUE) \in fileSource
  BY <1>2
<1> QED BY <1>3, EditAssumption DEF Idle, Job

(* An event leaves handleEvent.                                            *)
Left(i) ==
    /\ job[i].pc = "processed" /\ job' \in [Event -> Job]
    /\ job'[i].pc \in {"handled", "done"}
    /\ job'[i].pc = "handled" => job'[i].fs = job[i].fs /\ job'[i].text = job[i].text
    /\ \A j \in Event \ {i} : job'[j] = job[j]

(* Whatever its outcome, the drivers left behind are sound, and unless one *)
(* was dropped those in sync still are.                                    *)
LEMMA LeftPreserves ==
    ASSUME EditInv, NEW i \in Event, Left(i), now' = now + 2,
           UNCHANGED <<calls, seen, responses, resetting>>,
           NEW st, Sound(st, Event \ {i}), NEW ss \in StateMap, states' = ss,
           Present(ss) \subseteq Present(st), \A sk \in Present(ss) : ss[sk] = st[sk],
           lost' \in BOOLEAN, ~lost' => ~lost /\ Present(ss) = Present(st),
           job'[i].pc = "handled" /\ ~job'[i].resend => InSync(st, Key(i))
    PROVE  EditInv'
<1>1. PICK J : /\ job' = J /\ now' = now + 2 /\ UNCHANGED <<calls, seen, responses, resetting>>
               /\ job[i].pc = "processed"
  BY DEF Left
<1>2. /\ J \in [Event -> Job]
      /\ \A j \in Event \ {i} : J[j] = job[j]
      /\ J[i].pc \in {"handled", "done"}
      /\ J[i].pc = "handled" => J[i].fs = job[i].fs /\ J[i].text = job[i].text
  BY <1>1 DEF Left
<1>3. now \in Nat /\ now + 2 \in Nat
  BY DEF EditInv, TypeOK
<1>4. TypeOK'
  BY <1>1, <1>2, <1>3 DEF EditInv, TypeOK, StateMap
<1>5. IsFiniteSet(Present(states))'
  BY FS_Subset DEF Sound
<1>6. TimesAreDistinct'
  <2>1. DistinctTimes(ss) /\ Before(ss, now + 2)
    BY DEF Sound, DistinctTimes, Before
  <2>2. \A j \in Event : Waiting(j)' => j # i /\ Waiting(j) /\ J[j] = job[j]
    BY <1>1, <1>2 DEF Waiting
  <2>3. \A j \in Event \ {i} : Waiting(j) => /\ job[j].ts < now + 2
                                            /\ \A sk \in Present(ss) : ss[sk].ts # job[j].ts
    <3> SUFFICES ASSUME NEW j \in Event \ {i}, Waiting(j)
                 PROVE  /\ job[j].ts < now + 2
                        /\ \A sk \in Present(ss) : ss[sk].ts # job[j].ts
      OBVIOUS
    <3>1. job[j].ts \in Nat /\ job[j].ts < now
      BY KeyType DEF EditInv, TimesAreDistinct
    <3>2. job[j].ts < now + 2
      BY <1>3, <3>1
    <3>3. \A sk \in Present(ss) : ss[sk].ts # job[j].ts
      BY DEF Sound
    <3> QED BY <3>2, <3>3
  <2>4. \A j, k \in Event : Waiting(j) /\ Waiting(k) /\ j # k => job[j].ts # job[k].ts
    BY DEF EditInv, TimesAreDistinct
  <2>5. /\ \A j \in Event : Waiting(j)' => J[j].ts < now + 2
        /\ \A j, k \in Event : Waiting(j)' /\ Waiting(k)' /\ j # k => J[j].ts # J[k].ts
        /\ \A j \in Event : Waiting(j)' => \A sk \in Present(ss) : ss[sk].ts # J[j].ts
    BY <2>2, <2>3, <2>4
  <2> QED BY <1>1, <2>1, <2>5 DEF TimesAreDistinct
<1>7. KeyedByContent'
  BY DEF Sound, KeyedIn, KeyedByContent
<1>8. ~lost' => \A sk \in stateKey : InSync(states, sk) => InSync(ss, sk)
  BY DEF Sound, InSync
<1>9. HandledInSync'
  <2> SUFFICES ASSUME ~lost', NEW j \in Event, J[j].pc = "handled", ~J[j].resend
               PROVE  InSync(ss, <<J[j].fs, J[j].text>>)
    BY <1>1 DEF HandledInSync, Key
  <2>1. CASE j = i
    BY <1>1, <1>2, <2>1 DEF InSync, Key
  <2>2. CASE j # i
    <3>1. InSync(states, Key(j)) /\ Key(j) \in stateKey
      BY <1>2, <2>2, KeyType DEF EditInv, HandledInSync
    <3> QED BY <1>2, <1>8, <2>2, <3>1 DEF Key
  <2> QED BY <2>1, <2>2
<1>10. SyncedUnlessResend'
  <2> SUFFICES ASSUME ~lost', NEW fs \in fileSource,
                      responses[fs] # NoResponse, ~responses[fs].resend
               PROVE  /\ ss[<<fs, responses[fs].text>>] # NoDriver
                      /\ ss[<<fs, responses[fs].text>>].content = responses[fs].text
    BY <1>1 DEF SyncedUnlessResend
  <2> DEFINE sk == <<fs, responses[fs].text>>
  <2>1. responses[fs].text \in Text
    BY DEF EditInv, TypeOK, responseData
  <2>2. sk \in stateKey /\ sk[2] = responses[fs].text
    BY <2>1 DEF stateKey
  <2>3. states[sk] # NoDriver /\ states[sk].content = responses[fs].text
    BY DEF EditInv, SyncedUnlessResend
  <2>4. InSync(states, sk)
    BY <2>2, <2>3 DEF InSync, Present
  <2>5. InSync(ss, sk)
    BY <1>8, <2>2, <2>4
  <2> QED BY <2>2, <2>5 DEF InSync, Present
<1> QED BY <1>4, <1>5, <1>6, <1>7, <1>9, <1>10 DEF EditInv

LEMMA HandledPreserves ==
    ASSUME EditInv, NEW i \in Event, NEW resend \in BOOLEAN, HandledAs(i, resend),
           NEW st, Sound(st, Event \ {i}), NEW ss \in StateMap, states' = ss,
           Present(ss) \subseteq Present(st), \A sk \in Present(ss) : ss[sk] = st[sk],
           lost' \in BOOLEAN, ~lost' => ~lost /\ Present(ss) = Present(st),
           ~resend => InSync(st, Key(i))
    PROVE  EditInv'
<1> DEFINE r == [job[i] EXCEPT !.pc = "handled", !.resend = resend, !.ts = 0, !.ref = NoText]
<1>1. job' = [job EXCEPT ![i] = r] /\ now' = now + 2 /\ job[i].pc = "processed"
      /\ UNCHANGED <<calls, seen, responses, resetting>>
  BY DEF HandledAs
<1>2. job \in [Event -> Job] /\ job[i] \in Job
  BY DEF EditInv, TypeOK
<1>3. /\ r \in Job /\ r.pc = "handled" /\ r.resend = resend
      /\ r.fs = job[i].fs /\ r.text = job[i].text
  BY <1>2 DEF Job
<1> HIDE DEF r
<1>4. Left(i) /\ job'[i] = r
  BY <1>1, <1>2, <1>3 DEF Left
<1> QED BY <1>1, <1>3, <1>4, LeftPreserves

LEMMA handleEventPreserves ==
    ASSUME EditInv, NEW i \in Event, handleEvent(i)
    PROVE  EditInv' /\ Cardinality(Present(states')) <= maxStates
<1> DEFINE st == [Found(i) EXCEPT ![Key(i)] =
                    [content |-> Patched(i), hash |-> Patched(i), ts |-> job[i].ts]]
           resend == Patched(i) # job[i].text
<1>1. ~NoneFound(i) /\ cleanupLocked(st) /\ HandledAs(i, resend)
  BY DEF handleEvent
<1>2. Waiting(i)
  BY <1>1 DEF HandledAs, Waiting
<1>3. Sound(st, Event \ {i}) /\ (~resend => InSync(st, Key(i)))
  BY <1>1, <1>2, StampedSound
<1>4. resend \in BOOLEAN /\ lost \in BOOLEAN
  BY DEF EditInv, TypeOK
<1> HIDE DEF st, resend
<1>5. /\ states' \in StateMap
      /\ Present(states') \subseteq Present(st)
      /\ \A sk \in Present(states') : states'[sk] = st[sk]
      /\ lost' \in BOOLEAN
      /\ ~lost' => ~lost /\ Present(states') = Present(st)
      /\ Cardinality(Present(states')) <= maxStates
  BY <1>1, <1>3, <1>4, CleanupProperties DEF Sound
<1> QED BY <1>1, <1>3, <1>4, <1>5, HandledPreserves

LEMMA handleEventFailsPreserves ==
    ASSUME EditInv, NEW i \in Event, handleEventFails(i)
    PROVE  EditInv' /\ Cardinality(Present(states')) <= maxStates
<1>1. cleanupLocked(states) /\ HandledAs(i, TRUE)
  BY DEF handleEventFails
<1>2. Sound(states, Event \ {i}) /\ lost \in BOOLEAN
  BY StatesSound DEF Sound, EditInv, TypeOK
<1>3. /\ states' \in StateMap
      /\ Present(states') \subseteq Present(states)
      /\ \A sk \in Present(states') : states'[sk] = states[sk]
      /\ lost' \in BOOLEAN
      /\ ~lost' => ~lost /\ Present(states') = Present(states)
      /\ Cardinality(Present(states')) <= maxStates
  BY <1>1, <1>2, CleanupProperties DEF Sound
<1> QED BY <1>1, <1>2, <1>3, HandledPreserves

(* What handleEvent leaves when it is cut short, however the event ends.   *)
LEMMA CutShortPreserves ==
    ASSUME EditInv, NEW i \in Event, CutShort(i), Left(i), now' = now + 2,
           job'[i].pc = "handled" => job'[i].resend,
           UNCHANGED <<calls, seen, responses, resetting>>
    PROVE  /\ EditInv'
           /\ states' # states => Cardinality(Present(states')) <= maxStates
<1> DEFINE patched == [Found(i) EXCEPT ![Key(i)].content = Patched(i)]
<1>1. lost \in BOOLEAN
  BY DEF EditInv, TypeOK
<1>2. Waiting(i)
  BY DEF Left, Waiting
<1>3. CASE UNCHANGED <<states, lost>>
  <2>1. Sound(states, Event \ {i}) /\ states \in StateMap
    BY StatesSound DEF Sound
  <2> QED BY <1>1, <1>3, <2>1, LeftPreserves
<1>4. ASSUME NEW st, Sound(st, Event), cleanupLocked(st)
      PROVE  EditInv' /\ Cardinality(Present(states')) <= maxStates
  <2>1. Sound(st, Event \ {i})
    BY <1>4 DEF Sound
  <2>2. /\ states' \in StateMap
        /\ Present(states') \subseteq Present(st)
        /\ \A sk \in Present(states') : states'[sk] = st[sk]
        /\ lost' \in BOOLEAN
        /\ ~lost' => ~lost /\ Present(states') = Present(st)
        /\ Cardinality(Present(states')) <= maxStates
    BY <1>1, <1>4, CleanupProperties DEF Sound
  <2> QED BY <2>1, <2>2, LeftPreserves
<1>5. CASE ~NoneFound(i) /\ cleanupLocked(Found(i))
  BY <1>2, <1>4, <1>5, FoundSound
<1>6. CASE ~NoneFound(i) /\ cleanupLocked(patched)
  <2>1. Sound(patched, Event)
    BY <1>2, <1>6, PatchedSound
  <2> HIDE DEF patched
  <2> QED BY <1>4, <1>6, <2>1
<1>7. \/ UNCHANGED <<states, lost>>
      \/ ~NoneFound(i) /\ cleanupLocked(Found(i))
      \/ ~NoneFound(i) /\ cleanupLocked(patched)
  BY DEF CutShort
<1> HIDE DEF patched
<1> QED BY <1>3, <1>5, <1>6, <1>7

LEMMA handleEventAbortsPreserves ==
    ASSUME EditInv, NEW i \in Event, handleEventAborts(i)
    PROVE  /\ EditInv'
           /\ states' # states => Cardinality(Present(states')) <= maxStates
<1> DEFINE r == [job[i] EXCEPT !.pc = "handled", !.resend = TRUE, !.ts = 0, !.ref = NoText]
<1>1. /\ CutShort(i) /\ job' = [job EXCEPT ![i] = r] /\ now' = now + 2
      /\ job[i].pc = "processed" /\ UNCHANGED <<calls, seen, responses, resetting>>
  BY DEF handleEventAborts, HandledAs
<1>2. job \in [Event -> Job] /\ job[i] \in Job
  BY DEF EditInv, TypeOK
<1>3. r \in Job /\ r.pc = "handled" /\ r.resend /\ r.fs = job[i].fs /\ r.text = job[i].text
  BY <1>2 DEF Job
<1> HIDE DEF r
<1>4. Left(i) /\ job'[i].resend
  BY <1>1, <1>2, <1>3 DEF Left
<1> QED BY <1>1, <1>4, CutShortPreserves

(* A panic, of which only the drivers keep a trace.                        *)
LEMMA handleEventPanicsPreserves ==
    ASSUME EditInv, NEW i \in Event, handleEventPanics(i)
    PROVE  /\ EditInv'
           /\ states' # states => Cardinality(Present(states')) <= maxStates
<1>1. /\ CutShort(i) /\ job' = [job EXCEPT ![i] = Idle("done")] /\ now' = now + 2
      /\ job[i].pc = "processed" /\ UNCHANGED <<calls, seen, responses, resetting>>
  BY DEF handleEventPanics
<1>2. Left(i) /\ job'[i].pc = "done"
  BY <1>1, IdleType DEF Left, EditInv, TypeOK
<1> QED BY <1>1, <1>2, CutShortPreserves

(* The editor sends an event: its time is a new one.                       *)
LEMMA handleEditorEventPreserves ==
    ASSUME EditInv, NEW i \in Event, NEW fs \in fileSource, NEW t \in Text,
           handleEditorEvent(i, fs, t)
    PROVE  EditInv'
<1> DEFINE r == [job[i] EXCEPT !.pc = "queued", !.fs = fs, !.text = t, !.ts = now]
           J == [job EXCEPT ![i] = r]
<1>1. /\ job' = J /\ now' = now + 1 /\ job[i].pc = "unsent"
      /\ UNCHANGED <<calls, seen, responses, states, resetting, lost>>
  BY DEF handleEditorEvent
<1>2. now \in Nat /\ job \in [Event -> Job] /\ job[i] \in Job
  BY DEF EditInv, TypeOK
<1>3. r \in Job /\ r.pc = "queued" /\ r.ts = now
  BY <1>2 DEF Job
<1> HIDE DEF r
<1>4. J \in [Event -> Job] /\ J[i] = r /\ \A j \in Event \ {i} : J[j] = job[j]
  BY <1>2, <1>3
<1> HIDE DEF J
<1>5. TypeOK'
  BY <1>1, <1>2, <1>4 DEF EditInv, TypeOK
<1>6. TimesAreDistinct'
  <2>1. \A sk \in Present(states) : states[sk].ts \in Nat /\ states[sk].ts < now
    <3>1. \A sk \in Present(states) : sk \in stateKey /\ states[sk] \in fileDriver
      BY PresentType DEF Present, EditInv, TypeOK, StateMap
    <3> QED BY <3>1 DEF fileDriver, EditInv, TimesAreDistinct, Before
  <2>2. \A j \in Event \ {i} : Waiting(j)' => Waiting(j) /\ J[j] = job[j]
    BY <1>1, <1>4 DEF Waiting
  <2>3. \A j \in Event : Waiting(j) => job[j].ts \in Nat /\ job[j].ts < now
    BY KeyType DEF EditInv, TimesAreDistinct
  <2>4. DistinctTimes(states) /\ Before(states, now + 1)
    BY <1>2, <2>1 DEF EditInv, TimesAreDistinct, Before
  <2>5. \A j \in Event : Waiting(j)' => J[j].ts \in Nat /\ J[j].ts < now + 1
    BY <1>2, <1>3, <1>4, <2>2, <2>3
  <2>6. ASSUME NEW j \in Event, NEW k \in Event, Waiting(j)', Waiting(k)', j # k
        PROVE  J[j].ts # J[k].ts
    <3>1. CASE j = i
      BY <1>2, <1>3, <1>4, <2>2, <2>3, <2>6, <3>1
    <3>2. CASE k = i
      BY <1>2, <1>3, <1>4, <2>2, <2>3, <2>6, <3>2
    <3>3. CASE j # i /\ k # i
      BY <2>2, <2>6, <3>3 DEF EditInv, TimesAreDistinct
    <3> QED BY <3>1, <3>2, <3>3
  <2>7. ASSUME NEW j \in Event, Waiting(j)', NEW sk \in Present(states)
        PROVE  states[sk].ts # J[j].ts
    <3>1. CASE j = i
      BY <1>2, <1>3, <1>4, <2>1, <3>1
    <3>2. CASE j # i
      BY <2>2, <2>7, <3>2 DEF EditInv, TimesAreDistinct
    <3> QED BY <3>1, <3>2
  <2> QED BY <1>1, <2>4, <2>5, <2>6, <2>7 DEF TimesAreDistinct
<1>7. HandledInSync'
  <2>1. \A j \in Event : J[j].pc = "handled" => J[j] = job[j]
    BY <1>3, <1>4
  <2> QED BY <1>1, <2>1 DEF EditInv, HandledInSync, Key
<1>8. IsFiniteSet(Present(states))' /\ KeyedByContent' /\ SyncedUnlessResend'
  BY <1>1 DEF EditInv, KeyedByContent, SyncedUnlessResend
<1> QED BY <1>5, <1>6, <1>7, <1>8 DEF EditInv

(* An event goes on, or ends: no driver is touched, no event becomes one   *)
(* that was handled, and the times of those that wait are what they were.  *)
LEMMA ProgressPreserves ==
    ASSUME EditInv, UNCHANGED <<now, states, lost>>, TypeOK',
           \A j \in Event : job'[j].pc = "handled" => job'[j] = job[j],
           \A j \in Event : Waiting(j)' => Waiting(j) /\ job'[j].ts = job[j].ts,
           \A fs \in fileSource : responses'[fs] # NoResponse /\ ~responses'[fs].resend /\ ~lost =>
               /\ responses'[fs].text \in Text
               /\ InSync(states, <<fs, responses'[fs].text>>)
    PROVE  EditInv'
<1>1. TimesAreDistinct'
  <2>1. \A j \in Event : Waiting(j)' => job'[j].ts < now
    BY DEF EditInv, TimesAreDistinct
  <2>2. \A j, k \in Event : Waiting(j)' /\ Waiting(k)' /\ j # k => job'[j].ts # job'[k].ts
    BY DEF EditInv, TimesAreDistinct
  <2>3. \A j \in Event : Waiting(j)' => \A sk \in Present(states) : states[sk].ts # job'[j].ts
    BY DEF EditInv, TimesAreDistinct
  <2> QED BY <2>1, <2>2, <2>3 DEF EditInv, TimesAreDistinct
<1>2. HandledInSync'
  BY DEF EditInv, HandledInSync, Key
<1>3. SyncedUnlessResend'
  BY DEF SyncedUnlessResend, InSync, Present
<1> QED BY <1>1, <1>2, <1>3 DEF EditInv, KeyedByContent

(* What the invariant says of the responses, in terms of InSync.           *)
LEMMA RespondedInSync ==
    ASSUME EditInv, NEW fs \in fileSource, responses[fs] # NoResponse, ~responses[fs].resend, ~lost
    PROVE  responses[fs].text \in Text /\ InSync(states, <<fs, responses[fs].text>>)
<1> DEFINE sk == <<fs, responses[fs].text>>
<1>1. responses[fs].text \in Text
  BY DEF EditInv, TypeOK, responseData
<1>2. sk \in stateKey /\ sk[2] = responses[fs].text
  BY <1>1 DEF stateKey
<1>3. states[sk] # NoDriver /\ states[sk].content = responses[fs].text
  BY DEF EditInv, SyncedUnlessResend
<1> QED BY <1>1, <1>2, <1>3 DEF InSync, Present

LEMMA processEventPreserves ==
    ASSUME EditInv, NEW i \in Event, processEvent(i)
    PROVE  EditInv'
<1>1. /\ UNCHANGED <<now, calls, responses, states, resetting, lost>> /\ job[i].pc = "queued"
      /\ \/ NotSent(i) \/ SentWith(i, NoText)
         \/ Diffable(job[i].fs) /\ SentWith(i, responses[job[i].fs].text)
  BY DEF processEvent
<1>2. job \in [Event -> Job] /\ job[i] \in Job /\ job[i].fs \in fileSource
  BY KeyType DEF EditInv, TypeOK
<1>3. CASE NotSent(i)
  <2>1. job' = [job EXCEPT ![i] = Idle("done")] /\ seen' = seen
    BY <1>3 DEF NotSent
  <2>2. /\ job' \in [Event -> Job] /\ job'[i] = Idle("done")
        /\ \A j \in Event \ {i} : job'[j] = job[j]
    BY <1>2, <2>1, IdleType
  <2>3. TypeOK'
    BY <1>1, <2>1, <2>2 DEF EditInv, TypeOK
  <2>4. \A j \in Event : job'[j].pc = "handled" => job'[j] = job[j]
    BY <2>2, IdleType
  <2>5. \A j \in Event : Waiting(j)' => Waiting(j) /\ job'[j].ts = job[j].ts
    BY <2>2, IdleType DEF Waiting
  <2> QED BY <1>1, <2>3, <2>4, <2>5, ProgressPreserves, RespondedInSync
<1>4. ASSUME NEW ref \in Text \cup {NoText}, SentWith(i, ref) PROVE EditInv'
  <2> DEFINE r == [job[i] EXCEPT !.pc = "processed", !.ref = ref]
  <2>1. job' = [job EXCEPT ![i] = r] /\ seen' = [seen EXCEPT ![job[i].fs] = TRUE]
    BY <1>4 DEF SentWith
  <2>2. r \in Job /\ r.pc = "processed" /\ r.ts = job[i].ts
    BY <1>2 DEF Job
  <2> HIDE DEF r
  <2>3. /\ job' \in [Event -> Job] /\ job'[i] = r
        /\ \A j \in Event \ {i} : job'[j] = job[j]
    BY <1>2, <2>1, <2>2
  <2>4. seen' \in [fileSource -> BOOLEAN]
    BY <2>1 DEF EditInv, TypeOK
  <2>5. TypeOK'
    BY <1>1, <2>3, <2>4 DEF EditInv, TypeOK
  <2>6. \A j \in Event : job'[j].pc = "handled" => job'[j] = job[j]
    BY <2>2, <2>3
  <2>7. \A j \in Event : Waiting(j)' => Waiting(j) /\ job'[j].ts = job[j].ts
    BY <1>1, <2>2, <2>3 DEF Waiting
  <2> QED BY <1>1, <2>5, <2>6, <2>7, ProgressPreserves, RespondedInSync
<1>5. Diffable(job[i].fs) => responses[job[i].fs].text \in Text
  BY <1>2 DEF Diffable, EditInv, TypeOK, responseData
<1> QED BY <1>1, <1>3, <1>4, <1>5

(* The response of an event that was handled in sync says so.              *)
LEMMA updateLatestResponsePreserves ==
    ASSUME EditInv, NEW i \in Event, updateLatestResponse(i)
    PROVE  EditInv'
<1> DEFINE r == [text |-> job[i].text, resend |-> job[i].resend, old |-> FALSE]
           R == [fs \in fileSource |->
                   IF fs = job[i].fs THEN r
                   ELSE IF responses[fs] # NoResponse /\ responses[fs].old THEN NoResponse
                   ELSE responses[fs]]
<1>1. /\ job[i].pc = "handled" /\ job' = [job EXCEPT ![i] = Idle("done")] /\ responses' = R
      /\ UNCHANGED <<now, calls, seen, states, resetting, lost>>
  BY DEF updateLatestResponse
<1>2. job \in [Event -> Job] /\ job[i] \in Job /\ job[i].fs \in fileSource
  BY KeyType DEF EditInv, TypeOK
<1>3. r \in responseData /\ r.text = job[i].text /\ r.resend = job[i].resend
  BY <1>2 DEF Job, responseData
<1> HIDE DEF r
<1>4. R \in [fileSource -> responseData \cup {NoResponse}]
  BY <1>3 DEF EditInv, TypeOK
<1>5. \A fs \in fileSource : (R[fs] = r /\ fs = job[i].fs) \/ R[fs] \in {NoResponse, responses[fs]}
  BY <1>2
<1> HIDE DEF R
<1>6. /\ job' \in [Event -> Job] /\ job'[i] = Idle("done")
      /\ \A j \in Event \ {i} : job'[j] = job[j]
  BY <1>1, <1>2, IdleType
<1>7. TypeOK'
  BY <1>1, <1>4, <1>6 DEF EditInv, TypeOK
<1>8. \A j \in Event : job'[j].pc = "handled" => job'[j] = job[j]
  BY <1>6, IdleType
<1>9. \A j \in Event : Waiting(j)' => Waiting(j) /\ job'[j].ts = job[j].ts
  BY <1>6, IdleType DEF Waiting
<1>10. ASSUME NEW fs \in fileSource, R[fs] # NoResponse, ~R[fs].resend, ~lost
       PROVE  R[fs].text \in Text /\ InSync(states, <<fs, R[fs].text>>)
  <2>1. CASE R[fs] = r /\ fs = job[i].fs
    <3>1. InSync(states, Key(i)) /\ job[i].text \in Text
      BY <1>1, <1>3, <1>10, <2>1, KeyType DEF EditInv, HandledInSync
    <3> QED BY <1>3, <2>1, <3>1 DEF Key
  <2>2. CASE R[fs] = responses[fs]
    BY <1>10, <2>2, RespondedInSync
  <2> QED BY <1>5, <1>10, <2>1, <2>2
<1> QED BY <1>1, <1>7, <1>8, <1>9, <1>10, ProgressPreserves

(* The completion API looks a driver up: it is used now, or made now.      *)
LEMMA LookupPreserves ==
    ASSUME EditInv, calls < MaxCalls, calls' = calls + 1, now' = now + 1,
           UNCHANGED <<job, seen, responses, resetting, lost>>,
           NEW ss \in StateMap, states' = ss, IsFiniteSet(Present(ss)),
           DistinctTimes(ss), Before(ss, now + 1),
           \A j \in Event : Waiting(j) => \A sk \in Present(ss) : ss[sk].ts # job[j].ts,
           KeyedIn(ss), \A sk \in stateKey : InSync(states, sk) => InSync(ss, sk)
    PROVE  EditInv'
<1>1. now \in Nat /\ now + 1 \in Nat /\ calls + 1 \in 0 .. MaxCalls
  BY EditAssumption DEF EditInv, TypeOK
<1>2. TypeOK'
  BY <1>1 DEF EditInv, TypeOK, StateMap
<1>3. TimesAreDistinct'
  <2>1. \A j \in Event : Waiting(j) => job[j].ts < now + 1
    <3> SUFFICES ASSUME NEW j \in Event, Waiting(j) PROVE job[j].ts < now + 1
      OBVIOUS
    <3>1. job[j].ts \in Nat /\ job[j].ts < now
      BY KeyType DEF EditInv, TimesAreDistinct
    <3> QED BY <1>1, <3>1
  <2>2. \A j, k \in Event : Waiting(j) /\ Waiting(k) /\ j # k => job[j].ts # job[k].ts
    BY DEF EditInv, TimesAreDistinct
  <2>3. \A j \in Event : Waiting(j)' <=> Waiting(j)
    BY DEF Waiting
  <2> QED BY <2>1, <2>2, <2>3 DEF TimesAreDistinct
<1>4. KeyedByContent'
  BY DEF KeyedIn, KeyedByContent
<1>5. HandledInSync'
  <2> SUFFICES ASSUME ~lost, NEW j \in Event, job[j].pc = "handled", ~job[j].resend
               PROVE  InSync(ss, Key(j))
    BY DEF HandledInSync, Key
  <2> QED BY KeyType DEF EditInv, HandledInSync
<1>6. SyncedUnlessResend'
  <2> SUFFICES ASSUME ~lost, NEW fs \in fileSource,
                      responses[fs] # NoResponse, ~responses[fs].resend
               PROVE  /\ ss[<<fs, responses[fs].text>>] # NoDriver
                      /\ ss[<<fs, responses[fs].text>>].content = responses[fs].text
    BY DEF SyncedUnlessResend
  <2> DEFINE sk == <<fs, responses[fs].text>>
  <2>1. responses[fs].text \in Text /\ InSync(states, sk)
    BY RespondedInSync
  <2>2. sk \in stateKey /\ sk[2] = responses[fs].text
    BY <2>1 DEF stateKey
  <2>3. InSync(ss, sk)
    BY <2>1, <2>2
  <2> QED BY <2>2, <2>3 DEF InSync, Present
<1> QED BY <1>2, <1>3, <1>4, <1>5, <1>6 DEF EditInv

(* What the lookup of a driver that is there does to the map.              *)
LEMMA TouchedSound ==
    ASSUME EditInv, NEW key \in Present(states)
    PROVE  /\ IsFiniteSet(Present(Touched(key))) /\ KeyedIn(Touched(key))
           /\ \A sk \in stateKey : InSync(states, sk) => InSync(Touched(key), sk)
  BY TouchedProperties DEF EditInv, KeyedByContent, KeyedIn, InSync

LEMMA UsePreserves ==
    ASSUME EditInv, NEW key \in Present(states), states' = Touched(key),
           calls < MaxCalls, calls' = calls + 1, now' = now + 1,
           UNCHANGED <<job, seen, responses, resetting, lost>>
    PROVE  EditInv'
<1> DEFINE ss == Touched(key)
<1>1. /\ ss \in StateMap /\ Present(ss) = Present(states)
      /\ DistinctTimes(ss) /\ Before(ss, now + 1)
      /\ \A j \in Event : Waiting(j) => \A sk \in Present(states) : ss[sk].ts # job[j].ts
  BY TouchedProperties
<1>2. /\ IsFiniteSet(Present(ss)) /\ KeyedIn(ss)
      /\ \A sk \in stateKey : InSync(states, sk) => InSync(ss, sk)
  BY TouchedSound
<1>3. states' = ss
  OBVIOUS
<1> HIDE DEF ss
<1> QED BY <1>1, <1>2, <1>3, LookupPreserves

LEMMA statePreserves ==
    ASSUME EditInv, NEW fs \in fileSource, NEW t \in Text, state(fs, t)
    PROVE  EditInv'
<1> DEFINE key == <<fs, t>>
           d == newFileDriver(t, now)
<1>1. /\ calls < MaxCalls /\ calls' = calls + 1 /\ now' = now + 1
      /\ UNCHANGED <<job, seen, responses, resetting, lost>>
      /\ \/ states[key] # NoDriver /\ states' = Touched(key)
         \/ states[key] = NoDriver /\ t # Empty /\ states' = [states EXCEPT ![key] = d]
  BY DEF state
<1>2. key \in stateKey /\ key[2] = t
  BY DEF stateKey
<1>3. CASE states[key] # NoDriver /\ states' = Touched(key)
  <2>1. key \in Present(states)
    BY <1>2, <1>3 DEF Present
  <2> HIDE DEF key
  <2> QED BY <1>1, <1>3, <2>1, UsePreserves
<1>4. CASE states[key] = NoDriver /\ t # Empty /\ states' = [states EXCEPT ![key] = d]
  <2>1. now \in Nat /\ now + 1 \in Nat /\ states \in StateMap
    BY DEF EditInv, TypeOK, StateMap
  <2>2. d \in fileDriver /\ d.ts = now /\ d.content = t /\ d.hash = NoText
    BY <2>1 DEF newFileDriver, fileDriver
  <2>3. \A sk \in Present(states) : sk \in stateKey /\ states[sk].ts \in Nat /\ states[sk].ts < now
    <3>1. \A sk \in Present(states) : sk \in stateKey /\ states[sk] \in fileDriver
      BY <2>1, PresentType DEF Present
    <3> QED BY <3>1 DEF fileDriver, EditInv, TimesAreDistinct, Before
  <2>4. Before(states, now + 1) /\ d.ts < now + 1
    BY <2>1, <2>2, <2>3 DEF Before
  <2>5. DistinctTimes(states) /\ \A sk \in Present(states) \ {key} : states[sk].ts # d.ts
    BY <2>1, <2>2, <2>3 DEF EditInv, TimesAreDistinct
  <2>6. PICK ss : ss = Put(states, key, d)
    OBVIOUS
  <2>7. states' = ss /\ key \notin Present(states)
    BY <1>4, <2>6 DEF Put, Present
  <2> HIDE DEF key, d
  <2>8. /\ ss \in StateMap /\ Present(ss) = Present(states) \cup {key} /\ ss[key] = d
        /\ \A sk \in stateKey : sk # key => ss[sk] = states[sk]
        /\ DistinctTimes(ss) /\ Before(ss, now + 1)
    BY <1>2, <2>1, <2>2, <2>4, <2>5, <2>6, Stamp
  <2>9. IsFiniteSet(Present(ss))
    BY <2>8, FS_AddElement DEF EditInv
  <2>10. \A j \in Event : Waiting(j) => \A sk \in Present(ss) : ss[sk].ts # job[j].ts
    <3> SUFFICES ASSUME NEW j \in Event, Waiting(j), NEW sk \in Present(ss)
                 PROVE  ss[sk].ts # job[j].ts
      OBVIOUS
    <3>1. job[j].ts \in Nat /\ job[j].ts < now
      BY KeyType DEF EditInv, TimesAreDistinct
    <3>2. CASE sk = key
      BY <2>1, <2>2, <2>8, <3>1, <3>2
    <3>3. CASE sk # key
      BY <2>3, <2>8, <3>3 DEF EditInv, TimesAreDistinct
    <3> QED BY <3>2, <3>3
  <2>11. KeyedIn(ss)
    BY <1>2, <2>2, <2>3, <2>8 DEF KeyedIn, EditInv, KeyedByContent
  <2>12. \A sk \in stateKey : InSync(states, sk) => InSync(ss, sk)
    BY <2>7, <2>8 DEF InSync
  <2> QED BY <1>1, <2>7, <2>8, <2>9, <2>10, <2>11, <2>12, LookupPreserves
<1> QED BY <1>1, <1>3, <1>4

LEMMA LatestDriverPreserves ==
    ASSUME EditInv, NEW f \in File, LatestDriver(f)
    PROVE  EditInv'
<1>1. /\ calls < MaxCalls /\ calls' = calls + 1 /\ now' = now + 1
      /\ UNCHANGED <<job, seen, responses, resetting, lost>>
      /\ OfFile(f, Editor) # {} /\ states' = Touched(Latest(OfFile(f, Editor)))
  BY DEF LatestDriver
<1>2. OfFile(f, Editor) \subseteq Present(states)
  BY DEF OfFile
<1>3. Latest(OfFile(f, Editor)) \in Present(states)
  BY <1>1, <1>2, LatestProperties DEF EditInv, TimesAreDistinct
<1> QED BY <1>1, <1>3, UsePreserves

(* Manager.reset, in two halves, and the passing of a minute: drivers are  *)
(* gone, which is what lost records, or responses are.                     *)
LEMMA ResetDriversPreserves ==
    ASSUME EditInv, ResetDrivers
    PROVE  EditInv'
<1>1. /\ resetting' = TRUE /\ states' = [sk \in stateKey |-> NoDriver] /\ lost' = TRUE
      /\ UNCHANGED <<now, calls, job, seen, responses>>
  BY DEF ResetDrivers
<1>2. TypeOK'
  <2>1. states' \in [stateKey -> fileDriver \cup {NoDriver}]
    BY <1>1
  <2>2. resetting' \in BOOLEAN /\ lost' \in BOOLEAN
    BY <1>1
  <2> QED BY <1>1, <2>1, <2>2 DEF EditInv, TypeOK
<1>3. Present(states') = {}
  BY <1>1 DEF Present
<1>4. IsFiniteSet(Present(states'))
  BY <1>3, FS_EmptySet
<1>5. TimesAreDistinct'
  BY <1>1, <1>3 DEF EditInv, TimesAreDistinct, DistinctTimes, Before, Waiting
<1>6. KeyedByContent'
  BY <1>3 DEF KeyedByContent
<1>7. HandledInSync' /\ SyncedUnlessResend'
  BY <1>1 DEF HandledInSync, SyncedUnlessResend
<1> QED BY <1>2, <1>4, <1>5, <1>6, <1>7 DEF EditInv

LEMMA ForgetPreserves ==
    ASSUME EditInv, ResetHistory \/ Minute
    PROVE  EditInv'
<1>1. UNCHANGED <<now, calls, job, states, lost>> /\ resetting' \in BOOLEAN
  BY DEF ResetHistory, Minute, EditInv, TypeOK
<1>2. seen' \in [fileSource -> BOOLEAN]
  BY DEF ResetHistory, Minute
<1>3. \A fs \in fileSource :
        responses[fs] # NoResponse =>
          /\ [responses[fs] EXCEPT !.old = TRUE] \in responseData
          /\ [responses[fs] EXCEPT !.old = TRUE].text = responses[fs].text
          /\ [responses[fs] EXCEPT !.old = TRUE].resend = responses[fs].resend
  <2>1. \A fs \in fileSource : responses[fs] # NoResponse => responses[fs] \in responseData
    BY DEF EditInv, TypeOK
  <2> QED BY <2>1 DEF responseData
<1>4. /\ responses' \in [fileSource -> responseData \cup {NoResponse}]
      /\ \A fs \in fileSource : responses'[fs] # NoResponse =>
            /\ responses[fs] # NoResponse
            /\ responses'[fs].text = responses[fs].text
            /\ responses'[fs].resend = responses[fs].resend
  <2>1. CASE ResetHistory
    BY <2>1 DEF ResetHistory
  <2>2. CASE Minute
    BY <1>3, <2>2 DEF Minute
  <2> QED BY <2>1, <2>2
<1>5. TypeOK'
  BY <1>1, <1>2, <1>4 DEF EditInv, TypeOK
<1>6. \A j \in Event : Waiting(j)' => Waiting(j) /\ job'[j].ts = job[j].ts
  BY <1>1 DEF Waiting
<1> QED BY <1>1, <1>4, <1>5, <1>6, ProgressPreserves, RespondedInSync

-----------------------------------------------------------------------------
(* The theorems                                                            *)

LEMMA StepPreserves == EditInv /\ [Next]_vars => EditInv'
<1> SUFFICES ASSUME EditInv, [Next]_vars PROVE EditInv'
  OBVIOUS
<1>1. ASSUME NEW i \in Event, EventStep(i) PROVE EditInv'
  BY <1>1, processEventPreserves, handleEventPreserves, handleEventFailsPreserves,
     handleEventAbortsPreserves, handleEventPanicsPreserves, updateLatestResponsePreserves
     DEF EventStep
<1>2. CASE UNCHANGED vars
  BY <1>2 DEF vars, EditInv, TypeOK, TimesAreDistinct, Waiting, KeyedByContent,
              HandledInSync, Key, SyncedUnlessResend
<1> QED
  BY <1>1, <1>2, handleEditorEventPreserves, statePreserves, LatestDriverPreserves,
     ResetDriversPreserves, ForgetPreserves DEF Next

(* EditInv holds throughout.                                               *)
THEOREM Inductive == Spec => []EditInv
  BY InitEstablishes, StepPreserves, PTL DEF Spec

(* Jobs, drivers, events and responses are what the code's types say, with *)
(* any number of events under way.                                         *)
THEOREM EventTypes == Spec => []TypeOK
<1>1. EditInv => TypeOK
  BY DEF EditInv
<1> QED BY <1>1, Inductive, PTL

(* fileProcessor's map: the driver filed under a text holds that text or   *)
(* nothing yet, and holds it when it has a hash, whichever events create,  *)
(* patch or abandon it, and however many editors send them.                *)
THEOREM DriversKeyedByContent == Spec => []KeyedByContent
<1>1. EditInv => KeyedByContent
  BY DEF EditInv
<1> QED BY <1>1, Inductive, PTL

(* A response that does not ask for the text again is one against which    *)
(* the next diff applies, in whichever order the workers of the pool       *)
(* process, apply and answer the events, as long as no driver was dropped. *)
THEOREM ResponsesInSync == Spec => []SyncedUnlessResend
<1>1. EditInv => SyncedUnlessResend
  BY DEF EditInv
<1> QED BY <1>1, Inductive, PTL

(* Only handleEvent, whatever its outcome, ends the wait of an event that  *)
(* was processed.                                                          *)
LEMMA HandledByEvent ==
    ASSUME EditInv, Next, NEW i \in Event, job[i].pc = "processed", job'[i].pc # "processed"
    PROVE  handleEvent(i) \/ handleEventFails(i) \/ handleEventAborts(i) \/ handleEventPanics(i)
<1>0. job \in [Event -> Job] /\ \A j \in Event : job[j] \in Job
  BY DEF EditInv, TypeOK
<1>1. ASSUME NEW j \in Event, NEW r, job' = [job EXCEPT ![j] = r],
             job[j].pc # "processed" \/ j # i
      PROVE  FALSE
  BY <1>0, <1>1
<1>2. ASSUME NEW j \in Event, NEW fs \in fileSource, NEW t \in Text, handleEditorEvent(j, fs, t)
      PROVE  FALSE
  <2>1. /\ job[j].pc = "unsent"
        /\ job' = [job EXCEPT ![j] =
                     [job[j] EXCEPT !.pc = "queued", !.fs = fs, !.text = t, !.ts = now]]
    BY <1>2 DEF handleEditorEvent
  <2> QED BY <1>1, <2>1
<1>3. ASSUME NEW j \in Event, processEvent(j) \/ updateLatestResponse(j) PROVE FALSE
  <2>1. job[j].pc # "processed" /\ \E r : job' = [job EXCEPT ![j] = r]
    BY <1>3 DEF processEvent, updateLatestResponse, NotSent, SentWith
  <2> QED BY <1>1, <2>1
<1>5. ASSUME NEW j \in Event,
             \/ handleEvent(j) \/ handleEventFails(j)
             \/ handleEventAborts(j) \/ handleEventPanics(j)
      PROVE  j = i
  <2>1. \E r : job' = [job EXCEPT ![j] = r]
    BY <1>5 DEF handleEvent, handleEventFails, handleEventAborts, handleEventPanics, HandledAs
  <2> QED BY <1>1, <2>1
<1>6. job' # job
  OBVIOUS
<1> QED
  BY <1>2, <1>3, <1>5, <1>6
     DEF Next, EventStep, state, LatestDriver, ResetDrivers, ResetHistory, Minute

(* cleanupLocked is deferred: every event that got the lock leaves at most *)
(* maxStates drivers, though lookups may have added any number since the   *)
(* last one.                                                               *)
THEOREM EventsBoundTheDrivers == Spec => EventsBoundDrivers
<1> DEFINE Bound == \A i \in Event :
              job'[i].pc # "processed" /\ job[i].pc = "processed" /\ states' # states
                => Cardinality(Present(states)') <= maxStates
<1>1. EditInv /\ [Next]_vars => [Bound]_vars
  <2> SUFFICES ASSUME EditInv, Next, NEW i \in Event, job'[i].pc # "processed",
                      job[i].pc = "processed", states' # states
               PROVE  Cardinality(Present(states)') <= maxStates
    OBVIOUS
  <2>1. \/ handleEvent(i) \/ handleEventFails(i)
        \/ handleEventAborts(i) \/ handleEventPanics(i)
    BY HandledByEvent
  <2>2. Present(states)' = Present(states')
    BY DEF Present
  <2> QED
    BY <2>1, <2>2, handleEventPreserves, handleEventFailsPreserves, handleEventAbortsPreserves,
       handleEventPanicsPreserves
<1> HIDE DEF Bound
<1>2. Spec => [][Bound]_vars
  BY <1>1, Inductive, PTL DEF Spec
<1> QED BY <1>2 DEF EventsBoundDrivers, Bound
=============================================================================
