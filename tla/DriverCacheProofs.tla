-------------------------- MODULE DriverCacheProofs --------------------------
(***************************************************************************)
(* The cache of Drivers for any number of requests, files and ticks of the *)
(* clock.  What purgeLocked removes is a prefix of the order, so that the  *)
(* invariants of the cache follow from three facts about sequences: what   *)
(* Delete leaves, how far the purge goes, and what it leaves.              *)
(***************************************************************************)
EXTENDS DriverCache, DataFacts

-----------------------------------------------------------------------------
(* Operators on entries                                                    *)

(* No key and no Driver has two entries.                                   *)
Distinct(entries) ==
    \A i, j \in 1..Len(entries) : i # j =>
        entries[i].key # entries[j].key /\ entries[i].driver # entries[j].driver

(* OrderedMap.order is the order of the timestamps.                        *)
Ordered(entries) ==
    \A i, j \in 1..Len(entries) : i <= j => entries[i].ts <= entries[j].ts

(* What is known of a key that has an entry.                               *)
LEMMA PlaceOfKey ==
    ASSUME NEW entries \in Seq(Entry), NEW k, Has(entries, k)
    PROVE  Place(entries, k) \in 1..Len(entries) /\ entries[Place(entries, k)].key = k
  BY DEF Has, Place

(* OrderedMap.Delete removes the entry of the key, and leaves the others   *)
(* in their order: entry i of the rest was entry i or i + 1.               *)
LEMMA DeleteProperties ==
    ASSUME NEW entries \in Seq(Entry), NEW k
    PROVE  LET rest == Delete(entries, k)
               p    == Place(entries, k)
           IN  /\ rest \in Seq(Entry)
               /\ Has(entries, k) =>
                    /\ Len(rest) = Len(entries) - 1
                    /\ \A i \in 1..Len(rest) : rest[i] = entries[IF i < p THEN i ELSE i + 1]
               /\ ~Has(entries, k) => rest = entries
<1>1. CASE ~Has(entries, k)
  BY <1>1 DEF Delete
<1>2. CASE Has(entries, k)
  <2> DEFINE p == Place(entries, k)
  <2>1. p \in 1..Len(entries)
    BY <1>2, PlaceOfKey
  <2>2. Delete(entries, k) = RemoveAt(entries, p)
    BY <1>2 DEF Delete
  <2>3. /\ RemoveAt(entries, p) \in Seq(Entry) /\ Len(RemoveAt(entries, p)) = Len(entries) - 1
        /\ \A i \in 1..(Len(entries) - 1) :
              RemoveAt(entries, p)[i] = entries[IF i < p THEN i ELSE i + 1]
    BY <2>1, RemoveAtProperties
  <2> QED BY <1>2, <2>2, <2>3
<1> QED BY <1>1, <1>2

(* purgeLocked stops somewhere: everything before it may go, and the entry *)
(* it stops at may not.                                                    *)
LEMMA PurgedProperties ==
    ASSUME NEW entries \in Seq(Entry)
    PROVE  /\ Purged(entries) \in 0..Len(entries)
           /\ \A i \in 1..Purged(entries) : Purgeable(entries, i)
           /\ Purged(entries) < Len(entries) => ~Purgeable(entries, Purged(entries) + 1)
<1> DEFINE T == {n \in 0..Len(entries) : n = Len(entries) \/ ~Purgeable(entries, n + 1)}
           Stop(n) == /\ \A i \in 1..n : Purgeable(entries, i)
                      /\ n < Len(entries) => ~Purgeable(entries, n + 1)
<1>1. PICK m \in T : \A n \in T : m <= n
  <2>1. Len(entries) \in T
    OBVIOUS
  <2>2. T \subseteq Nat /\ T # {}
    BY <2>1
  <2> HIDE DEF T
  <2> QED BY <2>2, LeastNat
<1>2. m \in 0..Len(entries)
  OBVIOUS
<1>3. \A i \in 1..m : Purgeable(entries, i)
  <2> SUFFICES ASSUME NEW i \in 1..m, ~Purgeable(entries, i) PROVE FALSE
    OBVIOUS
  <2>1. i - 1 \in 0..Len(entries) /\ (i - 1) + 1 = i
    BY <1>2
  <2>2. i - 1 \in T
    BY <2>1
  <2> HIDE DEF T
  <2>3. m <= i - 1
    BY <1>1, <2>2
  <2> QED BY <1>2, <2>3
<1>4. Stop(m)
  BY <1>3
<1>5. Purged(entries) = CHOOSE n \in 0..Len(entries) : Stop(n)
  BY DEF Purged
<1> HIDE DEF Stop
<1>6. Purged(entries) \in 0..Len(entries) /\ Stop(Purged(entries))
  BY <1>2, <1>4, <1>5
<1> QED BY <1>6 DEF Stop

(* What the purge leaves is the rest of the order, and what it cleans up   *)
(* are the Drivers before it.                                              *)
LEMMA KeptProperties ==
    ASSUME NEW entries \in Seq(Entry)
    PROVE  LET n == Purged(entries)
           IN  /\ Kept(entries) \in Seq(Entry)
               /\ Len(Kept(entries)) = Len(entries) - n
               /\ \A i \in 1..(Len(entries) - n) : Kept(entries)[i] = entries[n + i]
               /\ CleanedUp(entries) = {entries[i].driver : i \in 1..n}
<1> DEFINE n == Purged(entries)
<1>1. n \in 0..Len(entries)
  BY PurgedProperties
<1>2. CleanedUp(entries) = Drivers(SubSeq(entries, 1, n)) /\ Kept(entries) = SubSeq(entries, n + 1, Len(entries))
  BY DEF CleanedUp, Kept
<1> HIDE DEF n
<1>3. Len(SubSeq(entries, 1, n)) = n /\ \A i \in 1..n : SubSeq(entries, 1, n)[i] = entries[i]
  BY <1>1
<1>4. CleanedUp(entries) = {entries[i].driver : i \in 1..n}
  BY <1>1, <1>2, <1>3 DEF Drivers
<1>5. /\ Kept(entries) \in Seq(Entry)
      /\ Len(Kept(entries)) = Len(entries) - n
      /\ \A i \in 1..(Len(entries) - n) : Kept(entries)[i] = entries[n + i]
  BY <1>1, <1>2
<1> QED BY <1>4, <1>5 DEF n

(* The sets of Drivers before and after, and what stays true of the order. *)
LEMMA DeleteKeeps ==
    ASSUME NEW entries \in Seq(Entry), NEW k, Distinct(entries), Ordered(entries)
    PROVE  LET rest == Delete(entries, k)
           IN  /\ Distinct(rest) /\ Ordered(rest)
               /\ \A i \in 1..Len(rest) : rest[i].key # k
               /\ \A i \in 1..Len(rest) : \E j \in 1..Len(entries) : rest[i] = entries[j]
               /\ Drivers(rest) = Drivers(entries) \
                      (IF Has(entries, k) THEN {entries[Place(entries, k)].driver} ELSE {})
<1> DEFINE rest == Delete(entries, k)
           p == Place(entries, k)
<1>1. CASE ~Has(entries, k)
  <2>1. rest = entries
    BY <1>1, DeleteProperties
  <2> QED BY <1>1, <2>1 DEF Has
<1>2. CASE Has(entries, k)
  <2>1. p \in 1..Len(entries) /\ entries[p].key = k
    BY <1>2, PlaceOfKey
  <2>2. /\ rest \in Seq(Entry) /\ Len(rest) = Len(entries) - 1
        /\ \A i \in 1..Len(rest) : rest[i] = entries[IF i < p THEN i ELSE i + 1]
    BY <1>2, DeleteProperties
  <2> HIDE DEF rest, p
  <2>3. \A i \in 1..Len(rest) :
          LET j == IF i < p THEN i ELSE i + 1
          IN  j \in 1..Len(entries) /\ j # p /\ rest[i] = entries[j]
    BY <2>1, <2>2
  <2>4. Distinct(rest)
    <3> SUFFICES ASSUME NEW i \in 1..Len(rest), NEW j \in 1..Len(rest), i # j
                 PROVE  rest[i].key # rest[j].key /\ rest[i].driver # rest[j].driver
      BY DEF Distinct
    <3> DEFINE a == IF i < p THEN i ELSE i + 1
               b == IF j < p THEN j ELSE j + 1
    <3>1. /\ a \in 1..Len(entries) /\ b \in 1..Len(entries) /\ a # b
          /\ rest[i] = entries[a] /\ rest[j] = entries[b]
      BY <2>1, <2>2
    <3> HIDE DEF a, b
    <3> QED BY <3>1 DEF Distinct
  <2>5. Ordered(rest)
    <3> SUFFICES ASSUME NEW i \in 1..Len(rest), NEW j \in 1..Len(rest), i <= j
                 PROVE  rest[i].ts <= rest[j].ts
      BY DEF Ordered
    <3> DEFINE a == IF i < p THEN i ELSE i + 1
               b == IF j < p THEN j ELSE j + 1
    <3>1. /\ a \in 1..Len(entries) /\ b \in 1..Len(entries) /\ a <= b
          /\ rest[i] = entries[a] /\ rest[j] = entries[b]
      BY <2>1, <2>2
    <3> HIDE DEF a, b
    <3> QED BY <3>1 DEF Ordered
  <2>6. \A i \in 1..Len(rest) : rest[i].key # k
    BY <2>1, <2>3 DEF Distinct
  <2>7. \A i \in 1..Len(rest) : \E j \in 1..Len(entries) : rest[i] = entries[j]
    BY <2>3
  <2>8. Drivers(rest) \subseteq Drivers(entries) \ {entries[p].driver}
    BY <2>1, <2>3 DEF Drivers, Distinct
  <2>9. Drivers(entries) \ {entries[p].driver} \subseteq Drivers(rest)
    <3> SUFFICES ASSUME NEW j \in 1..Len(entries), j # p
                 PROVE  \E i \in 1..Len(rest) : rest[i] = entries[j]
      BY DEF Drivers
    <3>1. CASE j < p
      BY <3>1, <2>1, <2>2
    <3>2. CASE j > p
      <4>1. j - 1 \in 1..Len(rest) /\ ~(j - 1 < p) /\ (j - 1) + 1 = j
        BY <3>2, <2>1, <2>2
      <4> QED BY <4>1, <2>2
    <3> QED BY <3>1, <3>2, <2>1
  <2> QED BY <1>2, <2>4, <2>5, <2>6, <2>7, <2>8, <2>9 DEF rest, p
<1> QED BY <1>1, <1>2

LEMMA KeptKeeps ==
    ASSUME NEW entries \in Seq(Entry), Distinct(entries), Ordered(entries)
    PROVE  /\ Distinct(Kept(entries)) /\ Ordered(Kept(entries))
           /\ \A i \in 1..Len(Kept(entries)) :
                 \E j \in 1..Len(entries) : Kept(entries)[i] = entries[j]
           /\ CleanedUp(entries) \subseteq Drivers(entries)
           /\ Drivers(Kept(entries)) = Drivers(entries) \ CleanedUp(entries)
<1> DEFINE n == Purged(entries)
           rest == Kept(entries)
<1>1. n \in 0..Len(entries)
  BY PurgedProperties
<1>2. /\ rest \in Seq(Entry) /\ Len(rest) = Len(entries) - n
      /\ \A i \in 1..Len(rest) : rest[i] = entries[n + i]
      /\ CleanedUp(entries) = {entries[i].driver : i \in 1..n}
  BY KeptProperties
<1> HIDE DEF n, rest
<1>5. \A i \in 1..Len(rest) : n + i \in 1..Len(entries) /\ rest[i] = entries[n + i]
  BY <1>1, <1>2
<1>3. Distinct(rest)
  <2> SUFFICES ASSUME NEW i \in 1..Len(rest), NEW j \in 1..Len(rest), i # j
               PROVE  rest[i].key # rest[j].key /\ rest[i].driver # rest[j].driver
    BY DEF Distinct
  <2>1. n + i # n + j
    BY <1>1, <1>2
  <2> QED BY <1>5, <2>1 DEF Distinct
<1>4. Ordered(rest)
  <2> SUFFICES ASSUME NEW i \in 1..Len(rest), NEW j \in 1..Len(rest), i <= j
               PROVE  rest[i].ts <= rest[j].ts
    BY DEF Ordered
  <2>1. n + i <= n + j
    BY <1>1, <1>2
  <2> QED BY <1>5, <2>1 DEF Ordered
<1>6. CleanedUp(entries) \subseteq Drivers(entries)
  BY <1>1, <1>2 DEF Drivers
<1>7. Drivers(rest) \subseteq Drivers(entries) \ CleanedUp(entries)
  <2> SUFFICES ASSUME NEW i \in 1..Len(rest)
               PROVE  rest[i].driver \in Drivers(entries) \ CleanedUp(entries)
    BY DEF Drivers
  <2>1. rest[i].driver \in Drivers(entries)
    BY <1>5 DEF Drivers
  <2>2. \A m \in 1..n : m \in 1..Len(entries) /\ m # n + i
    BY <1>1, <1>2
  <2>3. \A m \in 1..n : entries[m].driver # rest[i].driver
    BY <1>5, <2>2 DEF Distinct
  <2> QED BY <1>2, <2>1, <2>3
<1>8. Drivers(entries) \ CleanedUp(entries) \subseteq Drivers(rest)
  <2> SUFFICES ASSUME NEW j \in 1..Len(entries), j \notin 1..n
               PROVE  \E i \in 1..Len(rest) : rest[i] = entries[j]
    BY <1>2 DEF Drivers
  <2>1. j - n \in 1..Len(rest) /\ n + (j - n) = j
    BY <1>1, <1>2
  <2> QED BY <1>2, <2>1
<1> QED BY <1>3, <1>4, <1>5, <1>6, <1>7, <1>8 DEF rest

LEMMA AppendKeeps ==
    ASSUME NEW entries \in Seq(Entry), NEW e \in Entry,
           Distinct(entries), Ordered(entries),
           e.driver \notin Drivers(entries),
           \A i \in 1..Len(entries) : entries[i].key # e.key /\ entries[i].ts <= e.ts
    PROVE  LET more == Append(entries, e)
           IN  /\ more \in Seq(Entry) /\ Len(more) = Len(entries) + 1
               /\ Distinct(more) /\ Ordered(more)
               /\ Drivers(more) = Drivers(entries) \cup {e.driver}
               /\ \A i \in 1..Len(more) : more[i] = e \/ (i <= Len(entries) /\ more[i] = entries[i])
<1> DEFINE more == Append(entries, e)
<1>1. /\ more \in Seq(Entry) /\ Len(more) = Len(entries) + 1
      /\ \A i \in 1..Len(entries) : more[i] = entries[i]
      /\ more[Len(entries) + 1] = e
  BY AppendProperties
<1> HIDE DEF more
<1>2. Distinct(more)
  BY <1>1 DEF Distinct, Drivers
<1>3. Ordered(more)
  <2> SUFFICES ASSUME NEW i \in 1..Len(more), NEW j \in 1..Len(more), i <= j
               PROVE  more[i].ts <= more[j].ts
    BY DEF Ordered
  <2>1. CASE j <= Len(entries)
    BY <1>1, <2>1 DEF Ordered
  <2>2. CASE j = Len(entries) + 1 /\ i <= Len(entries)
    BY <1>1, <2>2
  <2>3. CASE i = j
    <3>0. more[i] \in Entry
      BY <1>1, ElementOfSeq
    <3>1. more[i].ts \in Nat
      BY <3>0 DEF Entry
    <3> QED BY <2>3, <3>1
  <2> QED BY <1>1, <2>1, <2>2, <2>3
<1>4. \A i \in 1..Len(more) : more[i] = e \/ (i <= Len(entries) /\ more[i] = entries[i])
  BY <1>1
<1>5. Drivers(more) = Drivers(entries) \cup {e.driver}
  <2>1. Drivers(more) \subseteq Drivers(entries) \cup {e.driver}
    BY <1>1, <1>4 DEF Drivers
  <2>2. \A d \in Drivers(entries) : d \in Drivers(more)
    BY <1>1 DEF Drivers
  <2>3. e.driver \in Drivers(more)
    BY <1>1 DEF Drivers
  <2> QED BY <2>1, <2>2, <2>3
<1> QED BY <1>1, <1>2, <1>3, <1>4, <1>5 DEF more

-----------------------------------------------------------------------------
(* The inductive invariant                                                 *)

(* New: a capacity or a ttl, never both.                                   *)
OneLimit == \/ cap = 0 /\ ttl = cloudTTL
            \/ cap = 1 /\ ttl = 0

(* A cached Driver is one that was made.                                   *)
CachedIsMade == Drivers(cache) \subseteq 1..made

(* The least recent entry is the one used least recently, and no entry is  *)
(* from the future.                                                        *)
InOrderOfUse ==
    /\ Ordered(cache)
    /\ \A i \in 1..Len(cache) : cache[i].ts <= now + ttl

(* A request that has been to Get has a Driver.                            *)
HasDriver == \A q \in Request : req[q].phase # "idle" => req[q].driver # 0

CacheInv ==
    /\ TypeOK /\ OneLimit /\ HasDriver /\ CachedIsMade /\ InOrderOfUse
    /\ CacheIsBounded /\ CachedIsLive /\ NoDriverLeaks

LEMMA InitEstablishes == Init => CacheInv
<1> SUFFICES ASSUME Init PROVE CacheInv
  OBVIOUS
<1> USE CacheAssumption
<1>1. TypeOK
  <2>1. cache \in Seq(Entry) /\ made \in Nat
    BY DEF Init
  <2>2. req \in [Request -> [phase : {"idle", "got", "updating", "failed", "returned"}, driver : 0..made]]
    BY DEF Init
  <2>3. resetter \in [Resetters -> {"idle", "called", "returned"}]
    BY DEF Init
  <2> QED BY <2>1, <2>2, <2>3 DEF Init, TypeOK
<1>2. Len(cache) = 0 /\ Drivers(cache) = {}
  BY DEF Init, Drivers
<1> QED
  BY <1>1, <1>2 DEF Init, CacheInv, OneLimit, HasDriver, CachedIsMade, InOrderOfUse, Ordered,
     CacheIsBounded, CachedIsLive, NoDriverLeaks

(* Get: what umfDrivers.Get makes of the cache, as sets of Drivers.        *)
LEMMA GetResult ==
    ASSUME CacheInv, NEW q \in Request, NEW k \in Key, Get(q, k)
    PROVE  LET d == IF Has(cache, k) THEN cache[Place(cache, k)].driver ELSE made + 1
               rest == Delete(cache, k)
           IN  /\ d \in 1..made' /\ d \notin stopped
               /\ rest \in Seq(Entry) /\ Ordered(rest)
               /\ \A i \in 1..Len(rest) : rest[i].ts <= now + ttl
               /\ d \notin Drivers(rest)
               /\ Drivers(cache) \subseteq Drivers(rest) \cup {d}
               /\ Drivers(rest) \subseteq Drivers(cache)
               /\ CleanedUp(rest) \subseteq Drivers(rest)
               /\ Drivers(cache') = (Drivers(rest) \ CleanedUp(rest)) \cup {d}
               /\ cache' \in Seq(Entry) /\ Len(cache') = Len(Kept(rest)) + 1
               /\ Distinct(cache') /\ Ordered(cache')
               /\ \A i \in 1..Len(cache') :
                    \/ cache'[i].ts = now + ttl
                    \/ i <= Len(Kept(rest)) /\ cache'[i] = Kept(rest)[i]
<1> DEFINE d == IF Has(cache, k) THEN cache[Place(cache, k)].driver ELSE made + 1
           rest == Delete(cache, k)
           e == [key |-> k, driver |-> d, ts |-> now + ttl]
<1> USE CacheAssumption
<1>1. cache \in Seq(Entry) /\ Distinct(cache) /\ Ordered(cache) /\ now + ttl \in Nat
  <2>1. cache \in Seq(Entry) /\ now \in Nat /\ ttl \in Nat
    BY DEF CacheInv, TypeOK
  <2>2. Distinct(cache)
    BY DEF CacheInv, CacheIsBounded, Distinct
  <2>3. Ordered(cache)
    BY DEF CacheInv, InOrderOfUse
  <2> QED BY <2>1, <2>2, <2>3
<1>2. rest \in Seq(Entry)
  BY <1>1, DeleteProperties
<1>3. /\ Distinct(rest) /\ Ordered(rest)
      /\ \A i \in 1..Len(rest) : rest[i].key # k
      /\ \A i \in 1..Len(rest) : \E j \in 1..Len(cache) : rest[i] = cache[j]
      /\ Drivers(rest) = Drivers(cache) \
            (IF Has(cache, k) THEN {cache[Place(cache, k)].driver} ELSE {})
  BY <1>1, DeleteKeeps
<1>4. made' = (IF Has(cache, k) THEN made ELSE made + 1) /\ cache' = Append(Kept(rest), e)
  BY DEF Get, Set
<1>5. d \in 1..made' /\ d \notin stopped /\ d \notin Drivers(rest)
  <2>1. CASE Has(cache, k)
    <3>1. d \in Drivers(cache)
      BY <1>1, <2>1, PlaceOfKey DEF Drivers
    <3> QED BY <1>3, <1>4, <2>1, <3>1 DEF CacheInv, CachedIsMade, CachedIsLive
  <2>2. CASE ~Has(cache, k)
    <3>1. Drivers(rest) \subseteq 1..made /\ stopped \subseteq 1..made /\ made \in Nat
      BY <1>3 DEF CacheInv, CachedIsMade, TypeOK
    <3> QED BY <1>4, <2>2, <3>1
  <2> QED BY <2>1, <2>2
<1>6. Drivers(cache) \subseteq Drivers(rest) \cup {d} /\ Drivers(rest) \subseteq Drivers(cache)
  BY <1>3
<1> HIDE DEF rest, d
<1>7. /\ Kept(rest) \in Seq(Entry)
      /\ Distinct(Kept(rest)) /\ Ordered(Kept(rest))
      /\ \A i \in 1..Len(Kept(rest)) : \E j \in 1..Len(rest) : Kept(rest)[i] = rest[j]
      /\ CleanedUp(rest) \subseteq Drivers(rest)
      /\ Drivers(Kept(rest)) = Drivers(rest) \ CleanedUp(rest)
  BY <1>2, <1>3, KeptKeeps, KeptProperties
<1>8. \A i \in 1..Len(rest) : rest[i].ts <= now + ttl
  BY <1>3 DEF CacheInv, InOrderOfUse
<1>9. /\ e \in Entry /\ e.driver \notin Drivers(Kept(rest))
      /\ \A i \in 1..Len(Kept(rest)) : Kept(rest)[i].key # e.key /\ Kept(rest)[i].ts <= e.ts
  <2>1. e \in Entry
    <3>1. made' \in Nat
      BY <1>4 DEF CacheInv, TypeOK
    <3>2. d \in Nat \ {0}
      BY <1>5, <3>1
    <3> QED BY <1>1, <3>2 DEF Entry
  <2> QED BY <2>1, <1>3, <1>5, <1>7, <1>8
<1> HIDE DEF e
<1>10. e.ts = now + ttl /\ e.driver = d
  BY DEF e
<1>11. /\ cache' \in Seq(Entry) /\ Len(cache') = Len(Kept(rest)) + 1
       /\ Distinct(cache') /\ Ordered(cache')
       /\ Drivers(cache') = Drivers(Kept(rest)) \cup {d}
       /\ \A i \in 1..Len(cache') :
            cache'[i] = e \/ (i <= Len(Kept(rest)) /\ cache'[i] = Kept(rest)[i])
  BY <1>4, <1>7, <1>9, <1>10, AppendKeeps
<1> QED
  BY <1>2, <1>3, <1>5, <1>6, <1>7, <1>8, <1>10, <1>11 DEF rest, d

(* On a client the purge leaves nothing: the entry that is added fits.     *)
LEMMA PurgedToFit ==
    ASSUME NEW entries \in Seq(Entry), cap = 1, TypeOK
    PROVE  Len(Kept(entries)) = 0
<1> DEFINE n == Purged(entries)
<1>1. n \in 0..Len(entries) /\ (n < Len(entries) => ~Purgeable(entries, n + 1))
  BY PurgedProperties
<1>2. Len(Kept(entries)) = Len(entries) - n
  BY KeptProperties
<1> HIDE DEF n
<1>3. n < Len(entries) => Purgeable(entries, n + 1)
  BY <1>1 DEF Purgeable
<1> QED BY <1>1, <1>2, <1>3

LEMMA GetPreserves ==
    ASSUME CacheInv, NEW q \in Request, NEW k \in Key, Get(q, k)
    PROVE  CacheInv'
<1> DEFINE d == IF Has(cache, k) THEN cache[Place(cache, k)].driver ELSE made + 1
           rest == Delete(cache, k)
<1>1. /\ d \in 1..made' /\ d \notin stopped
      /\ rest \in Seq(Entry)
      /\ \A i \in 1..Len(rest) : rest[i].ts <= now + ttl
      /\ d \notin Drivers(rest)
      /\ Drivers(cache) \subseteq Drivers(rest) \cup {d}
      /\ Drivers(rest) \subseteq Drivers(cache)
      /\ CleanedUp(rest) \subseteq Drivers(rest)
      /\ Drivers(cache') = (Drivers(rest) \ CleanedUp(rest)) \cup {d}
      /\ cache' \in Seq(Entry) /\ Len(cache') = Len(Kept(rest)) + 1
      /\ Distinct(cache') /\ Ordered(cache')
      /\ \A i \in 1..Len(cache') :
           \/ cache'[i].ts = now + ttl
           \/ i <= Len(Kept(rest)) /\ cache'[i] = Kept(rest)[i]
  BY GetResult
<1>2. made' = (IF Has(cache, k) THEN made ELSE made + 1)
      /\ stopped' = stopped \cup CleanedUp(rest)
      /\ req' = [req EXCEPT ![q] = [phase |-> "got", driver |-> d]]
  BY DEF Get
<1>3. UNCHANGED <<cap, ttl, now, busy, lastUsed, resetter, lock, resetOn>>
  BY DEF Get
<1> HIDE DEF d, rest
<1>4. made \in Nat /\ made' \in Nat /\ 1..made \subseteq 1..made' /\ 0..made \subseteq 0..made'
      /\ 1..made' \subseteq 1..made \cup {d}
  <2>1. made \in Nat /\ (~Has(cache, k) => d = made + 1)
    BY DEF CacheInv, TypeOK, d
  <2> QED BY <1>2, <2>1
<1>5. TypeOK'
  <2>1. stopped' \subseteq 1..made'
    BY <1>1, <1>2, <1>4 DEF CacheInv, TypeOK, CachedIsMade
  <2>2. req' \in [Request -> [phase : {"idle", "got", "updating", "failed", "returned"}, driver : 0..made']]
    <3>1. d \in 0..made'
      BY <1>1, <1>4
    <3> QED BY <1>2, <1>4, <3>1 DEF CacheInv, TypeOK
  <2> QED BY <1>1, <1>3, <1>4, <2>1, <2>2 DEF CacheInv, TypeOK
<1>6. OneLimit' /\ HasDriver'
  <2>1. d # 0
    BY <1>1
  <2> QED BY <1>2, <1>3, <2>1 DEF CacheInv, TypeOK, OneLimit, HasDriver
<1>7. CachedIsMade'
  BY <1>1, <1>4 DEF CacheInv, CachedIsMade
<1>8. InOrderOfUse'
  <2>1. \A i \in 1..Len(Kept(rest)) : \E j \in 1..Len(rest) : Kept(rest)[i] = rest[j]
    <3>1. Purged(rest) \in 0..Len(rest)
      BY <1>1, PurgedProperties
    <3>2. /\ Len(Kept(rest)) = Len(rest) - Purged(rest)
          /\ \A i \in 1..(Len(rest) - Purged(rest)) : Kept(rest)[i] = rest[Purged(rest) + i]
      BY <1>1, KeptProperties
    <3> QED BY <1>1, <3>1, <3>2
  <2>2. now + ttl \in Nat /\ Len(Kept(rest)) \in Nat
    <3>1. Kept(rest) \in Seq(Entry)
      BY <1>1, KeptProperties
    <3> QED BY <3>1, CacheAssumption DEF CacheInv, TypeOK
  <2>3. \A i \in 1..Len(cache') : cache'[i].ts <= now + ttl
    <3> SUFFICES ASSUME NEW i \in 1..Len(cache') PROVE cache'[i].ts <= now + ttl
      OBVIOUS
    <3>1. CASE cache'[i].ts = now + ttl
      BY <2>2, <3>1
    <3>2. CASE i <= Len(Kept(rest)) /\ cache'[i] = Kept(rest)[i]
      <4>1. i \in 1..Len(Kept(rest))
        BY <2>2, <3>2
      <4>2. PICK j \in 1..Len(rest) : Kept(rest)[i] = rest[j]
        BY <2>1, <4>1
      <4> QED BY <1>1, <3>2, <4>2
    <3> QED BY <1>1, <3>1, <3>2
  <2> QED BY <1>1, <1>3, <2>3 DEF InOrderOfUse, Ordered
<1>9. CacheIsBounded'
  <2>1. CASE cap = 1
    <3>1. Len(Kept(rest)) = 0
      BY <1>1, <2>1, PurgedToFit DEF CacheInv
    <3> QED BY <1>1, <1>3, <2>1, <3>1 DEF CacheIsBounded, Distinct
  <2>2. CASE cap = 0
    BY <1>1, <1>3, <2>2 DEF CacheIsBounded, Distinct
  <2> QED BY <2>1, <2>2 DEF CacheInv, OneLimit
<1>10. CachedIsLive'
  BY <1>1, <1>2 DEF CacheInv, CachedIsLive
<1>11. NoDriverLeaks'
  BY <1>1, <1>2, <1>4 DEF CacheInv, NoDriverLeaks
<1> QED BY <1>5, <1>6, <1>7, <1>8, <1>9, <1>10, <1>11 DEF CacheInv

(* The entry that Reset deletes is the first one.                          *)
LEMMA ResetNextPreserves ==
    ASSUME CacheInv, NEW r \in Resetters, ResetNext(r)
    PROVE  CacheInv'
<1> DEFINE h == Head(cache)
<1>1. cache \in Seq(Entry) /\ cache # <<>> /\ made \in Nat
  BY DEF CacheInv, TypeOK, ResetNext
<1>2. /\ cache' \in Seq(Entry) /\ Len(cache') = Len(cache) - 1 /\ Len(cache) \in Nat \ {0}
      /\ \A i \in 1..Len(cache') : cache'[i] = cache[i + 1]
      /\ h = cache[1]
  <2>1. cache' = Tail(cache)
    BY DEF ResetNext
  <2> QED BY <1>1, <2>1, HeadTailProperties, EmptySeq
<1>3. stopped' = stopped \cup {h.driver} /\ resetOn' = h.driver
      /\ UNCHANGED <<cap, ttl, now, made, busy, req, lastUsed, resetter, lock>>
  BY DEF ResetNext
<1>4. Drivers(cache') = Drivers(cache) \ {h.driver} /\ h.driver \in Drivers(cache)
  <2>1. \A i \in 1..Len(cache') : i + 1 \in 1..Len(cache) /\ i + 1 # 1
    BY <1>2
  <2>2. \A i \in 1..Len(cache') : cache'[i].driver \in Drivers(cache) \ {h.driver}
    BY <1>2, <2>1 DEF CacheInv, CacheIsBounded, Drivers
  <2>3. \A i \in 1..Len(cache) : i # 1 => i - 1 \in 1..Len(cache') /\ cache'[i - 1] = cache[i]
    BY <1>2
  <2>4. Drivers(cache') \subseteq Drivers(cache) \ {h.driver}
    BY <2>2 DEF Drivers
  <2>5. \A x \in Drivers(cache) \ {h.driver} : x \in Drivers(cache')
    BY <1>2, <2>3 DEF Drivers
  <2>6. h.driver \in Drivers(cache)
    BY <1>2 DEF Drivers
  <2> QED BY <2>4, <2>5, <2>6
<1> HIDE DEF h
<1>5. TypeOK'
  <2>1. h.driver \in 1..made
    BY <1>4 DEF CacheInv, CachedIsMade
  <2>2. stopped \subseteq 1..made
    BY DEF CacheInv, TypeOK
  <2>3. stopped' \subseteq 1..made' /\ resetOn' \in 0..made'
    <3>1. \A n \in Nat : 1..n \subseteq 0..n
      OBVIOUS
    <3>2. h.driver \in 0..made
      BY <1>1, <2>1, <3>1
    <3> QED BY <1>3, <2>1, <2>2, <3>2, Zenon
  <2> QED BY <1>2, <1>3, <2>3 DEF CacheInv, TypeOK
<1>6. OneLimit' /\ HasDriver' /\ CachedIsMade'
  BY <1>3, <1>4 DEF CacheInv, OneLimit, HasDriver, CachedIsMade
<1>7. InOrderOfUse'
  <2>1. \A i \in 1..Len(cache') : i + 1 \in 1..Len(cache) /\ cache'[i] = cache[i + 1]
    BY <1>2
  <2>2. ASSUME NEW i \in 1..Len(cache'), NEW j \in 1..Len(cache'), i <= j
        PROVE  cache'[i].ts <= cache'[j].ts
    <3>1. i + 1 <= j + 1
      BY <1>2, <2>2
    <3> QED BY <2>1, <3>1 DEF CacheInv, InOrderOfUse, Ordered
  <2>3. \A i \in 1..Len(cache') : cache'[i].ts <= now' + ttl'
    BY <1>3, <2>1 DEF CacheInv, InOrderOfUse
  <2> QED BY <2>2, <2>3 DEF InOrderOfUse, Ordered
<1>8. CacheIsBounded'
  <2>1. cap' > 0 => Len(cache') <= cap'
    BY <1>2, <1>3 DEF CacheInv, CacheIsBounded, TypeOK
  <2>2. ASSUME NEW i \in 1..Len(cache'), NEW j \in 1..Len(cache'), i # j
        PROVE  cache'[i].key # cache'[j].key /\ cache'[i].driver # cache'[j].driver
    <3>1. i + 1 \in 1..Len(cache) /\ j + 1 \in 1..Len(cache) /\ i + 1 # j + 1
      BY <1>2, <2>2
    <3>2. cache'[i] = cache[i + 1] /\ cache'[j] = cache[j + 1]
      BY <1>2
    <3> QED BY <3>1, <3>2 DEF CacheInv, CacheIsBounded
  <2> QED BY <2>1, <2>2 DEF CacheIsBounded
<1>9. CachedIsLive' /\ NoDriverLeaks'
  BY <1>3, <1>4 DEF CacheInv, CachedIsLive, NoDriverLeaks
<1> QED BY <1>5, <1>6, <1>7, <1>8, <1>9 DEF CacheInv

(* The steps that leave the cache and the set of Drivers alone.            *)
LEMMA CacheUntouched ==
    ASSUME CacheInv, TypeOK', HasDriver', UNCHANGED <<cap, ttl, cache, made, stopped>>, now <= now'
    PROVE  CacheInv'
<1>1. InOrderOfUse'
  <2>1. \A i \in 1..Len(cache) : cache[i].ts \in Nat
    <3>1. \A i \in 1..Len(cache) : cache[i] \in Entry
      BY ElementOfSeq DEF CacheInv, TypeOK
    <3> QED BY <3>1 DEF Entry
  <2>2. now + ttl \in Nat /\ now' + ttl \in Nat /\ now + ttl <= now' + ttl
    <3>1. now \in Nat /\ ttl \in Nat
      BY CacheAssumption DEF CacheInv, TypeOK
    <3>2. now' \in Nat
      BY CacheAssumption DEF TypeOK
    <3>3. \A m, n, t \in Nat : m <= n => m + t \in Nat /\ n + t \in Nat /\ m + t <= n + t
      OBVIOUS
    <3> QED BY <3>1, <3>2, <3>3, Zenon
  <2> QED BY <2>1, <2>2 DEF CacheInv, InOrderOfUse, Ordered
<1> QED
  BY <1>1 DEF CacheInv, OneLimit, CachedIsMade, CacheIsBounded, CachedIsLive, NoDriverLeaks

LEMMA StepPreserves == CacheInv /\ [Next]_vars => CacheInv'
<1> SUFFICES ASSUME CacheInv, [Next]_vars PROVE CacheInv'
  OBVIOUS
<1>0. now \in Nat /\ now <= now
  BY CacheAssumption DEF CacheInv, TypeOK
<1>1. ASSUME NEW q \in Request, NEW k \in Key, Get(q, k) PROVE CacheInv'
  BY <1>1, GetPreserves
<1>2. ASSUME NEW q \in Request, Update(q) PROVE CacheInv'
  <2>1. busy' \subseteq 1..made /\ UNCHANGED <<cap, ttl, now, cache, made, stopped, lastUsed, resetter, lock, resetOn>>
    <3>1. req[q].driver \in 0..made
      BY DEF CacheInv, TypeOK
    <3>2. made \in Nat /\ busy \subseteq 1..made /\ req[q].driver # 0
      BY <1>2 DEF CacheInv, TypeOK, HasDriver, Update
    <3> QED BY <1>2, <3>1, <3>2 DEF Update
  <2>2. req' \in [Request -> [phase : {"idle", "got", "updating", "failed", "returned"}, driver : 0..made]]
    <3>1. req \in [Request -> [phase : {"idle", "got", "updating", "failed", "returned"},
                               driver : 0..made]]
      BY DEF CacheInv, TypeOK
    <3> QED BY <1>2, <3>1 DEF Update
  <2>3. HasDriver'
    <3>1. req[q].driver # 0 /\ req'[q].driver = req[q].driver
          /\ \A x \in Request \ {q} : req'[x] = req[x]
      <4>1. req \in [Request -> [phase : {"idle", "got", "updating", "failed", "returned"},
                                 driver : 0..made]]
        BY DEF CacheInv, TypeOK
      <4>2. req[q].driver # 0
        BY <1>2 DEF CacheInv, HasDriver, Update
      <4> QED BY <1>2, <4>1, <4>2 DEF Update
    <3> QED BY <3>1 DEF CacheInv, HasDriver
  <2>4. TypeOK'
    BY <2>1, <2>2 DEF CacheInv, TypeOK
  <2> QED BY <1>0, <2>1, <2>3, <2>4, CacheUntouched
<1>3. ASSUME NEW q \in Request, UpdateReturns(q) PROVE CacheInv'
  <2>1. TypeOK' /\ HasDriver'
    BY <1>3 DEF CacheInv, TypeOK, HasDriver, UpdateReturns
  <2> QED BY <1>0, <1>3, <2>1, CacheUntouched DEF UpdateReturns
<1>4. ASSUME NEW d \in busy, WorkEnds(d) PROVE CacheInv'
  <2>1. TypeOK' /\ HasDriver'
    BY <1>4 DEF CacheInv, TypeOK, HasDriver, WorkEnds
  <2> QED BY <1>0, <1>4, <2>1, CacheUntouched DEF WorkEnds
<1>5. CASE ResetCall \/ UnloaderTick
  <2>1. TypeOK' /\ HasDriver'
    BY <1>5 DEF CacheInv, TypeOK, HasDriver, ResetCall, UnloaderTick, Resetters
  <2> QED BY <1>0, <1>5, <2>1, CacheUntouched DEF ResetCall, UnloaderTick
<1>6. ASSUME NEW r \in Resetters, ResetLocks(r) PROVE CacheInv'
  <2>1. TypeOK' /\ HasDriver'
    BY <1>6 DEF CacheInv, TypeOK, HasDriver, ResetLocks
  <2> QED BY <1>0, <1>6, <2>1, CacheUntouched DEF ResetLocks
<1>7. ASSUME NEW r \in Resetters, ResetNext(r) PROVE CacheInv'
  BY <1>7, ResetNextPreserves
<1>8. ASSUME NEW r \in Resetters, ResetWaited(r) PROVE CacheInv'
  <2>1. TypeOK' /\ HasDriver'
    BY <1>8 DEF CacheInv, TypeOK, HasDriver, ResetWaited
  <2> QED BY <1>0, <1>8, <2>1, CacheUntouched DEF ResetWaited
<1>9. ASSUME NEW r \in Resetters, ResetReturns(r) PROVE CacheInv'
  <2>1. TypeOK' /\ HasDriver'
    BY <1>9 DEF CacheInv, TypeOK, HasDriver, ResetReturns, Resetters
  <2> QED BY <1>0, <1>9, <2>1, CacheUntouched DEF ResetReturns
<1>10. CASE Tick
  <2>1. now + 1 \in 0..MaxTime /\ now <= now + 1
    BY <1>10, CacheAssumption DEF CacheInv, TypeOK, Tick
  <2>2. TypeOK' /\ HasDriver'
    BY <1>10, <2>1 DEF CacheInv, TypeOK, HasDriver, Tick
  <2> QED BY <1>10, <2>1, <2>2, CacheUntouched DEF Tick
<1>11. CASE Terminated \/ UNCHANGED vars
  <2>1. TypeOK' /\ HasDriver'
    BY <1>11 DEF CacheInv, TypeOK, HasDriver, Terminated, vars
  <2> QED BY <1>0, <1>11, <2>1, CacheUntouched DEF Terminated, vars
<1> QED
  BY <1>1, <1>2, <1>3, <1>4, <1>5, <1>6, <1>7, <1>8, <1>9, <1>10, <1>11 DEF Next, ResetStep

LEMMA Inductive == Spec => []CacheInv
  BY InitEstablishes, StepPreserves, PTL DEF Spec

-----------------------------------------------------------------------------
(* Every variable of the cache and its callers keeps its type.             *)
THEOREM CacheTypes == Spec => []TypeOK
<1>1. CacheInv => TypeOK
  BY DEF CacheInv
<1> QED BY <1>1, Inductive, PTL

(* drivers.go:88: purgeLocked makes room for the entry that Get adds, and  *)
(* no file ever has two Drivers, for any number of files and requests.     *)
THEOREM CacheBounded == Spec => []CacheIsBounded
<1>1. CacheInv => CacheIsBounded
  BY DEF CacheInv
<1> QED BY <1>1, Inductive, PTL

(* umfDrivers.Get hands out no Driver on which Cleanup was called.         *)
THEOREM CachedDriversAreLive == Spec => []CachedIsLive
<1>1. CacheInv => CachedIsLive
  BY DEF CacheInv
<1> QED BY <1>1, Inductive, PTL

(* Every Driver that left the cache, purged or reset, was cleaned up.      *)
THEOREM DriversDoNotLeak == Spec => []NoDriverLeaks
<1>1. CacheInv => NoDriverLeaks
  BY DEF CacheInv
<1> QED BY <1>1, Inductive, PTL

(* A request that gets a Driver is a step of Get.                          *)
LEMMA OnlyGetHandsOut ==
    ASSUME CacheInv, Next, NEW q \in Request, req[q].phase = "idle", req'[q].phase = "got"
    PROVE  \E k \in Key : Get(q, k)
<1>1. ASSUME NEW x \in Request, NEW k \in Key, Get(x, k), x # q PROVE FALSE
  BY <1>1 DEF Get, CacheInv, TypeOK
<1>2. ASSUME NEW x \in Request, Update(x) \/ UpdateReturns(x) PROVE FALSE
  BY <1>2 DEF Update, UpdateReturns, CacheInv, TypeOK
<1>3. ASSUME UNCHANGED req PROVE FALSE
  BY <1>3
<1>4. ASSUME NEW d \in busy, WorkEnds(d) PROVE FALSE
  BY <1>3, <1>4 DEF WorkEnds
<1>5. ASSUME ResetCall \/ UnloaderTick \/ Tick \/ Terminated PROVE FALSE
  BY <1>3, <1>5 DEF ResetCall, UnloaderTick, Tick, Terminated, vars
<1>6. ASSUME NEW r \in Resetters, ResetStep(r) PROVE FALSE
  BY <1>3, <1>6 DEF ResetStep, ResetLocks, ResetNext, ResetWaited, ResetReturns
<1> QED
  BY <1>1, <1>2, <1>4, <1>5, <1>6 DEF Next

(* purgeLocked stops at the first entry that has not expired.  Since the   *)
(* entries are in the order of their use, none behind it has.              *)
LEMMA NoneExpiredBehind ==
    ASSUME NEW entries \in Seq(Entry), Ordered(entries), TypeOK, OneLimit, ttl > 0
    PROVE  \A i \in 1..Len(Kept(entries)) : now - Kept(entries)[i].ts <= ttl
<1> DEFINE n == Purged(entries)
<1>1. n \in 0..Len(entries) /\ (n < Len(entries) => ~Purgeable(entries, n + 1))
  BY PurgedProperties
<1>2. /\ Len(Kept(entries)) = Len(entries) - n
      /\ \A i \in 1..(Len(entries) - n) : Kept(entries)[i] = entries[n + i]
  BY KeptProperties
<1> HIDE DEF n
<1> TAKE i \in 1..Len(Kept(entries))
<1>3. n < Len(entries) /\ n + 1 \in 1..Len(entries) /\ n + i \in 1..Len(entries) /\ n + 1 <= n + i
  BY <1>1, <1>2
<1>4. entries[n + 1].ts \in Nat /\ entries[n + i].ts \in Nat
  <2>1. entries[n + 1] \in Entry /\ entries[n + i] \in Entry
    BY <1>3, ElementOfSeq
  <2> QED BY <2>1 DEF Entry
<1>5. entries[n + 1].ts <= entries[n + i].ts
  BY <1>3 DEF Ordered
<1>6. now \in Nat /\ ttl \in Nat
  BY CacheAssumption DEF TypeOK
<1>7. now - entries[n + 1].ts <= ttl
  BY <1>1, <1>3, <1>4, <1>6 DEF Purgeable
<1>8. now - entries[n + i].ts <= ttl
  BY <1>4, <1>5, <1>6, <1>7
<1> QED BY <1>2, <1>3, <1>8

(* When Get returns in the cloud, no entry has a timestamp, which is the   *)
(* ttl after its last use, of more than the ttl ago: the early exit of     *)
(* purgeLocked misses none.                                                *)
THEOREM PurgeMissesNothing == Spec => PurgeIsComplete
<1> DEFINE A == \A q \in Request : req[q].phase = "idle" /\ req'[q].phase = "got" /\ ttl > 0 =>
                   \A i \in 1..Len(cache') : now - cache'[i].ts <= ttl
<1>1. CacheInv /\ [Next]_vars => [A]_vars
  <2> SUFFICES ASSUME CacheInv, Next, NEW q \in Request,
                      req[q].phase = "idle", req'[q].phase = "got", ttl > 0
               PROVE  \A i \in 1..Len(cache') : now - cache'[i].ts <= ttl
    OBVIOUS
  <2>1. PICK k \in Key : Get(q, k)
    BY OnlyGetHandsOut
  <2> DEFINE rest == Delete(cache, k)
  <2>2. /\ rest \in Seq(Entry) /\ Ordered(rest)
        /\ Len(cache') = Len(Kept(rest)) + 1
        /\ \A i \in 1..Len(cache') :
             \/ cache'[i].ts = now + ttl
             \/ i <= Len(Kept(rest)) /\ cache'[i] = Kept(rest)[i]
    BY <2>1, GetResult
  <2> HIDE DEF rest
  <2>3. \A i \in 1..Len(Kept(rest)) : now - Kept(rest)[i].ts <= ttl
    BY <2>2, NoneExpiredBehind DEF CacheInv
  <2>4. now \in Nat /\ ttl \in Nat /\ now - (now + ttl) <= ttl
    BY CacheAssumption DEF CacheInv, TypeOK
  <2>5. Len(Kept(rest)) \in Nat
    BY <2>2, KeptProperties
  <2> QED BY <2>2, <2>3, <2>4, <2>5
<1> QED
  BY <1>1, Inductive, PTL DEF Spec, PurgeIsComplete
=============================================================================
