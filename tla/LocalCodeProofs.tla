--------------------------- MODULE LocalCodeProofs ---------------------------
(***************************************************************************)
(* The objects of a UserContext, for any files, goroutines and numbers of  *)
(* loads: each is in one place, and what a caller keeps for a minute is    *)
(* not cleaned up.  Nothing here depends on which artifacts are found: the *)
(* worker, the request and the network are free to do anything.            *)
(***************************************************************************)
EXTENDS LocalCode, DataFacts

(* A loadedArtifact whose data is from U: the proof is about obj and       *)
(* minutes only.                                                           *)
Entry(U) == [uuid : U, files : U, update : U, obj : Nat, dirtyAt : U, minutes : Nat]

(* No object has two places in the sequence.                               *)
Distinct(s) == \A i, j \in 1..Len(s) : s[i].obj = s[j].obj => i = j

EntriesTyped == \E U : artifacts \in Seq(Entry(U)) /\ idle \subseteq Entry(U)

(* An object is in artifacts, in idle or cleaned up, and in none of them   *)
(* before it is loaded.                                                    *)
OneHome ==
    /\ loads \in Nat /\ cleaned \subseteq 1..loads
    /\ \A i \in 1..Len(artifacts) : artifacts[i].obj \in 1..loads /\ artifacts[i].obj \notin cleaned
    /\ \A l \in idle : l.obj \in 1..loads /\ l.obj \notin cleaned
    /\ \A i \in 1..Len(artifacts) : \A l \in idle : artifacts[i].obj # l.obj
    /\ Distinct(artifacts)
    /\ \A l, k \in idle : l.obj = k.obj => l = k

(* What is held has not been idle for longer than it has been held.        *)
HeldOutlivesIdle ==
    /\ held \in [obj : Nat, minutes : 0..1]
    /\ held # NoHolder /\ ~closed =>
         /\ held.obj \notin cleaned
         /\ \A l \in idle : l.obj = held.obj => l.minutes <= held.minutes

LocalInv == EntriesTyped /\ OneHome /\ HeldOutlivesIdle

-----------------------------------------------------------------------------
(* Entries and sequences of them                                           *)

(* Data may be drawn from a larger set.                                    *)
LEMMA WiderEntries ==
    ASSUME NEW U, NEW V, U \subseteq V
    PROVE  Entry(U) \subseteq Entry(V) /\ \A s \in Seq(Entry(U)) : s \in Seq(Entry(V))
<1>1. Entry(U) \subseteq Entry(V)
  BY DEF Entry
<1> HIDE DEF Entry
<1> QED BY <1>1

(* What makes an artifact the last accessed, or drops it, leaves an object *)
(* with one place.                                                         *)
LEMMA RemovedIsGone ==
    ASSUME NEW U, NEW s \in Seq(Entry(U)), Distinct(s), NEW p \in 1..Len(s)
    PROVE  LET t == RemoveAt(s, p)
           IN  /\ t \in Seq(Entry(U)) /\ Distinct(t)
               /\ \A i \in 1..Len(t) : /\ \E j \in 1..Len(s) : t[i] = s[j]
                                       /\ t[i].obj # s[p].obj
<1> DEFINE t == RemoveAt(s, p)
           From(i) == IF i < p THEN i ELSE i + 1
<1>1. /\ t \in Seq(Entry(U)) /\ Len(t) = Len(s) - 1
      /\ \A i \in 1..(Len(s) - 1) : t[i] = s[From(i)]
  BY RemoveAtProperties
<1> HIDE DEF t
<1>2. \A i \in 1..Len(t) : From(i) \in 1..Len(s) /\ From(i) # p
  BY <1>1
<1>3. \A i, j \in 1..Len(t) : From(i) = From(j) => i = j
  BY <1>1
<1>4. \A i \in 1..Len(t) : t[i] = s[From(i)]
  BY <1>1
<1> HIDE DEF From
<1>5. Distinct(t)
  BY <1>2, <1>3, <1>4 DEF Distinct
<1>6. \A i \in 1..Len(t) : t[i].obj # s[p].obj
  BY <1>2, <1>4 DEF Distinct
<1> QED BY <1>1, <1>2, <1>4, <1>5, <1>6 DEF t

LEMMA AppendedIsDistinct ==
    ASSUME NEW U, NEW s \in Seq(Entry(U)), Distinct(s), NEW e \in Entry(U),
           \A i \in 1..Len(s) : s[i].obj # e.obj
    PROVE  LET t == Append(s, e)
           IN  /\ t \in Seq(Entry(U)) /\ Distinct(t) /\ Len(t) = Len(s) + 1
               /\ \A i \in 1..Len(t) : t[i] = e \/ \E j \in 1..Len(s) : t[i] = s[j]
<1> DEFINE t == Append(s, e)
<1>1. /\ t \in Seq(Entry(U)) /\ Len(t) = Len(s) + 1 /\ t[Len(s) + 1] = e
      /\ \A i \in 1..Len(s) : t[i] = s[i]
  BY AppendProperties
<1> HIDE DEF t
<1>2. \A i \in 1..Len(t) : i \in 1..Len(s) \/ i = Len(s) + 1
  BY <1>1
<1>3. Distinct(t)
  BY <1>1, <1>2 DEF Distinct
<1> QED BY <1>1, <1>2, <1>3 DEF t

(* What cleanupInactive and loadArtifact leave when the oldest n go.       *)
Newest(s, n) == SubSeq(s, n + 1, Len(s))

LEMMA DroppedAreGone ==
    ASSUME NEW U, NEW s \in Seq(Entry(U)), Distinct(s), NEW n \in 0..Len(s)
    PROVE  LET t == Newest(s, n)
           IN  /\ t \in Seq(Entry(U)) /\ Distinct(t)
               /\ \A i \in 1..Len(t) : /\ \E j \in 1..Len(s) : t[i] = s[j]
                                       /\ \A j \in 1..n : t[i].obj # s[j].obj
<1> DEFINE t == Newest(s, n)
<1>1. t \in Seq(Entry(U)) /\ Len(t) = Len(s) - n /\ \A i \in 1..(Len(s) - n) : t[i] = s[n + i]
  BY DEF Newest
<1> HIDE DEF t
<1>2. \A i \in 1..Len(t) : n + i \in 1..Len(s) /\ t[i] = s[n + i] /\ n + i \notin 1..n
  BY <1>1
<1>3. \A i, j \in 1..Len(t) : n + i = n + j => i = j
  BY <1>1
<1>4. Distinct(t)
  <2> SUFFICES ASSUME NEW i \in 1..Len(t), NEW j \in 1..Len(t), t[i].obj = t[j].obj PROVE i = j
    BY DEF Distinct
  <2>1. n + i = n + j
    BY <1>2 DEF Distinct
  <2> QED BY <1>3, <2>1
<1>5. ASSUME NEW i \in 1..Len(t), NEW j \in 1..n PROVE t[i].obj # s[j].obj
  <2>1. j \in 1..Len(s) /\ n + i # j
    BY <1>2
  <2> QED BY <1>2, <2>1 DEF Distinct
<1> QED BY <1>1, <1>2, <1>4, <1>5 DEF t

(* Objects that become idle start with no minute, beside those that were   *)
(* idle and are not replaced.                                              *)
LEMMA IdledProperties ==
    ASSUME NEW U, idle \subseteq Entry(U), NEW D, D \subseteq Entry(U)
    PROVE  /\ Idled(D) \subseteq Entry(U)
           /\ \A l \in Idled(D) : \/ l \in idle
                                  \/ \E d \in D : l = [d EXCEPT !.minutes = 0]
           /\ \A d \in D : LET e == [d EXCEPT !.minutes = 0]
                          IN  e \in Entry(U) /\ e.obj = d.obj /\ e.minutes = 0
<1>1. \A d \in D : LET e == [d EXCEPT !.minutes = 0]
                   IN  e \in Entry(U) /\ e.obj = d.obj /\ e.minutes = 0
  BY DEF Entry
<1> QED BY <1>1 DEF Idled

(* An object that moves from artifacts to idle keeps a single home there.  *)
LEMMA IdledIsDistinct ==
    ASSUME NEW U, artifacts \in Seq(Entry(U)), idle \subseteq Entry(U), OneHome, HeldOutlivesIdle,
           NEW D, \A d \in D : \E i \in 1..Len(artifacts) : d = artifacts[i]
    PROVE  /\ Idled(D) \subseteq Entry(U)
           /\ \A l \in Idled(D) :
                /\ l.obj \in 1..loads /\ l.obj \notin cleaned
                /\ \/ l \in idle
                   \/ /\ l.minutes = 0
                      /\ \E i \in 1..Len(artifacts) : artifacts[i] \in D /\ l.obj = artifacts[i].obj
           /\ \A l, k \in Idled(D) : l.obj = k.obj => l = k
           /\ held # NoHolder /\ ~closed =>
                \A l \in Idled(D) : l.obj = held.obj => l.minutes <= held.minutes
<1>1. D \subseteq Entry(U)
  OBVIOUS
<1>2. /\ Idled(D) \subseteq Entry(U)
      /\ \A l \in Idled(D) : \/ l \in idle
                             \/ \E d \in D : l = [d EXCEPT !.minutes = 0]
      /\ \A d \in D : LET e == [d EXCEPT !.minutes = 0]
                     IN  e \in Entry(U) /\ e.obj = d.obj /\ e.minutes = 0
  BY <1>1, IdledProperties
<1>3. ASSUME NEW l \in Idled(D)
      PROVE  /\ l.obj \in 1..loads /\ l.obj \notin cleaned
             /\ \/ l \in idle
                \/ /\ l.minutes = 0
                   /\ \E i \in 1..Len(artifacts) : artifacts[i] \in D /\ l.obj = artifacts[i].obj
  <2>1. CASE l \in idle
    BY <2>1 DEF OneHome
  <2>2. CASE l \notin idle
    <3>1. PICK d \in D : l = [d EXCEPT !.minutes = 0]
      BY <1>2, <2>2
    <3>2. l.obj = d.obj /\ l.minutes = 0
      BY <1>2, <3>1
    <3>3. PICK i \in 1..Len(artifacts) : d = artifacts[i]
      OBVIOUS
    <3> QED BY <3>2, <3>3 DEF OneHome
  <2> QED BY <2>1, <2>2
<1>4. ASSUME NEW l \in Idled(D), NEW k \in Idled(D), l.obj = k.obj PROVE l = k
  <2>1. CASE l \in idle /\ k \in idle
    BY <1>4, <2>1 DEF OneHome
  <2>2. CASE l \in idle /\ k \notin idle
    BY <1>3, <1>4, <2>2 DEF OneHome
  <2>3. CASE l \notin idle /\ k \in idle
    BY <1>3, <1>4, <2>3 DEF OneHome
  <2>4. CASE l \notin idle /\ k \notin idle
    <3>1. PICK d \in D : l = [d EXCEPT !.minutes = 0]
      BY <1>2, <2>4
    <3>2. PICK e \in D : k = [e EXCEPT !.minutes = 0]
      BY <1>2, <2>4
    <3>3. d.obj = e.obj
      BY <1>2, <1>4, <3>1, <3>2
    <3>4. d = e
      BY <3>3 DEF OneHome, Distinct
    <3> QED BY <3>1, <3>2, <3>4
  <2> QED BY <2>1, <2>2, <2>3, <2>4
<1>5. ASSUME held # NoHolder, ~closed, NEW l \in Idled(D), l.obj = held.obj
      PROVE  l.minutes <= held.minutes
  <2>1. held.minutes \in 0..1
    BY DEF HeldOutlivesIdle
  <2>2. CASE l \in idle
    BY <1>5, <2>2 DEF HeldOutlivesIdle
  <2>3. CASE l.minutes = 0
    BY <2>1, <2>3
  <2> QED BY <1>3, <2>2, <2>3
<1> QED BY <1>2, <1>3, <1>4, <1>5

(* The objects of a sequence of entries are those at its places.           *)
LEMMA ObjectsOfSequence ==
    ASSUME NEW U, NEW s \in Seq(Entry(U)), NEW o
    PROVE  o \in Objects(Range(s)) <=> \E i \in 1..Len(s) : o = s[i].obj
BY DEF Objects, Range

-----------------------------------------------------------------------------
(* The steps                                                               *)

LEMMA InitInv == Init => LocalInv
<1> SUFFICES ASSUME Init PROVE LocalInv
  OBVIOUS
<1>1. /\ artifacts = <<>> /\ idle = {} /\ loads \in Nat /\ cleaned = 1..loads
      /\ held = [obj |-> 0, minutes |-> 0]
  BY LocalCodeAssumption DEF Init, NoHolder
<1>2. EntriesTyped
  <2>1. artifacts \in Seq(Entry({})) /\ idle \subseteq Entry({})
    BY <1>1
  <2> QED BY <2>1 DEF EntriesTyped
<1>3. OneHome
  BY <1>1 DEF OneHome, Distinct
<1>4. HeldOutlivesIdle
  BY <1>1 DEF HeldOutlivesIdle, NoHolder
<1> QED BY <1>2, <1>3, <1>4 DEF LocalInv

(* The files of a sync are dirty: the objects stay where they are.         *)
LEMMA ObserveKeepsInv ==
    ASSUME LocalInv, NEW f \in File, observeFileSync(f) PROVE LocalInv'
<1>1. PICK U : artifacts \in Seq(Entry(U)) /\ idle \subseteq Entry(U)
  BY DEF LocalInv, EntriesTyped
<1> DEFINE V == U \cup {clock + 1}
           Observed(n) == IF f \in artifacts[n].files
                          THEN [artifacts[n] EXCEPT !.dirtyAt = clock + 1] ELSE artifacts[n]
<1>2. UNCHANGED <<idle, closed, held, loads, cleaned>>
  BY DEF observeFileSync
<1>3. artifacts \in Seq(Entry(V)) /\ idle \subseteq Entry(V) /\ clock + 1 \in V
  BY <1>1, WiderEntries
<1> HIDE DEF V
<1>4. \A n \in 1..Len(artifacts) : Observed(n) \in Entry(V) /\ Observed(n).obj = artifacts[n].obj
  <2> TAKE n \in 1..Len(artifacts)
  <2>1. artifacts[n] \in Entry(V)
    BY <1>3
  <2> QED BY <1>3, <2>1 DEF Entry
<1>5. artifacts' = [n \in 1..Len(artifacts) |-> Observed(n)]
  <2>1. DOMAIN artifacts = 1..Len(artifacts)
    BY <1>3
  <2> QED BY <2>1, Zenon DEF observeFileSync
<1> HIDE DEF Observed
<1>6. /\ artifacts' \in Seq(Entry(V)) /\ Len(artifacts') = Len(artifacts)
      /\ \A n \in 1..Len(artifacts) : artifacts'[n].obj = artifacts[n].obj
  BY <1>3, <1>4, <1>5
<1>7. EntriesTyped'
  BY <1>2, <1>3, <1>6 DEF EntriesTyped
<1>8. OneHome'
  BY <1>2, <1>6 DEF LocalInv, OneHome, Distinct
<1>9. HeldOutlivesIdle'
  BY <1>2 DEF LocalInv, HeldOutlivesIdle, NoHolder
<1> QED BY <1>7, <1>8, <1>9 DEF LocalInv

(* There is a newest object among those that serve.                        *)
LEMMA BestIsServing ==
    ASSUME NEW U, artifacts \in Seq(Entry(U)), OneHome, NEW f, Serving(f) # {}
    PROVE  Best(f) \in 1..Len(artifacts)
<1> DEFINE T == {artifacts[n].obj : n \in Serving(f)}
<1>1. Serving(f) \subseteq 1..Len(artifacts)
  BY DEF Serving
<1>2. T \subseteq Nat /\ T # {} /\ loads \in Nat /\ \A k \in T : k <= loads
  BY <1>1 DEF OneHome
<1>3. PICK m \in T : \A k \in T : k <= m
  <2> HIDE DEF T
  <2> QED BY <1>2, GreatestNat
<1>4. PICK n \in Serving(f) : \A k \in Serving(f) : artifacts[k].obj <= artifacts[n].obj
  BY <1>3
<1> QED BY <1>1, <1>4 DEF Best

(* The artifact that serves becomes the last, and its object may be held.  *)
LEMMA AccessKeepsInv ==
    ASSUME LocalInv, NEW f \in File, artifactForFile(f) PROVE LocalInv'
<1>1. PICK U : artifacts \in Seq(Entry(U)) /\ idle \subseteq Entry(U)
  BY DEF LocalInv, EntriesTyped
<1>2. UNCHANGED <<idle, closed, loads, cleaned>>
  BY DEF artifactForFile
<1>3. CASE Serving(f) = {}
  <2>1. UNCHANGED <<artifacts, held>>
    BY <1>3 DEF artifactForFile
  <2> QED BY <1>2, <2>1 DEF LocalInv, EntriesTyped, OneHome, Distinct, HeldOutlivesIdle, NoHolder
<1>4. CASE Serving(f) # {}
  <2> DEFINE b == Best(f)
             rest == RemoveAt(artifacts, b)
  <2>1. b \in 1..Len(artifacts)
    BY <1>1, <1>4, BestIsServing DEF LocalInv
  <2>2. /\ artifacts' = Append(rest, artifacts[b])
        /\ held' = [obj |-> artifacts[b].obj, minutes |-> 0] \/ UNCHANGED held
    <3>1. Access(b) /\ Hold(artifacts[b].obj)
      BY <1>4 DEF artifactForFile
    <3> QED BY <3>1 DEF Access, Hold
  <2> HIDE DEF b
  <2>3. /\ rest \in Seq(Entry(U)) /\ Distinct(rest)
        /\ \A i \in 1..Len(rest) : /\ \E j \in 1..Len(artifacts) : rest[i] = artifacts[j]
                                   /\ rest[i].obj # artifacts[b].obj
    <3>1. Distinct(artifacts)
      BY DEF LocalInv, OneHome
    <3> QED BY <1>1, <2>1, <3>1, RemovedIsGone
  <2> HIDE DEF rest
  <2>4. artifacts[b] \in Entry(U)
    BY <1>1, <2>1
  <2>5. /\ artifacts' \in Seq(Entry(U)) /\ Distinct(artifacts')
        /\ \A i \in 1..Len(artifacts') :
              artifacts'[i] = artifacts[b] \/ \E j \in 1..Len(rest) : artifacts'[i] = rest[j]
    BY <2>2, <2>3, <2>4, AppendedIsDistinct
  <2>6. \A i \in 1..Len(artifacts') : \E j \in 1..Len(artifacts) : artifacts'[i] = artifacts[j]
    BY <2>1, <2>3, <2>5
  <2>7. EntriesTyped'
    BY <1>1, <1>2, <2>5 DEF EntriesTyped
  <2>8. OneHome'
    <3>1. \A i \in 1..Len(artifacts') :
            /\ artifacts'[i].obj \in 1..loads /\ artifacts'[i].obj \notin cleaned
            /\ \A l \in idle : artifacts'[i].obj # l.obj
      BY <2>6 DEF LocalInv, OneHome
    <3> QED BY <1>2, <2>5, <3>1 DEF LocalInv, OneHome
  <2>9. HeldOutlivesIdle'
    <3>1. artifacts[b].obj \notin cleaned /\ artifacts[b].obj \in Nat
          /\ \A l \in idle : l.obj # artifacts[b].obj
      BY <2>1 DEF LocalInv, OneHome
    <3>2. CASE held' = [obj |-> artifacts[b].obj, minutes |-> 0]
      BY <1>2, <3>1, <3>2 DEF HeldOutlivesIdle
    <3>3. CASE UNCHANGED held
      BY <1>2, <3>3 DEF LocalInv, HeldOutlivesIdle, NoHolder
    <3> QED BY <2>2, <3>2, <3>3
  <2> QED BY <2>7, <2>8, <2>9 DEF LocalInv
<1> QED BY <1>3, <1>4

(* A new object takes the place of the one with its uuid, and may make the *)
(* oldest one idle.                                                        *)
LEMMA LoadKeepsInv ==
    ASSUME LocalInv, NEW g, loadArtifact(g) PROVE LocalInv'
<1>1. PICK U : artifacts \in Seq(Entry(U)) /\ idle \subseteq Entry(U)
  BY DEF LocalInv, EntriesTyped
<1> DEFINE a == fetch[g].found
           others == Without(a.uuid)
           new == [uuid |-> a.uuid, files |-> a.files, update |-> a.update, obj |-> loads + 1,
                   dirtyAt |-> 0, minutes |-> 0]
           V == U \cup {a.uuid, a.files, a.update, 0}
<1>2. /\ loads' = loads + 1 /\ UNCHANGED <<closed, held, cleaned>>
      /\ \/ others # <<>> /\ artifacts' = Append(Tail(others), new) /\ idle' = Idled({Head(others)})
         \/ artifacts' = Append(others, new) /\ UNCHANGED idle
  BY DEF loadArtifact
<1>3. loads \in Nat
  BY DEF LocalInv, OneHome
<1>4. new \in Entry(V) /\ new.obj = loads + 1
  BY <1>3 DEF Entry
<1>5. artifacts \in Seq(Entry(V)) /\ idle \subseteq Entry(V)
  BY <1>1, WiderEntries
<1> HIDE DEF V, new
<1>6. /\ others \in Seq(Entry(V)) /\ Distinct(others)
      /\ \A i \in 1..Len(others) : \E j \in 1..Len(artifacts) : others[i] = artifacts[j]
  <2>1. CASE \E n \in DOMAIN artifacts : artifacts[n].uuid = a.uuid
    <3> DEFINE p == CHOOSE n \in DOMAIN artifacts : artifacts[n].uuid = a.uuid
    <3>1. others = RemoveAt(artifacts, p)
      BY <2>1 DEF Without
    <3>2. p \in 1..Len(artifacts)
      BY <1>5, <2>1
    <3>3. Distinct(artifacts)
      BY DEF LocalInv, OneHome
    <3> HIDE DEF p, others
    <3>4. /\ RemoveAt(artifacts, p) \in Seq(Entry(V)) /\ Distinct(RemoveAt(artifacts, p))
          /\ \A i \in 1..Len(RemoveAt(artifacts, p)) :
               \E j \in 1..Len(artifacts) : RemoveAt(artifacts, p)[i] = artifacts[j]
      BY <1>5, <3>2, <3>3, RemovedIsGone
    <3> QED BY <3>1, <3>4
  <2>2. CASE ~\E n \in DOMAIN artifacts : artifacts[n].uuid = a.uuid
    <3>1. others = artifacts
      BY <2>2 DEF Without
    <3> HIDE DEF others
    <3> QED BY <1>5, <3>1 DEF LocalInv, OneHome
  <2> QED BY <2>1, <2>2
<1> HIDE DEF others
(* Either way what is left of artifacts and what is idle share no object.  *)
<1>7. ASSUME NEW s \in Seq(Entry(V)), Distinct(s), artifacts' = Append(s, new),
             \A i \in 1..Len(s) : \E j \in 1..Len(artifacts) : s[i] = artifacts[j],
             idle' \subseteq Entry(V),
             \A l \in idle' : l.obj \in 1..loads /\ l.obj \notin cleaned,
             \A l, k \in idle' : l.obj = k.obj => l = k,
             \A i \in 1..Len(s) : \A l \in idle' : s[i].obj # l.obj
      PROVE  EntriesTyped' /\ OneHome'
  <2>1. \A i \in 1..Len(s) : s[i].obj \in 1..loads /\ s[i].obj \notin cleaned
    BY <1>7 DEF LocalInv, OneHome
  <2>2. \A i \in 1..Len(s) : s[i].obj # new.obj
    BY <1>3, <1>4, <2>1
  <2>3. /\ artifacts' \in Seq(Entry(V)) /\ Distinct(artifacts')
        /\ \A i \in 1..Len(artifacts') :
              artifacts'[i] = new \/ \E j \in 1..Len(s) : artifacts'[i] = s[j]
    BY <1>4, <1>7, <2>2, AppendedIsDistinct
  <2>4. EntriesTyped'
    BY <1>7, <2>3 DEF EntriesTyped
  <2>5. /\ loads' \in Nat /\ 1..loads \subseteq 1..loads' /\ cleaned \subseteq 1..loads
        /\ new.obj \in 1..loads' /\ new.obj \notin 1..loads
    BY <1>2, <1>3, <1>4 DEF LocalInv, OneHome
  <2>6. \A i \in 1..Len(artifacts') :
          /\ artifacts'[i].obj \in 1..loads' /\ artifacts'[i].obj \notin cleaned
          /\ \A l \in idle' : artifacts'[i].obj # l.obj
    BY <1>7, <2>1, <2>3, <2>5
  <2>7. OneHome'
    BY <1>2, <1>7, <2>3, <2>5, <2>6 DEF OneHome
  <2> QED BY <2>4, <2>7
<1>8. CASE others # <<>> /\ artifacts' = Append(Tail(others), new) /\ idle' = Idled({Head(others)})
  <2> DEFINE one == 1
             t == Newest(others, one)
  <2>1. Tail(others) = t /\ Head(others) = others[1] /\ one \in 0..Len(others) /\ 1 \in 1..Len(others)
    BY <1>6, <1>8 DEF Newest
  <2>2. /\ t \in Seq(Entry(V)) /\ Distinct(t)
        /\ \A i \in 1..Len(t) : /\ \E j \in 1..Len(others) : t[i] = others[j]
                                /\ \A j \in 1..one : t[i].obj # others[j].obj
    <3>1. others \in Seq(Entry(V)) /\ Distinct(others) /\ one \in 0..Len(others)
      BY <1>6, <2>1
    <3> HIDE DEF one
    <3> QED BY <3>1, DroppedAreGone
  <2> HIDE DEF t
  <2>3. PICK h \in 1..Len(artifacts) : others[1] = artifacts[h]
    BY <1>6, <2>1
  <2>4. idle' = Idled({artifacts[h]})
    BY <1>8, <2>1, <2>3
  <2>5. /\ Idled({artifacts[h]}) \subseteq Entry(V)
        /\ \A l \in Idled({artifacts[h]}) :
             /\ l.obj \in 1..loads /\ l.obj \notin cleaned
             /\ \/ l \in idle
                \/ /\ l.minutes = 0
                   /\ \E i \in 1..Len(artifacts) :
                        artifacts[i] \in {artifacts[h]} /\ l.obj = artifacts[i].obj
        /\ \A l, k \in Idled({artifacts[h]}) : l.obj = k.obj => l = k
        /\ held # NoHolder /\ ~closed =>
             \A l \in Idled({artifacts[h]}) : l.obj = held.obj => l.minutes <= held.minutes
    <3>1. \A d \in {artifacts[h]} : \E i \in 1..Len(artifacts) : d = artifacts[i]
      BY <2>3
    <3> QED BY <1>5, <3>1, IdledIsDistinct DEF LocalInv
  <2>6. \A i \in 1..Len(t) : \E j \in 1..Len(artifacts) : t[i] = artifacts[j]
    <3> TAKE i \in 1..Len(t)
    <3>1. PICK j \in 1..Len(others) : t[i] = others[j]
      BY <2>2
    <3> QED BY <1>6, <3>1
  <2>7. \A i \in 1..Len(t) : \A l \in idle' : t[i].obj # l.obj
    <3> SUFFICES ASSUME NEW i \in 1..Len(t), NEW l \in idle', t[i].obj = l.obj PROVE FALSE
      OBVIOUS
    <3>1. CASE l \in idle
      BY <2>6, <3>1 DEF LocalInv, OneHome
    <3>2. CASE l.obj = artifacts[h].obj
      <4>1. t[i].obj # others[1].obj
        BY <2>2
      <4> QED BY <2>3, <3>2, <4>1
    <3> QED BY <2>4, <2>5, <3>1, <3>2
  <2>8. EntriesTyped' /\ OneHome'
    BY <1>7, <1>8, <2>1, <2>2, <2>4, <2>5, <2>6, <2>7
  <2>9. HeldOutlivesIdle'
    BY <1>2, <2>4, <2>5 DEF LocalInv, HeldOutlivesIdle, NoHolder
  <2> QED BY <2>8, <2>9 DEF LocalInv
<1>9. CASE artifacts' = Append(others, new) /\ UNCHANGED idle
  <2>1. /\ \A l \in idle' : l.obj \in 1..loads /\ l.obj \notin cleaned
        /\ \A l, k \in idle' : l.obj = k.obj => l = k
        /\ \A i \in 1..Len(others) : \A l \in idle' : others[i].obj # l.obj
    BY <1>6, <1>9 DEF LocalInv, OneHome
  <2>2. EntriesTyped' /\ OneHome'
    BY <1>5, <1>6, <1>7, <1>9, <2>1
  <2>3. HeldOutlivesIdle'
    BY <1>2, <1>9 DEF LocalInv, HeldOutlivesIdle, NoHolder
  <2> QED BY <2>2, <2>3 DEF LocalInv
<1> QED BY <1>2, <1>8, <1>9

(* The oldest become idle; what has been idle for more than a minute is    *)
(* cleaned up, and nobody can still hold it.                               *)
LEMMA CleanupInactiveKeepsInv ==
    ASSUME LocalInv, NEW n, cleanupInactive(n) PROVE LocalInv'
<1>1. PICK U : artifacts \in Seq(Entry(U)) /\ idle \subseteq Entry(U)
  BY DEF LocalInv, EntriesTyped
<1> DEFINE D == Oldest(n)
           marked == Idled(D)
           removed == {l \in marked : l.minutes > 1}
           t == Newest(artifacts, n)
<1>2. /\ UNCHANGED <<closed, held, loads>> /\ ~closed /\ n \in 0..Len(artifacts)
      /\ artifacts' = t /\ idle' = marked \ removed /\ cleaned' = cleaned \cup Objects(removed)
  BY DEF cleanupInactive, Newest
<1>3. /\ \A d \in D : \E i \in 1..Len(artifacts) : d = artifacts[i]
      /\ \A d \in D : \E i \in 1..n : d = artifacts[i]
  BY <1>2 DEF Oldest
<1> HIDE DEF D
<1>4. /\ marked \subseteq Entry(U)
      /\ \A l \in marked :
           /\ l.obj \in 1..loads /\ l.obj \notin cleaned
           /\ \/ l \in idle
              \/ /\ l.minutes = 0
                 /\ \E i \in 1..Len(artifacts) : artifacts[i] \in D /\ l.obj = artifacts[i].obj
      /\ \A l, k \in marked : l.obj = k.obj => l = k
      /\ held # NoHolder /\ ~closed =>
           \A l \in marked : l.obj = held.obj => l.minutes <= held.minutes
  BY <1>1, <1>3, IdledIsDistinct DEF LocalInv
<1>5. /\ t \in Seq(Entry(U)) /\ Distinct(t)
      /\ \A i \in 1..Len(t) : /\ \E j \in 1..Len(artifacts) : t[i] = artifacts[j]
                              /\ \A j \in 1..n : t[i].obj # artifacts[j].obj
  <2>1. Distinct(artifacts)
    BY DEF LocalInv, OneHome
  <2>2. n \in 0..Len(artifacts)
    BY <1>2
  <2> QED BY <1>1, <2>1, <2>2, DroppedAreGone
<1> HIDE DEF marked, t
<1>6. \A o \in Objects(removed) : \E l \in marked : l.obj = o /\ l.minutes > 1
  BY DEF Objects
<1>7. ASSUME NEW i \in 1..Len(t), NEW l \in marked PROVE t[i].obj # l.obj
  <2>1. CASE l \in idle
    BY <1>5, <2>1 DEF LocalInv, OneHome
  <2>2. ASSUME NEW j \in 1..Len(artifacts), artifacts[j] \in D, l.obj = artifacts[j].obj
        PROVE  t[i].obj # l.obj
    <3>1. PICK k \in 1..n : artifacts[j] = artifacts[k]
      BY <1>3, <2>2
    <3> QED BY <1>5, <2>2, <3>1
  <2> QED BY <1>4, <2>1, <2>2
<1>8. EntriesTyped'
  BY <1>2, <1>4, <1>5 DEF EntriesTyped
<1>9. OneHome'
  <2>1. loads' \in Nat /\ cleaned' \subseteq 1..loads'
    <3>1. Objects(removed) \subseteq 1..loads
      BY <1>4, <1>6
    <3> QED BY <1>2, <3>1 DEF LocalInv, OneHome
  <2>2. \A i \in 1..Len(t) : t[i].obj \in 1..loads /\ t[i].obj \notin cleaned'
    BY <1>2, <1>5, <1>6, <1>7 DEF LocalInv, OneHome
  <2>3. \A l \in idle' : l.obj \in 1..loads /\ l.obj \notin cleaned'
    <3> SUFFICES ASSUME NEW l \in idle', l.obj \in cleaned' PROVE FALSE
      BY <1>2, <1>4
    <3>1. l \in marked /\ l \notin removed
      BY <1>2
    <3>2. PICK k \in marked : k.obj = l.obj /\ k.minutes > 1
      BY <1>2, <1>4, <1>6, <3>1
    <3> QED BY <1>4, <3>1, <3>2
  <2> QED BY <1>2, <1>4, <1>5, <1>7, <2>1, <2>2, <2>3 DEF OneHome
<1>10. HeldOutlivesIdle'
  <2>1. held \in [obj : Nat, minutes : 0..1]
    BY DEF LocalInv, HeldOutlivesIdle
  <2>2. ASSUME held # NoHolder PROVE held.obj \notin cleaned'
    <3> SUFFICES ASSUME held.obj \in cleaned' PROVE FALSE
      OBVIOUS
    <3>1. held.obj \notin cleaned
      BY <1>2, <2>2 DEF LocalInv, HeldOutlivesIdle
    <3>2. PICK l \in marked : l.obj = held.obj /\ l.minutes > 1
      BY <1>2, <1>6, <3>1
    <3>3. l.minutes <= held.minutes /\ held.minutes <= 1 /\ l.minutes \in Nat
      BY <1>2, <1>4, <2>1, <2>2, <3>2 DEF Entry
    <3> QED BY <2>1, <3>2, <3>3
  <2>3. ASSUME held # NoHolder, NEW l \in idle', l.obj = held.obj PROVE l.minutes <= held.minutes
    BY <1>2, <1>4, <2>3
  <2> QED BY <1>2, <2>1, <2>2, <2>3 DEF HeldOutlivesIdle, NoHolder
<1> QED BY <1>8, <1>9, <1>10 DEF LocalInv

(* All goes.  What is loaded later finds the context closed.               *)
LEMMA CleanupKeepsInv ==
    ASSUME LocalInv, Cleanup PROVE LocalInv'
<1>1. PICK U : artifacts \in Seq(Entry(U)) /\ idle \subseteq Entry(U)
  BY DEF LocalInv, EntriesTyped
<1>2. /\ closed' = TRUE /\ UNCHANGED <<held, loads>> /\ artifacts' = <<>> /\ idle' = {}
      /\ cleaned' = cleaned \cup Objects(Loaded)
  BY DEF Cleanup
<1>3. Objects(Loaded) \subseteq 1..loads
  <2>1. \A l \in Loaded : l \in idle \/ \E i \in 1..Len(artifacts) : l = artifacts[i]
    BY <1>1 DEF Loaded, Range
  <2> QED BY <2>1 DEF LocalInv, OneHome, Objects
<1>4. EntriesTyped'
  <2>1. <<>> \in Seq(Entry(U))
    OBVIOUS
  <2> QED BY <1>2, <2>1 DEF EntriesTyped
<1>5. OneHome'
  <2>1. loads' \in Nat /\ cleaned' \subseteq 1..loads'
    BY <1>2, <1>3 DEF LocalInv, OneHome
  <2>2. 1..Len(artifacts') = {} /\ idle' = {}
    BY <1>2
  <2> QED BY <2>1, <2>2 DEF OneHome, Distinct
<1>6. HeldOutlivesIdle'
  BY <1>2 DEF LocalInv, HeldOutlivesIdle
<1> QED BY <1>4, <1>5, <1>6 DEF LocalInv

(* A minute counts for what is idle and for what is held.                  *)
LEMMA MinuteKeepsInv ==
    ASSUME LocalInv, Minute PROVE LocalInv'
<1>1. PICK U : artifacts \in Seq(Entry(U)) /\ idle \subseteq Entry(U)
  BY DEF LocalInv, EntriesTyped
<1> DEFINE Older(l) == [l EXCEPT !.minutes = IF @ = 2 THEN 2 ELSE @ + 1]
<1>2. /\ UNCHANGED <<artifacts, closed, loads, cleaned>>
      /\ idle' = {Older(l) : l \in idle}
      /\ held # NoHolder => held.minutes = 0
      /\ held' = IF held = NoHolder THEN held ELSE [held EXCEPT !.minutes = 1]
  BY DEF Minute
<1>3. \A l \in idle : /\ Older(l) \in Entry(U) /\ Older(l).obj = l.obj
                      /\ Older(l).minutes <= l.minutes + 1 /\ l.minutes \in Nat
  <2> TAKE l \in idle
  <2>1. l \in Entry(U)
    BY <1>1
  <2> QED BY <2>1 DEF Entry
<1> HIDE DEF Older
<1>4. \A l \in idle' : \E k \in idle : l = Older(k)
  BY <1>2
<1>5. EntriesTyped'
  BY <1>1, <1>2, <1>3, <1>4 DEF EntriesTyped
<1>6. OneHome'
  BY <1>2, <1>3, <1>4 DEF LocalInv, OneHome, Distinct
<1>7. HeldOutlivesIdle'
  <2>1. held \in [obj : Nat, minutes : 0..1]
    BY DEF LocalInv, HeldOutlivesIdle
  <2>2. CASE held = NoHolder
    BY <1>2, <2>1, <2>2 DEF HeldOutlivesIdle, NoHolder
  <2>3. CASE held # NoHolder
    <3>1. held' = [obj |-> held.obj, minutes |-> 1] /\ held.minutes = 0
      BY <1>2, <2>1, <2>3
    <3>2. ASSUME ~closed, NEW l \in idle', l.obj = held.obj PROVE l.minutes <= 1
      <4>1. PICK k \in idle : l = Older(k)
        BY <1>4
      <4>2. k.obj = held.obj /\ k.minutes \in Nat /\ l.minutes <= k.minutes + 1
        BY <1>3, <3>2, <4>1
      <4>3. k.minutes <= 0
        BY <2>3, <3>1, <3>2, <4>2 DEF LocalInv, HeldOutlivesIdle
      <4>4. l.minutes \in Nat
        BY <1>3, <4>1 DEF Entry
      <4> QED BY <4>2, <4>3, <4>4
    <3>3. ~closed => held.obj \notin cleaned
      BY <2>3 DEF LocalInv, HeldOutlivesIdle
    <3> QED BY <1>2, <2>1, <3>1, <3>2, <3>3 DEF HeldOutlivesIdle
  <2> QED BY <2>2, <2>3
<1> QED BY <1>5, <1>6, <1>7 DEF LocalInv

(* The other steps leave the objects alone, or let go of one.              *)
LEMMA OthersKeepInv ==
    ASSUME LocalInv, UNCHANGED <<artifacts, idle, closed, loads, cleaned>>,
           held' = held \/ held' = NoHolder
    PROVE  LocalInv'
<1>1. EntriesTyped' /\ OneHome'
  BY DEF LocalInv, EntriesTyped, OneHome, Distinct
<1>2. HeldOutlivesIdle'
  BY DEF LocalInv, HeldOutlivesIdle, NoHolder
<1> QED BY <1>1, <1>2 DEF LocalInv

(* Whatever is built, published, requested, loaded and cleaned up, each    *)
(* object has one home, and one that is held has been idle for no longer   *)
(* than it has been held.                                                  *)
THEOREM Inductive == Spec => []LocalInv
<1>1. ASSUME LocalInv, [Next]_vars PROVE LocalInv'
  <2>1. CASE UNCHANGED vars
    BY <1>1, <2>1, OthersKeepInv DEF vars, userVars
  <2>2. CASE Sync \/ WorkerStep \/ Reshard
    BY <1>1, <2>2, OthersKeepInv DEF Sync, WorkerStep, Select, Build, Reshard, userVars
  <2>3. ASSUME NEW f \in File, observeFileSync(f) PROVE LocalInv'
    BY <1>1, <2>3, ObserveKeepsInv
  <2>4. ASSUME NEW f \in File, artifactForFile(f) PROVE LocalInv'
    BY <1>1, <2>4, AccessKeepsInv
  <2>5. ASSUME NEW f \in File, Poll(f) PROVE LocalInv'
    BY <1>1, <2>5, OthersKeepInv DEF Poll, userVars
  <2>6. CASE Release
    BY <1>1, <2>6, OthersKeepInv DEF Release, userVars
  <2>7. ASSUME NEW g \in Goroutine \cup {Poller}, FetchStep(g) PROVE LocalInv'
    <3>1. CASE \/ erroredArtifact(g) \/ findArtifact(g) \/ containsArtifact(g) \/ isDirty(g)
               \/ Request(g) \/ LoadFails(g)
      BY <1>1, <3>1, OthersKeepInv DEF erroredArtifact, findArtifact, containsArtifact, isDirty,
           Request, LoadFails, userVars
    <3>2. CASE loadArtifact(g)
      BY <1>1, <3>2, LoadKeepsInv
    <3> QED BY <2>7, <3>1, <3>2 DEF FetchStep
  <2>8. ASSUME NEW n \in 0..maxLoadedArtifacts, cleanupInactive(n) PROVE LocalInv'
    BY <1>1, <2>8, CleanupInactiveKeepsInv
  <2>9. CASE Cleanup
    BY <1>1, <2>9, CleanupKeepsInv
  <2>10. CASE Minute
    BY <1>1, <2>10, MinuteKeepsInv
  <2> QED BY <1>1, <2>1, <2>2, <2>3, <2>4, <2>5, <2>6, <2>7, <2>8, <2>9, <2>10 DEF Next
<1> QED BY <1>1, InitInv, PTL DEF Spec

(* An object that a caller keeps for at most a minute is not cleaned up    *)
(* before it lets go, unless the context is closed.                        *)
THEOREM HeldObjectsAreAlive == Spec => []HeldIsAlive
<1>1. LocalInv => HeldIsAlive
  BY DEF LocalInv, HeldOutlivesIdle, HeldIsAlive
<1> QED BY <1>1, Inductive, PTL

(* What is stored is in artifacts or in idle, and nowhere else.            *)
LEMMA InvCleanedOnce ==
    ASSUME LocalInv PROVE CleanedOnce /\ Objects(Loaded) = Objects(Range(artifacts)) \cup Objects(idle)
<1>1. PICK U : artifacts \in Seq(Entry(U)) /\ idle \subseteq Entry(U)
  BY DEF LocalInv, EntriesTyped
<1>2. \A o \in Objects(Range(artifacts)) : \E i \in 1..Len(artifacts) : o = artifacts[i].obj
  BY <1>1, ObjectsOfSequence
<1>3. \A o \in Objects(idle) : \E l \in idle : o = l.obj
  BY DEF Objects
<1>4. Objects(Loaded) = Objects(Range(artifacts)) \cup Objects(idle)
  BY DEF Objects, Loaded
<1> QED BY <1>2, <1>3, <1>4 DEF LocalInv, OneHome, CleanedOnce

(* No object is stored twice, or stored after its Cleanup.                 *)
THEOREM ObjectsAreCleanedOnce == Spec => []CleanedOnce
<1>1. LocalInv => CleanedOnce
  BY InvCleanedOnce
<1> QED BY <1>1, Inductive, PTL

-----------------------------------------------------------------------------
(* The context implements a pool of objects                                *)

(* A step that leaves the invariant leaves what follows from it.           *)
LEMMA NextCleanedOnce ==
    LocalInv' => CleanedOnce' /\ (Objects(Loaded) = Objects(Range(artifacts)) \cup Objects(idle))'
<1>1. LocalInv => CleanedOnce /\ Objects(Loaded) = Objects(Range(artifacts)) \cup Objects(idle)
  BY InvCleanedOnce
<1> QED BY <1>1, PTL

(* The objects stay as they are when their data changes.                   *)
LEMMA ObserveStutters ==
    ASSUME LocalInv, NEW f \in File, observeFileSync(f) PROVE UNCHANGED Pool!vars
<1>1. PICK U : artifacts \in Seq(Entry(U)) /\ idle \subseteq Entry(U)
  BY DEF LocalInv, EntriesTyped
<1> DEFINE Observed(n) == IF f \in artifacts[n].files
                          THEN [artifacts[n] EXCEPT !.dirtyAt = clock + 1] ELSE artifacts[n]
<1>2. UNCHANGED <<idle, closed, held, loads, cleaned>>
  BY DEF observeFileSync
<1>3. \A n \in 1..Len(artifacts) : Observed(n).obj = artifacts[n].obj
  <2> TAKE n \in 1..Len(artifacts)
  <2>1. artifacts[n] \in Entry(U)
    BY <1>1
  <2> QED BY <2>1 DEF Entry
<1>4. artifacts' = [n \in 1..Len(artifacts) |-> Observed(n)]
  <2>1. DOMAIN artifacts = 1..Len(artifacts)
    BY <1>1
  <2> QED BY <2>1, Zenon DEF observeFileSync
<1> HIDE DEF Observed
<1>5. /\ Range(artifacts) = {artifacts[n] : n \in 1..Len(artifacts)}
      /\ Range(artifacts') = {Observed(n) : n \in 1..Len(artifacts)}
  BY <1>1, <1>4 DEF Range
<1>6. Objects(Range(artifacts')) = Objects(Range(artifacts))
  BY <1>3, <1>5 DEF Objects
<1> QED BY <1>2, <1>6 DEF Pool!vars

(* Minutes pass for all that is idle.                                      *)
LEMMA MinuteStutters ==
    ASSUME LocalInv, Minute PROVE UNCHANGED Pool!vars
<1>1. PICK U : artifacts \in Seq(Entry(U)) /\ idle \subseteq Entry(U)
  BY DEF LocalInv, EntriesTyped
<1> DEFINE Older(l) == [l EXCEPT !.minutes = IF @ = 2 THEN 2 ELSE @ + 1]
<1>2. /\ UNCHANGED <<artifacts, closed, loads, cleaned>>
      /\ idle' = {Older(l) : l \in idle}
      /\ held' = IF held = NoHolder THEN held ELSE [held EXCEPT !.minutes = 1]
  BY DEF Minute
<1>3. \A l \in idle : Older(l).obj = l.obj
  <2> TAKE l \in idle
  <2>1. l \in Entry(U)
    BY <1>1
  <2> QED BY <2>1 DEF Entry
<1> HIDE DEF Older
<1>4. Objects(idle') = Objects(idle)
  BY <1>2, <1>3 DEF Objects
<1>5. held'.obj = held.obj
  <2>1. held \in [obj : Nat, minutes : 0..1]
    BY DEF LocalInv, HeldOutlivesIdle
  <2> QED BY <1>2, <2>1
<1> QED BY <1>2, <1>4, <1>5 DEF Pool!vars

(* What a caller is given is an artifact's object, which stays one.        *)
LEMMA AccessLends ==
    ASSUME LocalInv, NEW f \in File, artifactForFile(f) PROVE [Pool!Next]_(Pool!vars)
<1>1. PICK U : artifacts \in Seq(Entry(U)) /\ idle \subseteq Entry(U)
  BY DEF LocalInv, EntriesTyped
<1>2. UNCHANGED <<idle, closed, loads, cleaned>>
  BY DEF artifactForFile
<1>3. CASE Serving(f) = {}
  <2>1. UNCHANGED <<artifacts, held>>
    BY <1>3 DEF artifactForFile
  <2> QED BY <1>2, <2>1 DEF Pool!vars
<1>4. CASE Serving(f) # {}
  <2> DEFINE b == Best(f)
             rest == RemoveAt(artifacts, b)
  <2>1. b \in 1..Len(artifacts)
    BY <1>1, <1>4, BestIsServing DEF LocalInv
  <2>2. /\ artifacts' = Append(rest, artifacts[b])
        /\ \/ held = NoHolder /\ held' = [obj |-> artifacts[b].obj, minutes |-> 0]
           \/ UNCHANGED held
    <3>1. Access(b) /\ Hold(artifacts[b].obj)
      BY <1>4 DEF artifactForFile
    <3>2. artifacts' = Append(rest, artifacts[b])
      BY <3>1 DEF Access
    <3> HIDE DEF b, rest
    <3>3. CASE held = NoHolder
      BY <3>1, <3>2, <3>3 DEF Hold
    <3>4. CASE held # NoHolder
      BY <3>1, <3>2, <3>4 DEF Hold
    <3> QED BY <3>3, <3>4
  <2> HIDE DEF b
  <2>3. Objects(Range(artifacts')) = Objects(Range(artifacts))
    <3>1. /\ rest \in Seq(Entry(U)) /\ Len(rest) = Len(artifacts) - 1
          /\ \A i \in 1..(Len(artifacts) - 1) : rest[i] = artifacts[IF i < b THEN i ELSE i + 1]
      BY <1>1, <2>1, RemoveAtProperties
    <3>2. artifacts[b] \in Entry(U) /\ Len(artifacts) \in Nat
      BY <1>1, <2>1
    <3> HIDE DEF rest
    <3>3. /\ artifacts' \in Seq(Entry(U)) /\ Len(artifacts') = Len(artifacts)
          /\ artifacts'[Len(artifacts)] = artifacts[b]
          /\ \A i \in 1..(Len(artifacts) - 1) : artifacts'[i] = rest[i]
      BY <2>2, <3>1, <3>2, AppendProperties
    (* Each place of the one is a place of the other.                      *)
    <3>4. \A i \in 1..Len(artifacts) : \E j \in 1..Len(artifacts) : artifacts'[i] = artifacts[j]
      <4> TAKE i \in 1..Len(artifacts)
      <4>1. CASE i = Len(artifacts)
        BY <2>1, <3>3, <4>1
      <4>2. CASE i # Len(artifacts)
        <5>1. i \in 1..(Len(artifacts) - 1) /\ (IF i < b THEN i ELSE i + 1) \in 1..Len(artifacts)
          BY <2>1, <3>2, <4>2
        <5> QED BY <3>1, <3>3, <5>1
      <4> QED BY <4>1, <4>2
    <3>5. \A j \in 1..Len(artifacts) : \E i \in 1..Len(artifacts) : artifacts'[i] = artifacts[j]
      <4> TAKE j \in 1..Len(artifacts)
      <4>1. CASE j = b
        <5>1. Len(artifacts) \in 1..Len(artifacts)
          BY <2>1, <3>2
        <5> QED BY <3>3, <4>1, <5>1
      <4>2. CASE j < b
        <5>1. j \in 1..(Len(artifacts) - 1)
          BY <2>1, <3>2, <4>2
        <5> QED BY <3>1, <3>3, <4>2, <5>1
      <4>3. CASE j > b
        <5>1. j - 1 \in 1..(Len(artifacts) - 1) /\ ~(j - 1 < b) /\ (j - 1) + 1 = j
          BY <2>1, <3>2, <4>3
        <5>2. artifacts'[j - 1] = artifacts[j]
          BY <3>1, <3>3, <5>1
        <5> QED BY <5>1, <5>2
      <4> QED BY <2>1, <4>1, <4>2, <4>3
    <3>6. ASSUME NEW o PROVE o \in Objects(Range(artifacts')) <=> o \in Objects(Range(artifacts))
      <4>1. o \in Objects(Range(artifacts)) <=> \E j \in 1..Len(artifacts) : o = artifacts[j].obj
        BY <1>1, ObjectsOfSequence
      <4>2. o \in Objects(Range(artifacts')) <=> \E i \in 1..Len(artifacts) : o = artifacts'[i].obj
        BY <3>3, ObjectsOfSequence
      <4> QED BY <3>4, <3>5, <4>1, <4>2
    <3> QED BY <3>6
  <2>4. artifacts[b].obj \in Objects(Range(artifacts))
    BY <1>1, <2>1, ObjectsOfSequence
  <2>5. CASE held = NoHolder /\ held' = [obj |-> artifacts[b].obj, minutes |-> 0]
    <3>1. Pool!Lend(artifacts[b].obj)
      BY <1>2, <2>3, <2>4, <2>5 DEF Pool!Lend, NoHolder
    <3> QED BY <2>4, <3>1 DEF Pool!Next
  <2>6. CASE UNCHANGED held
    BY <1>2, <2>3, <2>6 DEF Pool!vars
  <2> QED BY <2>2, <2>5, <2>6
<1> QED BY <1>3, <1>4

(* A caller gives back what it was given.                                  *)
LEMMA ReleaseGivesBack ==
    ASSUME Release PROVE Pool!GiveBack
BY DEF Release, userVars, NoHolder, Pool!GiveBack

(* All objects go, with the context.                                       *)
LEMMA CleanupCloses ==
    ASSUME LocalInv, Cleanup PROVE Pool!Close
<1>1. /\ ~closed /\ closed' = TRUE /\ UNCHANGED <<held, loads>>
      /\ artifacts' = <<>> /\ idle' = {} /\ cleaned' = cleaned \cup Objects(Loaded)
  BY DEF Cleanup
<1>2. Objects(Loaded) = Objects(Range(artifacts)) \cup Objects(idle)
  BY InvCleanedOnce
<1>3. Objects(Range(artifacts')) = {} /\ Objects(idle') = {}
  BY <1>1 DEF Objects, Range
<1> QED BY <1>1, <1>2, <1>3 DEF Pool!Close

(* The object that is loaded is new, and makes room by parking another.    *)
LEMMA LoadMakes ==
    ASSUME LocalInv, LocalInv', NEW g, loadArtifact(g) PROVE Pool!Make
<1>1. PICK U : artifacts \in Seq(Entry(U)) /\ idle \subseteq Entry(U)
  BY DEF LocalInv, EntriesTyped
<1> DEFINE a == fetch[g].found
           others == Without(a.uuid)
           new == [uuid |-> a.uuid, files |-> a.files, update |-> a.update, obj |-> loads + 1,
                   dirtyAt |-> 0, minutes |-> 0]
           V == U \cup {a.uuid, a.files, a.update, 0}
<1>2. /\ loads' = loads + 1 /\ UNCHANGED <<closed, held, cleaned>>
      /\ \/ others # <<>> /\ artifacts' = Append(Tail(others), new) /\ idle' = Idled({Head(others)})
         \/ artifacts' = Append(others, new) /\ UNCHANGED idle
  BY DEF loadArtifact
<1>3. loads \in Nat
  BY DEF LocalInv, OneHome
<1>4. new \in Entry(V) /\ new.obj = loads + 1
  BY <1>3 DEF Entry
<1>5. artifacts \in Seq(Entry(V)) /\ idle \subseteq Entry(V)
  BY <1>1, WiderEntries
<1> HIDE DEF V, new
<1>6. /\ others \in Seq(Entry(V))
      /\ \A i \in 1..Len(others) : \E j \in 1..Len(artifacts) : others[i] = artifacts[j]
  <2>1. CASE \E n \in DOMAIN artifacts : artifacts[n].uuid = a.uuid
    <3> DEFINE p == CHOOSE n \in DOMAIN artifacts : artifacts[n].uuid = a.uuid
    <3>1. others = RemoveAt(artifacts, p)
      BY <2>1 DEF Without
    <3>2. p \in 1..Len(artifacts) /\ Distinct(artifacts)
      BY <1>5, <2>1 DEF LocalInv, OneHome
    <3> HIDE DEF p, others
    <3>3. /\ RemoveAt(artifacts, p) \in Seq(Entry(V))
          /\ \A i \in 1..Len(RemoveAt(artifacts, p)) :
               \E j \in 1..Len(artifacts) : RemoveAt(artifacts, p)[i] = artifacts[j]
      BY <1>5, <3>2, RemovedIsGone
    <3> QED BY <3>1, <3>3
  <2>2. CASE ~\E n \in DOMAIN artifacts : artifacts[n].uuid = a.uuid
    <3>1. others = artifacts
      BY <2>2 DEF Without
    <3> HIDE DEF others
    <3> QED BY <1>5, <3>1
  <2> QED BY <2>1, <2>2
<1> HIDE DEF others
(* What was stored before the new object was stored already.               *)
<1>7. ASSUME NEW s \in Seq(Entry(V)), artifacts' = Append(s, new),
             \A i \in 1..Len(s) : \E j \in 1..Len(artifacts) : s[i] = artifacts[j]
      PROVE  /\ loads' \in Objects(Range(artifacts'))
             /\ Objects(Range(artifacts')) \subseteq Objects(Range(artifacts)) \cup {loads'}
  <2>1. /\ artifacts' \in Seq(Entry(V)) /\ Len(artifacts') = Len(s) + 1 /\ Len(s) \in Nat
        /\ artifacts'[Len(s) + 1] = new /\ \A i \in 1..Len(s) : artifacts'[i] = s[i]
    BY <1>4, <1>7, AppendProperties
  <2>2. loads' \in Objects(Range(artifacts'))
    <3>1. Len(s) + 1 \in 1..Len(artifacts') /\ loads' = artifacts'[Len(s) + 1].obj
      BY <1>2, <1>4, <2>1
    <3> QED BY <2>1, <3>1, ObjectsOfSequence
  <2>3. ASSUME NEW o \in Objects(Range(artifacts')), o # loads'
        PROVE  o \in Objects(Range(artifacts))
    <3>1. PICK i \in 1..Len(artifacts') : o = artifacts'[i].obj
      BY <2>1, ObjectsOfSequence
    <3>2. i # Len(s) + 1
      BY <1>2, <1>4, <2>1, <2>3, <3>1
    <3>3. i \in 1..Len(s)
      BY <2>1, <3>2
    <3>4. \E j \in 1..Len(artifacts) : o = artifacts[j].obj
      BY <1>7, <2>1, <3>1, <3>3
    <3> QED BY <1>5, <3>4, ObjectsOfSequence
  <2> QED BY <2>2, <2>3
<1>8. CleanedOnce'
  BY NextCleanedOnce
<1>9. CASE others # <<>> /\ artifacts' = Append(Tail(others), new) /\ idle' = Idled({Head(others)})
  <2>1. /\ Tail(others) \in Seq(Entry(V)) /\ Head(others) = others[1] /\ 1 \in 1..Len(others)
        /\ \A i \in 1..Len(Tail(others)) : i + 1 \in 1..Len(others) /\ Tail(others)[i] = others[i + 1]
    <3>1. others \in Seq(Entry(V)) /\ others # <<>>
      BY <1>6, <1>9
    <3>2. Len(others) \in Nat \ {0} /\ Head(others) = others[1]
      BY <3>1
    <3>3. Tail(others) \in Seq(Entry(V)) /\ Len(Tail(others)) = Len(others) - 1
      BY <3>1
    <3>4. \A i \in 1..(Len(others) - 1) : Tail(others)[i] = others[i + 1]
      BY <3>1
    <3>5. 1 \in 1..Len(others) /\ \A i \in 1..(Len(others) - 1) : i + 1 \in 1..Len(others)
      BY <3>2
    <3> QED BY <3>2, <3>3, <3>4, <3>5, Zenon
  <2>2. \A i \in 1..Len(Tail(others)) : \E j \in 1..Len(artifacts) : Tail(others)[i] = artifacts[j]
    BY <1>6, <2>1
  <2>3. /\ loads' \in Objects(Range(artifacts'))
        /\ Objects(Range(artifacts')) \subseteq Objects(Range(artifacts)) \cup {loads'}
    BY <1>7, <1>9, <2>1, <2>2
  <2>4. PICK h \in 1..Len(artifacts) : others[1] = artifacts[h]
    BY <1>6, <2>1
  <2>5. ASSUME NEW o \in Objects(idle'), o \notin Objects(idle)
        PROVE  o \in Objects(Range(artifacts)) \ Objects(Range(artifacts'))
    <3>1. PICK l \in Idled({artifacts[h]}) : o = l.obj
      BY <1>9, <2>1, <2>4 DEF Objects
    <3>2. l \notin idle
      BY <2>5, <3>1 DEF Objects
    <3>3. l = [artifacts[h] EXCEPT !.minutes = 0]
      BY <3>1, <3>2 DEF Idled
    <3>4. o = artifacts[h].obj
      BY <1>5, <3>1, <3>3 DEF Entry
    <3>5. o \in Objects(Range(artifacts))
      BY <1>5, <3>4, ObjectsOfSequence
    <3> QED BY <1>8, <3>5 DEF CleanedOnce
  <2> QED BY <1>2, <2>3, <2>5 DEF Pool!Make
<1>10. CASE artifacts' = Append(others, new) /\ UNCHANGED idle
  <2>1. /\ loads' \in Objects(Range(artifacts'))
        /\ Objects(Range(artifacts')) \subseteq Objects(Range(artifacts)) \cup {loads'}
    BY <1>6, <1>7, <1>10
  <2>2. Objects(idle') = Objects(idle)
    BY <1>10
  <2> QED BY <1>2, <2>1, <2>2 DEF Pool!Make
<1> QED BY <1>2, <1>9, <1>10

(* Only objects that were parked before are freed, and none that is lent:  *)
(* what is parked now has not waited for a minute.                         *)
LEMMA CleanupInactiveRetires ==
    ASSUME LocalInv, LocalInv', NEW n, cleanupInactive(n) PROVE Pool!Retire
<1>1. PICK U : artifacts \in Seq(Entry(U)) /\ idle \subseteq Entry(U)
  BY DEF LocalInv, EntriesTyped
<1> DEFINE D == Oldest(n)
           marked == Idled(D)
           removed == {l \in marked : l.minutes > 1}
           t == Newest(artifacts, n)
<1>2. /\ UNCHANGED <<closed, held, loads>> /\ ~closed /\ n \in 0..Len(artifacts)
      /\ artifacts' = t /\ idle' = marked \ removed /\ cleaned' = cleaned \cup Objects(removed)
  BY DEF cleanupInactive, Newest
<1>3. \A d \in D : \E i \in 1..Len(artifacts) : d = artifacts[i]
  BY <1>2 DEF Oldest
<1> HIDE DEF D
<1>4. \A l \in marked : \/ l \in idle
                        \/ /\ l.minutes = 0
                           /\ \E i \in 1..Len(artifacts) : l.obj = artifacts[i].obj
  BY <1>1, <1>3, IdledIsDistinct DEF LocalInv
<1> HIDE DEF marked
<1>5. CleanedOnce'
  BY NextCleanedOnce
<1>6. Objects(Range(artifacts')) \subseteq Objects(Range(artifacts))
  <2>1. /\ t \in Seq(Entry(U))
        /\ \A i \in 1..Len(t) : \E j \in 1..Len(artifacts) : t[i] = artifacts[j]
    <3>1. Distinct(artifacts) /\ n \in 0..Len(artifacts)
      BY <1>2 DEF LocalInv, OneHome
    <3> QED BY <1>1, <3>1, DroppedAreGone
  <2> HIDE DEF t
  <2>2. ASSUME NEW o \in Objects(Range(t)) PROVE o \in Objects(Range(artifacts))
    <3>1. PICK i \in 1..Len(t) : o = t[i].obj
      BY <2>1, ObjectsOfSequence
    <3>2. \E j \in 1..Len(artifacts) : o = artifacts[j].obj
      BY <2>1, <3>1
    <3> QED BY <1>1, <3>2, ObjectsOfSequence
  <2> QED BY <1>2, <2>2
<1>7. ASSUME NEW o \in Objects(idle'), o \notin Objects(idle)
      PROVE  o \in Objects(Range(artifacts)) \ Objects(Range(artifacts'))
  <2>1. PICK l \in idle' : o = l.obj
    BY DEF Objects
  <2>2. l \in marked /\ l \notin idle
    BY <1>2, <1>7, <2>1 DEF Objects
  <2>3. o \in Objects(Range(artifacts))
    BY <1>1, <1>4, <2>1, <2>2, ObjectsOfSequence
  <2> QED BY <1>5, <2>3 DEF CleanedOnce
<1>8. ASSUME NEW o \in cleaned', o \notin cleaned
      PROVE  o \in Objects(idle) \ Objects(idle')
  <2>1. PICK l \in marked : o = l.obj /\ l.minutes > 1
    BY <1>2, <1>8 DEF Objects
  <2>2. o \in Objects(idle)
    BY <1>4, <2>1 DEF Objects
  <2>3. (Objects(Loaded) = Objects(Range(artifacts)) \cup Objects(idle))'
    BY NextCleanedOnce
  <2> QED BY <1>5, <1>8, <2>2, <2>3 DEF CleanedOnce
<1>9. held.obj \notin cleaned'
  <2>1. held.obj \in Nat /\ held.minutes \in 0..1 /\ held = [obj |-> held.obj, minutes |-> held.minutes]
    BY DEF LocalInv, HeldOutlivesIdle
  <2>2. CASE held = NoHolder
    <3>1. held.obj = 0 /\ cleaned' \subseteq 1..loads' /\ loads' \in Nat
      BY <2>2 DEF NoHolder, LocalInv, OneHome
    <3> QED BY <3>1
  <2>3. CASE held # NoHolder
    BY <1>2, <2>3 DEF LocalInv, HeldOutlivesIdle, NoHolder
  <2> QED BY <2>2, <2>3
<1>10. cleaned \subseteq cleaned'
  BY <1>2
<1> QED BY <1>2, <1>6, <1>7, <1>8, <1>9, <1>10 DEF Pool!Retire

(* The remaining steps do not touch the objects.                           *)
LEMMA OthersStutter ==
    ASSUME UNCHANGED <<artifacts, idle, closed, held, loads, cleaned>>
    PROVE  UNCHANGED Pool!vars
BY DEF Pool!vars

(* usercontext.go:634: whatever is loaded, evicted, given out and cleaned  *)
(* up meanwhile, the objects of a context are a pool that ObjectPool       *)
(* allows.                                                                 *)
THEOREM ContextRefinesPool == Spec => ObjectsGoOneWay
<1>1. Init => Pool!Init
  BY LocalCodeAssumption DEF Init, NoHolder, Pool!Init, Objects, Range
<1>2. ASSUME LocalInv, LocalInv', [Next]_vars PROVE [Pool!Next]_(Pool!vars)
  <2>1. CASE UNCHANGED vars
    BY <2>1, OthersStutter DEF vars, userVars
  <2>2. CASE Sync \/ WorkerStep \/ Reshard
    BY <2>2, OthersStutter DEF Sync, WorkerStep, Select, Build, Reshard, userVars
  <2>3. ASSUME NEW f \in File, observeFileSync(f) PROVE [Pool!Next]_(Pool!vars)
    BY <1>2, <2>3, ObserveStutters
  <2>4. ASSUME NEW f \in File, artifactForFile(f) PROVE [Pool!Next]_(Pool!vars)
    BY <1>2, <2>4, AccessLends
  <2>5. ASSUME NEW f \in File, Poll(f) PROVE [Pool!Next]_(Pool!vars)
    BY <2>5, OthersStutter DEF Poll, userVars
  <2>6. CASE Release
    BY <2>6, ReleaseGivesBack DEF Pool!Next
  <2>7. ASSUME NEW g \in Goroutine \cup {Poller}, FetchStep(g) PROVE [Pool!Next]_(Pool!vars)
    <3>1. CASE \/ erroredArtifact(g) \/ findArtifact(g) \/ containsArtifact(g) \/ isDirty(g)
               \/ Request(g) \/ LoadFails(g)
      BY <3>1, OthersStutter DEF erroredArtifact, findArtifact, containsArtifact, isDirty,
           Request, LoadFails, userVars
    <3>2. CASE loadArtifact(g)
      BY <1>2, <3>2, LoadMakes DEF Pool!Next
    <3> QED BY <2>7, <3>1, <3>2 DEF FetchStep
  <2>8. ASSUME NEW n \in 0..maxLoadedArtifacts, cleanupInactive(n) PROVE [Pool!Next]_(Pool!vars)
    BY <1>2, <2>8, CleanupInactiveRetires DEF Pool!Next
  <2>9. CASE Cleanup
    BY <1>2, <2>9, CleanupCloses DEF Pool!Next
  <2>10. CASE Minute
    BY <1>2, <2>10, MinuteStutters
  <2> QED BY <1>2, <2>1, <2>2, <2>3, <2>4, <2>5, <2>6, <2>7, <2>8, <2>9, <2>10 DEF Next
<1> QED BY <1>1, <1>2, Inductive, PTL DEF Spec, ObjectsGoOneWay, Pool!Spec
=============================================================================
