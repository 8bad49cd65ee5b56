----------------------------- MODULE LocalCode -----------------------------
(***************************************************************************)
(* kite-go/localcode for one user and machine: a worker that builds an     *)
(* artifact from the files the user has synced, and the UserContext on the *)
(* other side of the network that requests artifacts, polls for them,      *)
(* loads them and lets go of the ones that are not used.                   *)
(*                                                                         *)
(* Times that are only compared with one another are positions: artifacts  *)
(* are in the order of their accessedAt, published in that of publishedAt, *)
(* and an object's number is the order of its loadedAt.                    *)
(***************************************************************************)
EXTENDS Naturals, Sequences, FiniteSets, SequencesExt

CONSTANTS File, Indexed,       \* files, and those an artifact for each has
          Goroutine, Poller,   \* goroutines of makeRequest, and of pollForArtifacts
          None,
          maxLoadedArtifacts,  \* 2 in the code
          MaxLoads, MaxFaults, MaxTime  \* bounds: objects loaded, failures, the clock

ASSUME LocalCodeAssumption ==
    /\ Indexed \in [File -> SUBSET File] /\ \A f \in File : f \in Indexed[f]
    /\ Poller \notin Goroutine
    /\ maxLoadedArtifacts \in Nat \ {0} /\ {MaxLoads, MaxFaults, MaxTime} \subseteq Nat

VARIABLES
    opened,     \* the files that drivers work on
    clock,      \* time at which files are updated and syncs are observed
    updatedAt,  \* of the latest file in the database
    observed,   \* the sync has been observed
    request,    \* requestServer: the files of the user's request, latest last
    build,      \* the worker that selected the request
    published,  \* artifactServer.uuidMap
    artifacts, idle, errors, polling,   \* of UserContext
    closed,     \* Cleanup was called
    pending,    \* pollForArtifacts: the files of this round still to come
    fetch,      \* each goroutine in makeRequest or pollForArtifacts
    held,       \* the object that the caller we watch was given and still uses
    loads,      \* objects loaded so far
    cleaned,    \* objects whose Cleanup was called
    faults      \* failures so far

syncVars   == <<clock, updatedAt, observed>>
serverVars == <<request, build, published>>
userVars   == <<artifacts, idle, errors, polling, closed>>
vars == <<opened, syncVars, serverVars, userVars, pending, fetch, held, loads, cleaned, faults>>

Time == 0 .. MaxTime

(* Only an error of the worker has a root, the file it was requested for:  *)
(* the python builder leaves its result's empty.                           *)
artifact == [uuid : Nat, root : File \cup {None}, files : SUBSET File, update : Time,
             Error : {"", "no files selected", "other"}]
loadedArtifact == [uuid : Nat, files : SUBSET File, update : Time, obj : 1 .. MaxLoads,
                   dirtyAt : Time, minutes : 0 .. 2]

TypeOK ==
    /\ opened \subseteq File
    /\ {clock, updatedAt} \subseteq Time /\ observed \in BOOLEAN
    /\ request \in Seq(File)
    /\ build \in [file : File \cup {None}, update : Time]
    /\ published \in Seq(artifact)
    /\ artifacts \in Seq(loadedArtifact) /\ idle \subseteq loadedArtifact
    /\ errors \subseteq artifact /\ polling \subseteq File /\ closed \in BOOLEAN
    /\ pending \subseteq File
    /\ fetch \in [Goroutine \cup {Poller} ->
         [pc : {"idle", "start", "find", "found", "dirty", "request", "load"}, file : File \cup {None},
          found : artifact \cup {None}]]
    /\ held \in [obj : 0 .. MaxLoads, minutes : 0 .. 1]
    /\ loads \in 0 .. MaxLoads /\ cleaned \subseteq 1 .. MaxLoads /\ faults \in 0 .. MaxFaults

NoBuild == [file |-> None, update |-> 0]
NoFetch == [pc |-> "idle", file |-> None, found |-> None]
NoHolder == [obj |-> 0, minutes |-> 0]

(* The bounds may be used up in part, the loads by objects of earlier.     *)
Init ==
    /\ opened \in SUBSET File
    /\ clock \in 1 .. MaxTime /\ updatedAt = clock /\ observed = TRUE
    /\ request = <<>> /\ build = NoBuild /\ published = <<>>
    /\ artifacts = <<>> /\ idle = {} /\ errors = {} /\ polling = {} /\ closed = FALSE
    /\ pending = {} /\ fetch = [g \in Goroutine \cup {Poller} |-> NoFetch]
    /\ loads \in 0 .. MaxLoads /\ cleaned = 1 .. loads /\ held = NoHolder
    /\ faults \in 0 .. MaxFaults

Fault == faults < MaxFaults /\ faults' = faults + 1

-----------------------------------------------------------------------------
(* Files are modified in the database, or removed from it, or the database *)
(* fails; the observer is told afterwards in any case.                     *)
Sync ==
    /\ observed \/ closed
    /\ clock + 2 <= MaxTime
    /\ observed' = FALSE
    /\ \/ clock' = clock + 1 /\ updatedAt' = clock + 1
       \/ UNCHANGED clock /\ updatedAt' \in 0 .. updatedAt
    /\ UNCHANGED <<opened, serverVars, userVars, pending, fetch, held, loads, cleaned, faults>>

(* Client.Cleanup removes the observer with the context.                   *)
observeFileSync(f) ==
    /\ ~observed /\ ~closed
    /\ observed' = TRUE /\ clock' = clock + 1
    /\ artifacts' = [n \in DOMAIN artifacts |->
          IF f \in artifacts[n].files THEN [artifacts[n] EXCEPT !.dirtyAt = clock + 1]
                                              ELSE artifacts[n]]
    /\ errors' = {e \in errors : e.Error # "no files selected"}
    /\ UNCHANGED <<opened, updatedAt, serverVars, idle, polling, closed, pending, fetch, held, loads, cleaned, faults>>

-----------------------------------------------------------------------------
(* The worker.                                                             *)

(* Artifacts with an error of the build have no paths, and subsume each    *)
(* other.                                                                  *)
Subsumes(a, b) == IF a.Error = "" THEN b.Error = "" /\ a.files = b.files ELSE b.Error # ""

(* The newest published artifact for a file, as a set of at most one.      *)
artifactFor(f) ==
    LET matching == SelectSeq(published, LAMBDA a : f \in a.files)
    IN  IF matching = <<>> THEN {} ELSE {Last(matching)}

(* A uuid is one that nothing refers to.                                   *)
Loaded == Range(artifacts) \cup idle
NewUUID ==
    LET used == {a.uuid : a \in Range(published) \cup Loaded \cup errors}
                \cup {fetch[g].found.uuid : g \in {h \in DOMAIN fetch : fetch[h].found # None}}
    IN  CHOOSE n \in 1 .. (Cardinality(used) + 1) : n \notin used

(* publishArtifact drops what the new one subsumes, and of the others what *)
(* was not accessed for artifactExpirationDuration.                        *)
Publish(f, Error, update, expired) ==
    LET a == [uuid |-> NewUUID, update |-> update, Error |-> Error,
              root |-> IF Error = "" THEN None ELSE f,
              files |-> IF Error = "" THEN Indexed[f] ELSE {f}]
    IN  published' = Append(SelectSeq(published, LAMBDA b : ~Subsumes(a, b) /\ b \notin expired), a)

(* completed() deletes the request with all that was merged into it.       *)
completed == request' = <<>> /\ build' = NoBuild

(* do() takes the request, which others may still be merged into, and      *)
(* lists the files: it fails, sees that nothing changed, or goes on.       *)
Select ==
    /\ request # <<>>
    /\ build = NoBuild
    /\ LET f == Last(request)
           current == \E a \in artifactFor(f) : updatedAt <= a.update
       IN  \/ Fault /\ completed /\ \E expired \in SUBSET Range(published) :
                                     Publish(f, "other", 0, expired)
           \/ current /\ completed /\ UNCHANGED <<published, faults>>
           \/ /\ ~current
              /\ build' = [file |-> f, update |-> updatedAt]
              /\ UNCHANGED <<request, published, faults>>
    /\ UNCHANGED <<opened, syncVars, userVars, pending, fetch, held, loads, cleaned>>

(* The builder returns, with a result or an error, or panics.              *)
Build ==
    /\ build # NoBuild
    /\ \/ Publish(build.file, "", build.update, {}) /\ UNCHANGED faults
       \/ Fault /\ \E expired \in SUBSET Range(published) :
             \/ Publish(build.file, "", build.update, expired)
             \/ \E e \in {"no files selected", "other"} : Publish(build.file, e, 0, expired)
       \/ Fault /\ UNCHANGED published
    /\ completed
    /\ UNCHANGED <<opened, syncVars, userVars, pending, fetch, held, loads, cleaned>>

(* The group of workers changes and another one answers for the user.      *)
Reshard ==
    /\ Fault
    /\ published # <<>>
    /\ request' = <<>> /\ build' = NoBuild /\ published' = <<>>
    /\ UNCHANGED <<opened, syncVars, userVars, pending, fetch, held, loads, cleaned>>

-----------------------------------------------------------------------------
(* The user context.                                                       *)

dirty(l) == l.dirtyAt > l.update

Serving(f) == {n \in DOMAIN artifacts : f \in artifacts[n].files}

(* The newest object serves; its artifact becomes the last accessed.       *)
Best(f) == CHOOSE n \in Serving(f) : \A m \in Serving(f) : artifacts[m].obj <= artifacts[n].obj

Access(n) == artifacts' = Append(RemoveAt(artifacts, n), artifacts[n])

(* go u.makeRequest(filename), if requestRate allows.                      *)
Spawn(f) == \/ UNCHANGED fetch
            \/ \E g \in Goroutine : /\ fetch[g].pc = "idle"
                                    /\ fetch' = [fetch EXCEPT ![g].pc = "start", ![g].file = f]

(* Of the callers, one at a time is the one we watch.                      *)
Hold(o) == held' = IF held = NoHolder THEN [obj |-> o, minutes |-> 0] ELSE held

(* artifactForFile, for a driver that keeps the object for a moment.       *)
artifactForFile(f) ==
    /\ f \in opened
    /\ IF Serving(f) # {}
       THEN /\ Access(Best(f))
            /\ Hold(artifacts[Best(f)].obj)
            /\ IF dirty(artifacts[Best(f)]) THEN Spawn(f) ELSE UNCHANGED fetch
       ELSE Spawn(f) /\ UNCHANGED <<artifacts, held>>
    /\ UNCHANGED <<opened, syncVars, serverVars, idle, errors, polling, closed, pending, loads, cleaned, faults>>

Release ==
    /\ held # NoHolder
    /\ held' = NoHolder
    /\ UNCHANGED <<opened, syncVars, serverVars, userVars, pending, fetch, loads, cleaned, faults>>

(* The poller takes up a file of this round, or the first of the next, for *)
(* which it may go on when its context is cancelled: a ticker that is      *)
(* ready too is chosen as well.                                            *)
Poll(f) ==
    /\ fetch[Poller].pc = "idle"
    /\ LET round == IF pending = {} THEN polling ELSE pending
       IN  f \in round /\ pending' = round \ {f}
    /\ fetch' = [fetch EXCEPT ![Poller].pc = "find", ![Poller].file = f]
    /\ UNCHANGED <<opened, syncVars, serverVars, userVars, held, loads, cleaned, faults>>

Ends(g) == fetch' = [fetch EXCEPT ![g] = NoFetch]
stopPollingFor(g) == polling' = polling \ {fetch[g].file}

GoesTo(g, pc) == fetch' = [fetch EXCEPT ![g].pc = pc]

(* The artifact is requested next, or the poller will try again.           *)
TriesAgain(g) == IF g = Poller THEN Ends(g)
                 ELSE fetch' = [fetch EXCEPT ![g].pc = "request", ![g].found = None]

(* makeRequest does nothing for a file that is the root of an error.       *)
erroredArtifact(g) ==
    /\ fetch[g].pc = "start"
    /\ IF \E e \in errors : e.root = fetch[g].file THEN Ends(g) ELSE GoesTo(g, "find")
    /\ UNCHANGED <<opened, syncVars, serverVars, userVars, pending, held, loads, cleaned, faults>>

(* There may be none, or the worker cannot be asked.                       *)
findArtifact(g) ==
    /\ fetch[g].pc = "find"
    /\ LET found == artifactFor(fetch[g].file)
       IN  \/ /\ \E a \in found : fetch' = [fetch EXCEPT ![g].pc = "found", ![g].found = a]
              /\ UNCHANGED faults
           \/ found = {} /\ TriesAgain(g) /\ UNCHANGED faults
           \/ found # {} /\ TriesAgain(g) /\ Fault
    /\ UNCHANGED <<opened, syncVars, serverVars, userVars, pending, held, loads, cleaned>>

(* What is found is loaded unless the context has it.                      *)
containsArtifact(g) ==
    /\ fetch[g].pc = "found"
    /\ IF \E l \in Loaded \cup errors : l.uuid = fetch[g].found.uuid
       THEN GoesTo(g, "dirty") ELSE GoesTo(g, "load")
    /\ UNCHANGED <<opened, syncVars, serverVars, userVars, pending, held, loads, cleaned, faults>>

(* Then there is nothing to do, unless it is dirty.                        *)
isDirty(g) ==
    /\ fetch[g].pc = "dirty"
    /\ IF \E l \in Range(artifacts) : l.uuid = fetch[g].found.uuid /\ dirty(l)
       THEN TriesAgain(g) /\ UNCHANGED polling
       ELSE Ends(g) /\ stopPollingFor(g)
    /\ UNCHANGED <<opened, syncVars, serverVars, artifacts, idle, errors, closed, pending, held, loads,
                   cleaned, faults>>

(* The server merges what is asked for into the user's request.            *)
handleRequests(f) == request' = Append(SelectSeq(request, LAMBDA h : h # f), f)
startPollingFor(g) == polling' = polling \cup {fetch[g].file}

(* requestArtifact, then the file is polled for.  The POST may be lost, or *)
(* its answer, and an answer with an error status is taken for a success.  *)
Request(g) ==
    /\ fetch[g].pc = "request"
    /\ \/ handleRequests(fetch[g].file) /\ startPollingFor(g) /\ UNCHANGED faults
       \/ Fault /\ UNCHANGED polling /\ (UNCHANGED request \/ handleRequests(fetch[g].file))
       \/ Fault /\ UNCHANGED request /\ startPollingFor(g)
    /\ Ends(g)
    /\ UNCHANGED <<opened, syncVars, build, published, artifacts, idle, errors, closed, pending, held, loads, cleaned>>

(* loadArtifact: an error of the build, of the loader or a panic of it; or *)
(* there is no loader for the language, which leaves no trace.             *)
LoadFails(g) ==
    /\ fetch[g].pc = "load"
    /\ IF fetch[g].found.Error # ""
       THEN errors' = errors \cup {fetch[g].found} /\ UNCHANGED faults
       ELSE /\ Fault
            /\ errors' \in {errors, errors \cup {[fetch[g].found EXCEPT !.Error = "other"]}}
    /\ stopPollingFor(g)
    /\ Ends(g)
    /\ UNCHANGED <<opened, syncVars, serverVars, artifacts, idle, closed, pending, held, loads, cleaned>>

(* artifacts is a map: a uuid has one entry, which goes when a new one is  *)
(* stored.                                                                 *)
Without(uuid) ==
    IF \E n \in DOMAIN artifacts : artifacts[n].uuid = uuid
    THEN RemoveAt(artifacts, CHOOSE n \in DOMAIN artifacts : artifacts[n].uuid = uuid)
    ELSE artifacts

(* markInactiveLocked: idle is a map, whose entries for these uuids are    *)
(* replaced.                                                               *)
Idled(inactives) ==
    {l \in idle : \A i \in inactives : i.uuid # l.uuid}
        \cup {[l EXCEPT !.minutes = 0] : l \in inactives}

(* Mutant: the artifact marked inactive is not deleted from artifacts.     *)
loadArtifactKeeps(g) ==
    /\ fetch[g].pc = "load"
    /\ fetch[g].found.Error = ""
    /\ loads < MaxLoads
    /\ loads' = loads + 1
    /\ LET a == fetch[g].found
           others == Without(a.uuid)
           new == [uuid |-> a.uuid, files |-> a.files, update |-> a.update, obj |-> loads + 1,
                   dirtyAt |-> 0, minutes |-> 0]
       IN  /\ artifacts' = Append(others, new)
           /\ idle' = IF Len(others) + 1 > maxLoadedArtifacts /\ others # <<>>
                      THEN Idled({Head(others)}) ELSE idle
    /\ stopPollingFor(g)
    /\ Ends(g)
    /\ UNCHANGED <<opened, syncVars, serverVars, errors, closed, pending, held, cleaned, faults>>

(* The loader's object is stored under the lock.  With too many the one    *)
(* that was accessed the longest ago is marked inactive.                   *)
loadArtifact(g) ==
    /\ fetch[g].pc = "load"
    /\ fetch[g].found.Error = ""
    /\ loads < MaxLoads
    /\ loads' = loads + 1
    /\ LET a == fetch[g].found
           others == Without(a.uuid)
           new == [uuid |-> a.uuid, files |-> a.files, update |-> a.update, obj |-> loads + 1,
                   dirtyAt |-> 0, minutes |-> 0]
       IN  IF Len(others) + 1 > maxLoadedArtifacts /\ others # <<>>
           THEN artifacts' = Append(Tail(others), new) /\ idle' = Idled({Head(others)})
           ELSE artifacts' = Append(others, new) /\ UNCHANGED idle
    /\ stopPollingFor(g)
    /\ Ends(g)
    /\ UNCHANGED <<opened, syncVars, serverVars, errors, closed, pending, held, cleaned, faults>>

Objects(S) == {l.obj : l \in S}

(* The first n artifacts, which were accessed the longest ago.             *)
Oldest(n) == {artifacts[i] : i \in 1 .. n}

(* Mutant: what is marked inactive is cleaned up right away.               *)
cleanupInactiveAtOnce(n) ==
    /\ ~closed
    /\ n \in 0 .. Len(artifacts)
    /\ n > 0 \/ idle # {}
    /\ artifacts' = SubSeq(artifacts, n + 1, Len(artifacts))
    /\ cleaned' = cleaned \cup Objects(Oldest(n)) \cup Objects(idle)
    /\ idle' = {}
    /\ UNCHANGED <<opened, syncVars, serverVars, errors, polling, closed, pending, fetch, held, loads, faults>>

(* Mutant: what is cleaned up stays in idle.                               *)
cleanupInactiveKeeps(n) ==
    /\ ~closed
    /\ n \in 0 .. Len(artifacts)
    /\ n > 0 \/ \E l \in idle : l.minutes > 1 /\ l.obj \notin cleaned
    /\ idle' = Idled(Oldest(n))
    /\ cleaned' = cleaned \cup Objects({l \in Idled(Oldest(n)) : l.minutes > 1})
    /\ artifacts' = SubSeq(artifacts, n + 1, Len(artifacts))
    /\ UNCHANGED <<opened, syncVars, serverVars, errors, polling, closed, pending, fetch, held, loads, faults>>

(* The first n artifacts have not been accessed for maxInactiveArtifact    *)
(* and become idle; what is idle for more than a minute is cleaned up.     *)
cleanupInactive(n) ==
    /\ ~closed
    /\ n \in 0 .. Len(artifacts)
    /\ LET removed == {l \in Idled(Oldest(n)) : l.minutes > 1}
       IN  /\ n > 0 \/ removed # {}
           /\ idle' = Idled(Oldest(n)) \ removed
           /\ cleaned' = cleaned \cup Objects(removed)
    /\ artifacts' = SubSeq(artifacts, n + 1, Len(artifacts))
    /\ UNCHANGED <<opened, syncVars, serverVars, errors, polling, closed, pending, fetch, held, loads, faults>>

(* Cleanup: the user is gone.                                              *)
Cleanup ==
    /\ ~closed
    /\ closed' = TRUE
    /\ cleaned' = cleaned \cup Objects(Loaded)
    /\ artifacts' = <<>> /\ idle' = {}
    /\ UNCHANGED <<opened, syncVars, serverVars, errors, polling, pending, fetch, held, loads, faults>>

(* A caller lets go of an object within a minute.                          *)
Minute ==
    /\ ~closed
    /\ idle # {} \/ held # NoHolder
    /\ held # NoHolder => held.minutes = 0
    /\ held' = IF held = NoHolder THEN held ELSE [held EXCEPT !.minutes = 1]
    /\ idle' = {[l EXCEPT !.minutes = IF @ = 2 THEN 2 ELSE @ + 1] : l \in idle}
    /\ UNCHANGED <<opened, syncVars, serverVars, artifacts, errors, polling, closed, pending, fetch, loads,
                   cleaned, faults>>

FetchStep(g) ==
    \/ erroredArtifact(g) \/ findArtifact(g) \/ containsArtifact(g) \/ isDirty(g)
    \/ Request(g) \/ LoadFails(g) \/ loadArtifact(g)
WorkerStep == Select \/ Build

Next ==
    \/ Sync \/ \E f \in File : observeFileSync(f)
    \/ WorkerStep \/ Reshard
    \/ \E f \in File : artifactForFile(f) \/ Poll(f)
    \/ Release
    \/ \E g \in Goroutine \cup {Poller} : FetchStep(g)
    \/ \E n \in 0 .. maxLoadedArtifacts : cleanupInactive(n)
    \/ Cleanup \/ Minute

Spec == Init /\ [][Next]_vars

(* Drivers keep asking for their files, goroutines, the poller and the     *)
(* worker run, and the client's ticker cleans up.                          *)
Fairness ==
    /\ WF_vars(WorkerStep)
    /\ \A g \in Goroutine : WF_vars(FetchStep(g))
    /\ WF_vars(FetchStep(Poller) \/ \E f \in File : Poll(f))
    /\ \A f \in File : SF_vars(artifactForFile(f) /\ fetch' # fetch)
    /\ WF_vars(Minute \/ Release) /\ WF_vars(cleanupInactive(0))

FairSpec == Spec /\ Fairness

-----------------------------------------------------------------------------
(* usercontext.go:634 "We allow 1 minute to make sure nothing is cleaned   *)
(* up while being used": whatever is loaded, evicted and cleaned up        *)
(* meanwhile, an object that is kept for at most a minute is there, unless *)
(* the whole context goes.                                                 *)
HeldIsAlive == held # NoHolder /\ ~closed => held.obj \notin cleaned

(* An object is stored in one place at most and not after its Cleanup, so  *)
(* that it is cleaned up once.                                             *)
CleanedOnce ==
    /\ Objects(Loaded) \cap cleaned = {}
    /\ Objects(Range(artifacts)) \cap Objects(idle) = {}

(* The objects alone.                                                      *)
Pool == INSTANCE ObjectPool WITH
    made   <- loads,
    live   <- Objects(Range(artifacts)),
    parked <- Objects(idle),
    freed  <- cleaned,
    lent   <- held.obj

(* usercontext.go:634: an object goes one way, from artifacts by way of    *)
(* idle to its Cleanup, is handed out only before it is idle and freed     *)
(* only when it was idle before and nobody keeps it, or with the context.  *)
ObjectsGoOneWay == Pool!Spec

(* A file that drivers ask for is served or has an error again and again:  *)
(* no request that is merged into one that is about to be completed, lost  *)
(* on the way or answered with an idle artifact is the last.               *)
FilesAreServed ==
    \A f \in File : []<>(\/ f \notin opened \/ closed \/ loads = MaxLoads
                         \/ Serving(f) # {} \/ \E e \in errors : f \in e.files)

(* usercontext.go:191 "Cleanup cleans up any state UserContext may be      *)
(* holding on to via artifacts": when it was called and nothing is being   *)
(* loaded, all that was loaded is cleaned up.                              *)
ClosedIsClean ==
    closed /\ (\A g \in DOMAIN fetch : fetch[g].pc # "load") => 1 .. loads \subseteq cleaned
=============================================================================
