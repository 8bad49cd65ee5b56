----------------------------- MODULE EditEvents -----------------------------
(***************************************************************************)
(* kite-go/client/internal/kitelocal: what becomes of an editor's events.  *)
(* handleEditorEvent queues an event for a pool of eventPoolSize workers.  *)
(* A worker has the eventProcessor compare it with the last response, has  *)
(* the fileProcessor apply it to a driver, one for every text of a file    *)
(* seen by an editor, and records the response.  The three steps take two  *)
(* different locks, so that the steps of two events interleave.            *)
(*                                                                         *)
(* A text stands for its hash too.  The full text goes with every event,   *)
(* and an empty text is taken for one that is missing.                     *)
(***************************************************************************)
EXTENDS Naturals, FiniteSets

CONSTANTS File, Editor,
          Text, Empty,      \* the contents a buffer may have, Empty is one
          NoText,           \* no reference, no hash
          NoDriver, NoResponse,
          maxStates,        \* drivers kept by cleanupLocked, 20 in the code
          eventPoolSize,    \* workers of the pool, 2 in the code
          Event,            \* the events an editor may send
          MaxCalls,         \* bound: lookups by the completion API
          Faults            \* what may happen: "abort", "panic", "reset", "minute"

ASSUME EditAssumption ==
    /\ File # {} /\ Editor # {}
    /\ Empty \in Text
    /\ NoText \notin Text
    /\ NoDriver \notin [content : Text, hash : Text \cup {NoText}, ts : Nat]
    /\ NoResponse \notin [text : Text, resend : BOOLEAN, old : BOOLEAN]
    /\ maxStates \in Nat \ {0} /\ eventPoolSize \in Nat \ {0} /\ MaxCalls \in Nat

VARIABLES now,        \* time.Now(): every reading is later than the ones before,
                      \* which the code relies on (file_processor.go:370-376)
          calls,      \* lookups so far
          job,        \* each event on its way through Manager.processEvent
          seen,       \* e.events has an entry
          responses,  \* e.responses
          states,     \* f.guardedStates
          resetting,  \* Manager.reset is between its two halves
          lost        \* history: a driver was evicted or reset

vars == <<now, calls, job, seen, responses, states, resetting, lost>>

fileSource == File \X Editor
stateKey   == fileSource \X Text
fileDriver == [content : Text, hash : Text \cup {NoText}, ts : Nat]
responseData == [text : Text, resend : BOOLEAN, old : BOOLEAN]

Job == [pc : {"unsent", "queued", "processed", "handled", "done"},
        fs : fileSource, text : Text, ts : Nat,
        ref : Text \cup {NoText}, resend : BOOLEAN]

TypeOK ==
    /\ now \in Nat /\ calls \in 0 .. MaxCalls
    /\ job \in [Event -> Job]
    /\ seen \in [fileSource -> BOOLEAN]
    /\ responses \in [fileSource -> responseData \cup {NoResponse}]
    /\ states \in [stateKey -> fileDriver \cup {NoDriver}]
    /\ resetting \in BOOLEAN /\ lost \in BOOLEAN

(* An event that is not under way, before it or after it.                  *)
Idle(pc) == [pc |-> pc, fs |-> CHOOSE fs \in fileSource : TRUE, text |-> Empty, ts |-> 0,
             ref |-> NoText, resend |-> FALSE]

Init ==
    /\ now = 1 /\ calls = 0
    /\ job = [i \in Event |-> Idle("unsent")]
    /\ seen = [fs \in fileSource |-> FALSE]
    /\ responses = [fs \in fileSource |-> NoResponse]
    /\ states = [sk \in stateKey |-> NoDriver]
    /\ resetting = FALSE /\ lost = FALSE

Present(st) == {sk \in stateKey : st[sk] # NoDriver}

Key(i) == <<job[i].fs, job[i].text>>

-----------------------------------------------------------------------------
(* The pool takes jobs in no particular order (pool.Add is asynchronous).  *)
handleEditorEvent(i, fs, t) ==
    /\ job[i].pc = "unsent"
    /\ job' = [job EXCEPT ![i] = [@ EXCEPT !.pc = "queued", !.fs = fs, !.text = t, !.ts = now]]
    /\ now' = now + 1
    /\ UNCHANGED <<calls, seen, responses, states, resetting, lost>>

Working == {i \in Event : job[i].pc \in {"processed", "handled"}}

(* There is something to diff against: an event and a response, neither    *)
(* stale nor asking for the full text.                                     *)
Diffable(fs) == seen[fs] /\ responses[fs] # NoResponse /\ ~responses[fs].resend

(* An event with full text has no reference state; one with the text of    *)
(* the last response for reference has diffs, unless only the selection    *)
(* changed.                                                                *)
SentWith(i, ref) ==
    /\ job' = [job EXCEPT ![i] = [@ EXCEPT !.pc = "processed", !.ref = ref]]
    /\ seen' = [seen EXCEPT ![job[i].fs] = TRUE]

HasDiffs(i) == job[i].ref \notin {NoText, job[i].text}

NotSent(i) == job' = [job EXCEPT ![i] = Idle("done")] /\ UNCHANGED seen

(* An event that is too large, to be skipped or lost the focus ends here,  *)
(* as does a duplicate.  The full text is sent when there is nothing to    *)
(* diff against, and on focus.  Whether selections differ is left out.     *)
processEvent(i) ==
    /\ job[i].pc = "queued"
    /\ Cardinality(Working) < eventPoolSize
    /\ \/ NotSent(i)
       \/ SentWith(i, NoText)
       \/ Diffable(job[i].fs) /\ SentWith(i, responses[job[i].fs].text)
    /\ UNCHANGED <<now, calls, responses, states, resetting, lost>>

-----------------------------------------------------------------------------
(* fileProcessor.handleEvent                                               *)

newFileDriver(content, ts) == [content |-> content, hash |-> NoText, ts |-> ts]

(* latestFileDriverLocked, among the keys of a file and some editors.      *)
OfFile(f, editors) == {sk \in Present(states) : sk[1][1] = f /\ sk[1][2] \in editors}
Latest(S) == CHOOSE sk \in S : \A k \in S : states[k].ts <= states[sk].ts
Touched(sk) == [states EXCEPT ![sk].ts = now]

(* The keys a driver for an empty text may be copied from: its reference   *)
(* state, else all states of the file, the latest of which is assumed.     *)
References(i) ==
    IF job[i].ref # NoText THEN Present(states) \cap {<<job[i].fs, job[i].ref>>}
                           ELSE OfFile(job[i].fs[1], {job[i].fs[2]})

NoneFound(i) == states[Key(i)] = NoDriver /\ job[i].text = Empty /\ References(i) = {}

(* The map with the driver in it that the event will be applied to.        *)
Found(i) ==
    LET sk == Key(i)
        ref == Latest(References(i))
        With(st, content) == [st EXCEPT ![sk] = newFileDriver(content, now + 1)]
    IN  CASE states[sk] # NoDriver -> Touched(sk)
          [] states[sk] = NoDriver /\ job[i].text # Empty -> With(states, Empty)
          [] states[sk] = NoDriver /\ job[i].text = Empty ->
                 With(IF job[i].ref = NoText THEN Touched(ref) ELSE states, states[ref].content)

(* BufferDriver.HandleEvent.  The only diff that meets an empty text       *)
(* deletes the whole of the reference, and it fails on any other content.  *)
(* The diffs are zeroed when the driver existed.                           *)
Patched(i) ==
    LET content == Found(i)[Key(i)].content
    IN  IF \/ job[i].text # Empty
           \/ states[Key(i)] = NoDriver /\ HasDiffs(i) /\ content = job[i].ref
        THEN job[i].text
        ELSE content

(* cleanupLocked deletes the oldest drivers beyond maxStates.              *)
cleanupLocked(st) ==
    LET Younger(sk) == {k \in Present(st) : st[k].ts > st[sk].ts}
        kept == {sk \in Present(st) : Cardinality(Younger(sk)) < maxStates}
    IN  /\ states' = [sk \in stateKey |-> IF sk \in kept THEN st[sk] ELSE NoDriver]
        /\ lost' = (lost \/ kept # Present(st))

(* The response; what is no longer needed is cleared.                      *)
HandledAs(i, resend) ==
    /\ job[i].pc = "processed"
    /\ job' = [job EXCEPT ![i] = [@ EXCEPT !.pc = "handled", !.resend = resend,
                                          !.ts = 0, !.ref = NoText]]
    /\ now' = now + 2
    /\ UNCHANGED <<calls, seen, responses, resetting>>

(* Mutant: the hash is the event's, not the one HandleEvent returns.       *)
handleEventHashed(i) ==
    /\ ~NoneFound(i)
    /\ cleanupLocked([Found(i) EXCEPT ![Key(i)] =
           [content |-> Patched(i), hash |-> job[i].text, ts |-> job[i].ts]])
    /\ HandledAs(i, Patched(i) # job[i].text)

(* The event is applied.  The driver gets the time the event was received. *)
handleEvent(i) ==
    /\ ~NoneFound(i)
    /\ cleanupLocked([Found(i) EXCEPT ![Key(i)] =
           [content |-> Patched(i), hash |-> Patched(i), ts |-> job[i].ts]])
    /\ HandledAs(i, Patched(i) # job[i].text)

(* Mutant: an error does not ask for the text again.                       *)
handleEventFailsSilently(i) ==
    /\ NoneFound(i)
    /\ cleanupLocked(states)
    /\ HandledAs(i, FALSE)

(* "could not construct driver": the client is asked to resend the text.   *)
handleEventFails(i) ==
    /\ NoneFound(i)
    /\ cleanupLocked(states)
    /\ HandledAs(i, TRUE)

(* Mutant: cleanupLocked is not deferred.                                  *)
handleEventAbortsUncleaned(i) ==
    /\ "abort" \in Faults
    /\ ~NoneFound(i)
    /\ states' = Found(i)
    /\ UNCHANGED lost
    /\ HandledAs(i, TRUE)

(* handleEvent is cut short before it has the lock, before the driver's    *)
(* HandleEvent has patched the buffer, or afterwards, when it parses.      *)
(* What it has put in the map stays there.                                 *)
CutShort(i) ==
    \/ UNCHANGED <<states, lost>>
    \/ ~NoneFound(i) /\ cleanupLocked(Found(i))
    \/ ~NoneFound(i) /\ cleanupLocked([Found(i) EXCEPT ![Key(i)].content = Patched(i)])

(* The timeout aborts it.                                                  *)
handleEventAborts(i) ==
    /\ "abort" \in Faults
    /\ CutShort(i)
    /\ HandledAs(i, TRUE)

(* Any other panic unwinds to processEvent, which stores no response.      *)
handleEventPanics(i) ==
    /\ "panic" \in Faults
    /\ job[i].pc = "processed"
    /\ CutShort(i)
    /\ job' = [job EXCEPT ![i] = Idle("done")]
    /\ now' = now + 2
    /\ UNCHANGED <<calls, seen, responses, resetting>>

(* Of the other responses, the ones older than historyDuration go.         *)
updateLatestResponse(i) ==
    /\ job[i].pc = "handled"
    /\ job' = [job EXCEPT ![i] = Idle("done")]
    /\ responses' = [fs \in fileSource |->
          IF fs = job[i].fs THEN [text |-> job[i].text, resend |-> job[i].resend, old |-> FALSE]
          ELSE IF responses[fs] # NoResponse /\ responses[fs].old THEN NoResponse
          ELSE responses[fs]]
    /\ UNCHANGED <<now, calls, seen, states, resetting, lost>>

-----------------------------------------------------------------------------
(* The completion API asks for the driver of a text, and makes one from a  *)
(* text that is not empty.  Nothing is evicted here.                       *)
state(fs, t) ==
    /\ calls < MaxCalls
    /\ calls' = calls + 1
    /\ \/ states[<<fs, t>>] # NoDriver /\ states' = Touched(<<fs, t>>)
       \/ /\ states[<<fs, t>>] = NoDriver /\ t # Empty
          /\ states' = [states EXCEPT ![<<fs, t>>] = newFileDriver(t, now)]
    /\ now' = now + 1
    /\ UNCHANGED <<job, seen, responses, resetting, lost>>

(* The latest driver of a file in any editor.                              *)
LatestDriver(f) ==
    /\ calls < MaxCalls
    /\ calls' = calls + 1
    /\ OfFile(f, Editor) # {}
    /\ states' = Touched(Latest(OfFile(f, Editor)))
    /\ now' = now + 1
    /\ UNCHANGED <<job, seen, responses, resetting, lost>>

(* Manager.reset: the drivers first, the events and responses later.       *)
ResetDrivers ==
    /\ "reset" \in Faults
    /\ ~resetting
    /\ resetting' = TRUE
    /\ states' = [sk \in stateKey |-> NoDriver]
    /\ lost' = TRUE
    /\ UNCHANGED <<now, calls, job, seen, responses>>

ResetHistory ==
    /\ resetting
    /\ resetting' = FALSE
    /\ seen' = [fs \in fileSource |-> FALSE]
    /\ responses' = [fs \in fileSource |-> NoResponse]
    /\ UNCHANGED <<now, calls, job, states, lost>>

(* More than historyDuration goes by.  Stale events are deleted before any *)
(* is looked up, so that they may as well go at once.                      *)
Minute ==
    /\ "minute" \in Faults
    /\ seen' = [fs \in fileSource |-> FALSE]
    /\ responses' = [fs \in fileSource |->
          IF responses[fs] = NoResponse THEN NoResponse ELSE [responses[fs] EXCEPT !.old = TRUE]]
    /\ UNCHANGED <<now, calls, job, states, resetting, lost>>

EventStep(i) ==
    \/ processEvent(i)
    \/ handleEvent(i) \/ handleEventFails(i) \/ handleEventAborts(i) \/ handleEventPanics(i)
    \/ updateLatestResponse(i)

Next ==
    \/ \E i \in Event, fs \in fileSource, t \in Text : handleEditorEvent(i, fs, t)
    \/ \E i \in Event : EventStep(i)
    \/ \E fs \in fileSource, t \in Text : state(fs, t)
    \/ \E f \in File : LatestDriver(f)
    \/ ResetDrivers \/ ResetHistory \/ Minute

Spec == Init /\ [][Next]_vars

-----------------------------------------------------------------------------
(* A driver holds the text it is filed under, or nothing yet; it holds it  *)
(* if it has been given a hash.  Only under the empty text may be another. *)
KeyedByContent ==
    \A sk \in Present(states) :
        /\ states[sk].hash \in {NoText, states[sk].content}
        /\ sk[2] # Empty => states[sk].content \in {sk[2], Empty}
        /\ sk[2] # Empty /\ states[sk].hash # NoText => states[sk].content = sk[2]

(* What the last response says is in sync is: as long as no driver was     *)
(* dropped, the driver holds the text and a diff against it applies, in    *)
(* whichever order two events are processed, applied and answered.         *)
SyncedUnlessResend ==
    ~lost => \A fs \in fileSource :
        LET rd == responses[fs] IN
        rd # NoResponse /\ ~rd.resend =>
            states[<<fs, rd.text>>] # NoDriver /\ states[<<fs, rd.text>>].content = rd.text

(* Every event leaves at most maxStates drivers behind, also one that      *)
(* fails, is aborted or panics once it has the lock.                       *)
EventsBoundDrivers ==
    [][\A i \in Event : job'[i].pc # "processed" /\ job[i].pc = "processed" /\ states' # states
         => Cardinality(Present(states)') <= maxStates]_vars

(* file_processor.go:243 "Zero out diffs, this driver is already in the    *)
(* correct state": so it is for every event whose driver exists.           *)
ExistingIsCorrect ==
    \A i \in Event : job[i].pc = "processed" /\ states[Key(i)] # NoDriver
        => states[Key(i)].content = job[i].text
=============================================================================
