------------------------------ MODULE Recorder ------------------------------
(* One test's recorder, src/llmtivo/recorder.py, with the cassette it drives *)
(* (cassette.py) and the stored tape that outlives it.  Callers are the      *)
(* threads or asyncio tasks of the test, each making one model call at a     *)
(* time.  A run opens a recorder, makes calls, and ends by finish, discard   *)
(* or a crash of the process; a later run finds whatever tape was left.      *)
(* A response is the number of the live call that produced it, so that two   *)
(* answers to the same prompt stay distinguishable (best-of-N).              *)
EXTENDS Modes, Cassette, FiniteSets

CONSTANTS Callers,     \* threads and tasks of the test
          Questions,   \* request fingerprints
          OpenModes,   \* the modes a run may be opened with
          MaxCalls,    \* calls made in one run
          MaxRuns,     \* recorders opened on this cassette
          MaxFaults,   \* failed calls, callbacks, deletes and writes, and crashes
          None         \* Python's None

Interaction == [ordinal : Nat \ {0}, fingerprint : Questions, response : Nat]

ASSUME NoneAssumption == None \notin Seq(Interaction) /\ None \notin Questions

ASSUME ModesAssumption == OpenModes \subseteq Modes

ASSUME BoundsAssumption == MaxCalls \in Nat /\ MaxRuns \in Nat /\ MaxFaults \in Nat

VARIABLES
    store,      \* the stored tape; it exists iff it is not empty
    loaded,     \* Cassette._loaded: the tape in memory, or None
    mode,       \* the effective mode
    phase,      \* closed, open, finished or discarded
    ordinal,    \* Recorder._ordinal
    served,     \* Recorder._served
    recorded,   \* stats.recorded
    drifted,    \* stats.drifted
    unplayed,   \* stats.unplayed
    lock,       \* who holds Recorder._lock, or None
    call,       \* what each caller is doing
    live,       \* the model: the question each live call was asked
    log,        \* history: how each call of this run ended
    prior,      \* history: the tape this run was opened on
    runs,       \* runs opened so far
    faults      \* faults so far

recorderVars == <<mode, phase, ordinal, served, recorded, drifted, unplayed>>
tapeVars     == <<store, loaded>>
historyVars  == <<log, prior, runs>>
vars == <<recorderVars, tapeVars, historyVars, lock, call, live, faults>>

Rewinding == {"keeping", "deleting", "resetting", "restoring", "refilling"}

Steps == Rewinding \cup
    {"idle", "passing", "deciding", "missed", "performing", "answered", "taped"}

Idle == [step |-> "idle", question |-> None, place |-> 0, reply |-> 0, kept |-> <<>>]

CallState == [step : Steps, question : Questions \cup {None},
              place : Nat, reply : Nat, kept : Seq(Interaction)]

\* How a call ends: answered from the tape or live, refused for a drift or a
\* miss, or with an exception; of a repair, before it touched the tape or halfway.
Sources == {"tape", "live", "drift", "miss", "failed", "unrepaired", "halfway"}

TypeOK ==
    /\ store \in Seq(Interaction)
    /\ loaded \in Seq(Interaction) \cup {None}
    /\ mode \in {"record", "replay", "replay_or_record", "off"}
    /\ phase \in {"closed", "open", "finished", "discarded"}
    /\ ordinal \in Nat
    /\ served \subseteq Nat \ {0} /\ IsFiniteSet(served)
    /\ recorded \in Nat /\ drifted \in Nat /\ unplayed \in Nat
    /\ lock \in Callers \cup {None}
    /\ call \in [Callers -> CallState]
    /\ live \in Seq(Questions)
    /\ log \subseteq [place : Nat, question : Questions,
                      response : Nat, source : Sources]
    /\ prior \in Seq(Interaction)
    /\ runs \in Nat /\ faults \in Nat

Init ==
    /\ store = <<>> /\ loaded = None
    /\ mode = "off" /\ phase = "closed"
    /\ ordinal = 0 /\ served = {}
    /\ recorded = 0 /\ drifted = 0 /\ unplayed = 0
    /\ lock = None
    /\ call = [c \in Callers |-> Idle]
    /\ live = <<>>
    /\ log = {} /\ prior = <<>> /\ runs = 0 /\ faults = 0

-----------------------------------------------------------------------------
(* Helpers *)

\* Cassette.load(): the tape in memory, read from the store the first time.
Load == IF loaded = None THEN store ELSE loaded

\* The second half of Cassette.append: the copy in memory follows the store.
Cached(interaction) ==
    IF loaded = None THEN None ELSE Append(loaded, interaction)

AllIdle == \A c \in Callers : call[c].step = "idle"

Goto(c, step) == call' = [call EXCEPT ![c].step = step]

\* Caller c gets its answer or an exception, and the history notes which.
Return(c, response, source) ==
    /\ call' = [call EXCEPT ![c] = Idle]
    /\ log' = log \cup {[place |-> call[c].place, question |-> call[c].question,
                         response |-> response, source |-> source]}
    /\ UNCHANGED <<prior, runs>>

\* What the live call in progress at c puts on the tape.
NewInteractionAtCounter(c) ==
    [ordinal |-> ordinal, fingerprint |-> call[c].question,
     response |-> call[c].reply]

NewInteraction(c) ==
    [ordinal |-> call[c].place, fingerprint |-> call[c].question,
     response |-> call[c].reply]

\* Recorder.unplayed counts what was consumed, not how far the run got.
UnplayedByOrdinal ==
    IF ~MayReplay(mode) THEN 0
    ELSE IF Len(Load) > ordinal THEN Len(Load) - ordinal ELSE 0

Unplayed ==
    IF ~MayReplay(mode) THEN 0
    ELSE IF Len(Load) > Cardinality(served)
         THEN Len(Load) - Cardinality(served) ELSE 0

-----------------------------------------------------------------------------
(* A run begins: Recorder.__init__ *)

Open(requested) ==
    /\ phase # "open" /\ AllIdle /\ runs < MaxRuns
    /\ mode' = Resolve(requested, store # <<>>)
    /\ store' = IF mode' = "record" THEN <<>> ELSE store
    /\ loaded' = None
    /\ phase' = "open"
    /\ ordinal' = 0 /\ served' = {}
    /\ recorded' = 0 /\ drifted' = 0 /\ unplayed' = 0
    /\ log' = {} /\ prior' = store /\ runs' = runs + 1
    /\ UNCHANGED <<lock, call, live, faults>>

-----------------------------------------------------------------------------
(* A call begins: the entry of call, acall, stream and astream              *)

CallsMade == Cardinality(log) + Cardinality({c \in Callers : call[c].step # "idle"})

Begin(c, step, question, place) ==
    call' = [call EXCEPT ![c] = [step |-> step, question |-> question,
                                 place |-> place, reply |-> 0, kept |-> <<>>]]

\* Mode OFF goes straight to the model, without an ordinal.
AskOff(c, question) ==
    /\ phase = "open" /\ call[c].step = "idle" /\ CallsMade < MaxCalls
    /\ mode = "off"
    /\ Begin(c, "passing", question, 0)
    /\ UNCHANGED <<recorderVars, tapeVars, historyVars, lock, live, faults>>

\* Plausible slips in numbering a call: by the length of the tape, and from 0.
NextOrdinalByLength == Len(Load) + 1

NextOrdinalFromZero == ordinal

NextOrdinal == ordinal + 1

\* Every other mode first takes the call's ordinal, under the lock.
Ask(c, question) ==
    /\ phase = "open" /\ call[c].step = "idle" /\ CallsMade < MaxCalls
    /\ mode # "off"
    /\ lock = None
    /\ ordinal' = NextOrdinal
    /\ Begin(c, IF MayReplay(mode) THEN "deciding" ELSE "performing",
             question, NextOrdinal)
    /\ UNCHANGED <<mode, phase, served, recorded, drifted, unplayed,
                   tapeVars, historyVars, lock, live, faults>>

\* _claim: under the lock, a recording that answers the call is consumed and
\* served; its response is what the caller gets.
ClaimHit(c) ==
    /\ call[c].step = "deciding"
    /\ lock = None
    /\ Answerable(Load, served, call[c].place, call[c].question)
    /\ LET found == Claimed(Load, served, call[c].place, call[c].question)
       IN  /\ served' = served \cup {found.ordinal}
           /\ Return(c, found.response, "tape")
    /\ loaded' = Load
    /\ UNCHANGED <<mode, phase, ordinal, recorded, drifted, unplayed,
                   store, lock, live, faults>>

ClaimMiss(c) ==
    /\ call[c].step = "deciding"
    /\ lock = None
    /\ ~Answerable(Load, served, call[c].place, call[c].question)
    /\ loaded' = Load
    /\ Goto(c, "missed")
    /\ UNCHANGED <<recorderVars, store, historyVars, lock, live, faults>>

\* Nothing answers the call.  From here on _decide holds no lock.  A strict
\* mode raises: FingerprintDrift when the tape holds another interaction at
\* this place, CassetteMiss when it holds none.
RefuseDrift(c) ==
    /\ call[c].step = "missed" /\ Strict(mode)
    /\ Has(Load, call[c].place)
    /\ loaded' = Load
    /\ drifted' = drifted + 1
    /\ Return(c, 0, "drift")
    /\ UNCHANGED <<mode, phase, ordinal, served, recorded, unplayed,
                   store, lock, live, faults>>

RefuseMiss(c) ==
    /\ call[c].step = "missed" /\ Strict(mode)
    /\ ~Has(Load, call[c].place)
    /\ loaded' = Load
    /\ Return(c, 0, "miss")
    /\ UNCHANGED <<recorderVars, store, lock, live, faults>>

\* A recordable mode goes to the model, past a truncation if the tape is stale.
Extend(c) ==
    /\ call[c].step = "missed" /\ ~Strict(mode)
    /\ ~Has(Load, call[c].place)
    /\ loaded' = Load
    /\ Goto(c, "performing")
    /\ UNCHANGED <<recorderVars, store, historyVars, lock, live, faults>>

DriftUncounted(c) ==
    /\ call[c].step = "missed" /\ ~Strict(mode)
    /\ Has(Load, call[c].place)
    /\ loaded' = Load
    /\ drifted' = drifted
    /\ Goto(c, "keeping")
    /\ UNCHANGED <<mode, phase, ordinal, served, recorded, unplayed,
                   store, historyVars, lock, live, faults>>

Drift(c) ==
    /\ call[c].step = "missed" /\ ~Strict(mode)
    /\ Has(Load, call[c].place)
    /\ loaded' = Load
    /\ drifted' = drifted + 1
    /\ Goto(c, "keeping")
    /\ UNCHANGED <<mode, phase, ordinal, served, recorded, unplayed,
                   store, historyVars, lock, live, faults>>

\* The callback of the drift raises, and the tape stays as it is.
DriftRaises(c) ==
    /\ call[c].step = "missed" /\ ~Strict(mode) /\ faults < MaxFaults
    /\ Has(Load, call[c].place)
    /\ loaded' = Load
    /\ drifted' = drifted + 1
    /\ faults' = faults + 1
    /\ Return(c, 0, "unrepaired")
    /\ UNCHANGED <<mode, phase, ordinal, served, recorded, unplayed,
                   store, lock, live>>

-----------------------------------------------------------------------------
(* Cassette.truncate_from, which no lock protects.  "kept" is the tape it    *)
(* read: the interactions before the call's place are appended again.        *)

Keep(c) ==
    /\ call[c].step = "keeping"
    /\ call' = [call EXCEPT ![c].step = "deleting", ![c].kept = Load]
    /\ loaded' = Load
    /\ UNCHANGED <<recorderVars, store, historyVars, lock, live, faults>>

Delete(c) ==
    /\ call[c].step = "deleting"
    /\ store' = <<>>
    /\ Goto(c, "resetting")
    /\ UNCHANGED <<recorderVars, loaded, historyVars, lock, live, faults>>

DeleteFails(c) ==
    /\ call[c].step = "deleting" /\ faults < MaxFaults
    /\ faults' = faults + 1
    /\ Return(c, 0, "unrepaired")
    /\ UNCHANGED <<recorderVars, tapeVars, lock, live>>

ResetForgotten(c) ==
    /\ call[c].step = "resetting"
    /\ loaded' = loaded
    /\ Goto(c, "restoring")
    /\ UNCHANGED <<recorderVars, store, historyVars, lock, live, faults>>

Reset(c) ==
    /\ call[c].step = "resetting"
    /\ loaded' = <<>>
    /\ Goto(c, "restoring")
    /\ UNCHANGED <<recorderVars, store, historyVars, lock, live, faults>>

\* Which of the interactions read are kept.
BeforeShifted(interaction, n) == interaction.ordinal + 1 < n

BeforeOrAt(interaction, n) == interaction.ordinal <= n

BeforeExcept(interaction, n) == interaction.ordinal # n

Before(interaction, n) == interaction.ordinal < n

RestoreStored(c) ==
    /\ call[c].step = "restoring" /\ call[c].kept # <<>>
    /\ Before(Head(call[c].kept), call[c].place)
    /\ store' = Append(store, Head(call[c].kept))
    /\ Goto(c, "refilling")
    /\ UNCHANGED <<recorderVars, loaded, historyVars, lock, live, faults>>

\* A plausible slip: the failure is caught, and the next interaction restored.
RestoreSkips(c) ==
    /\ call[c].step = "restoring" /\ call[c].kept # <<>> /\ faults < MaxFaults
    /\ Before(Head(call[c].kept), call[c].place)
    /\ faults' = faults + 1
    /\ call' = [call EXCEPT ![c].kept = Tail(@)]
    /\ UNCHANGED <<recorderVars, tapeVars, historyVars, lock, live>>

\* The append fails, and with it all that was still to be restored is lost.
RestoreFails(c) ==
    /\ call[c].step = "restoring" /\ call[c].kept # <<>> /\ faults < MaxFaults
    /\ Before(Head(call[c].kept), call[c].place)
    /\ faults' = faults + 1
    /\ Return(c, 0, "halfway")
    /\ UNCHANGED <<recorderVars, tapeVars, lock, live>>

RestoreCached(c) ==
    /\ call[c].step = "refilling"
    /\ loaded' = Cached(Head(call[c].kept))
    /\ call' = [call EXCEPT ![c].step = "restoring", ![c].kept = Tail(@)]
    /\ UNCHANGED <<recorderVars, store, historyVars, lock, live, faults>>

DropStale(c) ==
    /\ call[c].step = "restoring" /\ call[c].kept # <<>>
    /\ ~Before(Head(call[c].kept), call[c].place)
    /\ call' = [call EXCEPT ![c].kept = Tail(@)]
    /\ UNCHANGED <<recorderVars, tapeVars, historyVars, lock, live, faults>>

Restored(c) ==
    /\ call[c].step = "restoring" /\ call[c].kept = <<>>
    /\ Goto(c, "performing")
    /\ UNCHANGED <<recorderVars, tapeVars, historyVars, lock, live, faults>>

-----------------------------------------------------------------------------
(* The live call, and its recording                                         *)

\* perform() returns, or a stream ends, fails or is abandoned: whatever
\* chunks were consumed are the response that gets recorded.
Perform(c) ==
    /\ call[c].step = "performing"
    /\ live' = Append(live, call[c].question)
    /\ call' = [call EXCEPT ![c].step = "answered", ![c].reply = Len(live')]
    /\ UNCHANGED <<recorderVars, tapeVars, historyVars, lock, faults>>

\* perform() raises out of call or acall: nothing is recorded.
PerformFails(c) ==
    /\ call[c].step \in {"performing", "passing"} /\ faults < MaxFaults
    /\ faults' = faults + 1
    /\ Return(c, 0, "failed")
    /\ UNCHANGED <<recorderVars, tapeVars, lock, live>>

\* Mode OFF hands the answer through.
Pass(c) ==
    /\ call[c].step = "passing"
    /\ live' = Append(live, call[c].question)
    /\ Return(c, Len(live'), "live")
    /\ UNCHANGED <<recorderVars, tapeVars, lock, faults>>

\* _record takes the lock and appends to the store ...
RecordStored(c) ==
    /\ call[c].step = "answered"
    /\ lock = None
    /\ lock' = c
    /\ store' = Append(store, NewInteraction(c))
    /\ Goto(c, "taped")
    /\ UNCHANGED <<recorderVars, loaded, historyVars, live, faults>>

\* ... then to the copy in memory, counts it and lets the lock go.
RecordUncounted(c) ==
    /\ call[c].step = "taped"
    /\ loaded' = Cached(NewInteraction(c))
    /\ recorded' = recorded
    /\ lock' = None
    /\ Return(c, call[c].reply, "live")
    /\ UNCHANGED <<mode, phase, ordinal, served, drifted, unplayed,
                   store, live, faults>>

RecordCounted(c) ==
    /\ call[c].step = "taped"
    /\ loaded' = Cached(NewInteraction(c))
    /\ recorded' = recorded + 1
    /\ lock' = None
    /\ Return(c, call[c].reply, "live")
    /\ UNCHANGED <<mode, phase, ordinal, served, drifted, unplayed,
                   store, live, faults>>

\* The write fails: `with` releases the lock as the exception leaves it.
RecordFailsLocked(c) ==
    /\ call[c].step = "answered"
    /\ lock = None /\ faults < MaxFaults
    /\ faults' = faults + 1
    /\ lock' = c
    /\ Return(c, 0, "failed")
    /\ UNCHANGED <<recorderVars, tapeVars, live>>

RecordFails(c) ==
    /\ call[c].step = "answered"
    /\ lock = None /\ faults < MaxFaults
    /\ faults' = faults + 1
    /\ Return(c, 0, "failed")
    /\ UNCHANGED <<recorderVars, tapeVars, lock, live>>

-----------------------------------------------------------------------------
(* The run ends.  The plugin finishes or discards once the test is over;     *)
(* patched also finishes on the way out of each of its blocks, after which   *)
(* the test may go on.  The workers of the test are joined before either.    *)
(* Compaction rewrites the frames of the tape and preserves every line.      *)

Finish(next) ==
    /\ phase = "open" /\ AllIdle
    /\ phase' = next
    /\ unplayed' = Unplayed
    /\ loaded' = IF MayReplay(mode) THEN Load ELSE loaded
    /\ UNCHANGED <<mode, ordinal, served, recorded, drifted,
                   store, historyVars, lock, call, live, faults>>

DiscardAnyway ==
    /\ phase = "open" /\ AllIdle
    /\ phase' = "discarded"
    /\ store' = <<>> /\ loaded' = None
    /\ UNCHANGED <<mode, ordinal, served, recorded, drifted, unplayed,
                   historyVars, lock, call, live, faults>>

Discard ==
    /\ phase = "open" /\ AllIdle
    /\ phase' = "discarded"
    /\ store' = IF recorded > 0 THEN <<>> ELSE store
    /\ loaded' = IF recorded > 0 THEN None ELSE loaded
    /\ UNCHANGED <<mode, ordinal, served, recorded, drifted, unplayed,
                   historyVars, lock, call, live, faults>>

\* The process dies, or the delete of discard fails: the stored tape is left.
Crash ==
    /\ phase = "open" /\ faults < MaxFaults
    /\ faults' = faults + 1
    /\ phase' = "closed"
    /\ lock' = None
    /\ call' = [c \in Callers |-> Idle]
    /\ UNCHANGED <<mode, ordinal, served, recorded, drifted, unplayed,
                   tapeVars, historyVars, live>>

-----------------------------------------------------------------------------

\* What caller c does on its own once it has asked.
Proceed(c) ==
    \/ ClaimHit(c) \/ ClaimMiss(c)
    \/ RefuseDrift(c) \/ RefuseMiss(c) \/ Extend(c) \/ Drift(c)
    \/ Keep(c) \/ Delete(c) \/ Reset(c)
    \/ RestoreStored(c) \/ RestoreCached(c) \/ DropStale(c) \/ Restored(c)
    \/ Perform(c) \/ Pass(c) \/ RecordStored(c) \/ RecordCounted(c)

\* What goes wrong for it: the exception reaches the test, which may go on.
Fails(c) ==
    \/ DriftRaises(c) \/ DeleteFails(c) \/ RestoreFails(c)
    \/ PerformFails(c) \/ RecordFails(c)

Next ==
    \/ \E m \in OpenModes : Open(m)
    \/ \E c \in Callers, q \in Questions : AskOff(c, q) \/ Ask(c, q)
    \/ \E c \in Callers : Proceed(c) \/ Fails(c)
    \/ \E next \in {"open", "finished"} : Finish(next)
    \/ Discard
    \/ Crash

Spec == Init /\ [][Next]_vars

\* Threads are scheduled and the model answers; nothing makes a test ask, end
\* or fail.
FairSpec == Spec /\ \A c \in Callers : WF_vars(Proceed(c))

-----------------------------------------------------------------------------
(* Properties of the fan-out *)

\* The stored recording that would stand for a live answer in the history.
Taped(entry) ==
    [ordinal |-> entry.place, fingerprint |-> entry.question,
     response |-> entry.response]

OnTape(interaction) == \E i \in DOMAIN store : store[i] = interaction

Answered == {entry \in log : entry.source \in {"tape", "live"}}

\* No two interactions of a tape claim to be the same call, whatever order
\* the callers took their ordinals and recorded in (_decide, _record).
DistinctOrdinals ==
    \A i, j \in DOMAIN store :
        store[i].ordinal = store[j].ordinal => i = j

\* A fan-out loses no interaction: every answer a recording run paid for and
\* handed to a caller is on the stored tape at that call's ordinal, from the
\* moment the caller has it, so a later crash cannot take it back.
AnsweredIsTaped ==
    mode \in {"record", "replay_or_record"} /\ phase # "discarded" =>
        \A entry \in log : entry.source = "live" => OnTape(Taped(entry))

\* Every answer in hand is the model's answer to the very question asked, also
\* when it was recorded by another run at another place (_claim).
AnswerIsForThisQuestion ==
    \A entry \in Answered : live[entry.response] = entry.question

\* A recording answers exactly one call: no two calls of a run share a
\* response, so best-of-N keeps its different candidates (_served).
OneAnswerPerRecording ==
    \A e, f \in Answered : e.response = f.response => e = f

\* A strict run refuses a question only when every recording of it went to
\* another call: no schedule turns a sufficient tape into a failure (_claim).
NoNeedlessRefusal ==
    Strict(mode) /\ phase \in {"open", "finished"} =>
        \A e \in log, i \in DOMAIN store :
            /\ e.source \in {"drift", "miss"}
            /\ store[i].fingerprint = e.question
            => \E f \in log : f.source = "tape" /\ f.response = store[i].response

\* Order addresses: if every call so far asks what the tape holds at its own
\* place, each gets the answer of that place, in whatever order the calls
\* reach the lock (_claim prefers the recording at the ordinal).
OrderAddresses ==
    Strict(mode) /\ phase \in {"open", "finished"} =>
        LET inPlace(e) == Has(store, e.place)
                          /\ Get(store, e.place).fingerprint = e.question
        IN  (\A e \in log : inPlace(e)) =>
                \A e \in log : e.response = Get(store, e.place).response

\* A finished strict run reports exactly the recordings no call was given
\* (unplayed, finish).
UnplayedExact ==
    Strict(mode) /\ phase = "finished" =>
        unplayed = Cardinality({i \in DOMAIN store :
            ~ \E e \in log : e.source = "tape" /\ e.response = store[i].response})

\* A recording run that is thrown away leaves nothing a later run could take
\* for a cassette, unless no call of it was ever recorded (discard).
DiscardLeavesNothing ==
    phase = "discarded" /\ mode = "record" => store = <<>>

\* An open strict run neither reaches the model nor touches the stored tape,
\* however it ends: a replay-only run never destroys a committed cassette.
ReplayIsOffline ==
    [][Strict(mode) /\ phase = "open" => live' = live /\ store' = store]_vars

-----------------------------------------------------------------------------
(* Properties of the repair of a stale tape (replay_or_record) *)

\* The places where this run dropped, or had dropped, a recording the tape had
\* there when the run began: the calls it answered otherwise, or tried to.
DriftPlaces ==
    {e.place : e \in {f \in log : f.source \in {"live", "failed", "halfway"}
                                  /\ Has(prior, f.place)}}

AtRest == AllIdle /\ phase \in {"open", "finished"}

\* The same, and the places whose repair is over and answer still to come.
RepairedPlaces ==
    DriftPlaces \cup {call[c].place : c \in {d \in Callers :
        call[d].step \in {"performing", "answered", "taped"} /\ Has(prior, call[d].place)}}

\* A repair keeps every recording before the first stale one: answering a
\* changed question costs no answer to an earlier one, at any time, and so to
\* no crash, but inside truncate_from between its delete and its last append.
\* If one of these appends fails the caller is told, and what the repair has
\* restored by then is a first part of them (HeadIsCutOnce).
HeadIsKept ==
    /\ mode = "replay_or_record" /\ phase \in {"open", "finished"}
    /\ \A c \in Callers : call[c].step \notin {"resetting", "restoring", "refilling"}
    => \A i \in DOMAIN prior :
            (\A m \in RepairedPlaces : prior[i].ordinal < m) =>
                \/ OnTape(prior[i])
                \/ \E e \in log : e.source = "halfway"

\* What a repair that fails halfway leaves of them is a first part, in the order
\* of the tape: no later answer survives one that came before it.
HeadIsCutOnce ==
    LET head == {i \in DOMAIN prior : \A m \in DriftPlaces : prior[i].ordinal < m}
    IN  AtRest /\ mode = "replay_or_record" =>
            \A i, j \in head : i < j /\ OnTape(prior[j]) => OnTape(prior[i])

\* A repair drops the stale recording and every one after it: none is left to
\* replay an answer from an abandoned branch, also if the repair fails after its
\* delete (truncate_from).  If it fails before, the call ends without an answer
\* and the tape is the old one, of which the run may still be served.
StaleTailIsGone ==
    AtRest /\ mode = "replay_or_record" =>
        \A i \in DOMAIN prior :
            (\E m \in DriftPlaces : prior[i].ordinal >= m) => ~OnTape(prior[i])

\* No recording of an earlier run vanishes without a drift being counted, on
\* which the plugin's report rests (stats.drifted, on_drift).
NothingDroppedSilently ==
    AtRest /\ mode = "replay_or_record" /\ drifted = 0 =>
        \A i \in DOMAIN prior : OnTape(prior[i])

\* Between calls the tape in memory is the stored tape, also after failed
\* writes, truncations and extensions (_loaded).
CacheMirrorsStore ==
    AtRest /\ loaded # None => loaded = store

\* No recording is served to two calls of a run, nor a live answer to more than
\* one beside its own: an interaction recorded by this run is not in _served,
\* so the next identical prompt takes it, once.
ServedOnce ==
    \A e, f \in log :
        e.source = "tape" /\ f.source = "tape" /\ e.response = f.response => e = f

-----------------------------------------------------------------------------
(* Replay as such *)

Replaying == Strict(mode) /\ phase = "open"

\* The recordings no call was given, and the calls that were answered and refused.
Stock == {store[i] : i \in {j \in DOMAIN store : store[j].ordinal \notin served}}

Given == {[call |-> e.place, question |-> e.question, response |-> e.response] : e \in Answered}

Refused == {[call |-> e.place, question |-> e.question] : e \in log \ Answered}

During(S) == IF Replaying THEN S ELSE {}

Replay == INSTANCE Playback WITH
    Calls   <- 1..MaxCalls,
    open    <- Replaying,
    stock   <- During(Stock),
    given   <- During(Given),
    refused <- During(Refused)

\* A strict run of any number of concurrent callers implements Playback: each
\* of its steps gives one recording out, refuses a question that no recording
\* left asks, or is invisible; its ordinals, caches and look-ups do not show.
ImplementsPlayback == Replay!Spec

-----------------------------------------------------------------------------
(* Liveness *)

\* Every call ends, with an answer or an exception, however the callers meet
\* at the lock and whatever write fails under it.
EveryCallEnds ==
    \A c \in Callers : call[c].step # "idle" ~> call[c].step = "idle"

=============================================================================
