# LLMTivo in TLA+

LLMTivo records the model calls of a test on a tape, and replays them. This directory models the
parts of it that decide where an answer comes from and what stays on the tape: TLA+ modules
translated from `src/src/llmtivo/`, TLC configurations that check them on small instances, and
theorems that TLAPS proves for every size. File names below are those of `src/src/llmtivo/`.

Run a check with `tlc -config <run>.cfg <module>` and a proof with `tlapm <module>.tla`;
`PROJECT.json` lists the runs, the theorems, and the source lines of each definition.

## The system

| Component | State | Operations | Works with |
|---|---|---|---|
| modes (`modes.py`) | none | `resolve`, what a mode permits | the recorder asks it |
| cassette (`cassette.py`) | the tape in memory, `_loaded`, read once | `load`, `get`, `append`, `truncate_from`, `truncate` | over a store; driven by the recorder |
| store (`store.py`) | a file of zstd frames per cassette; a temporary file | `exists`, `read_lines`, `append_line`, `delete`, `compact` | outlives every process |
| recorder (`recorder.py`) | ordinal, served ordinals, statistics, a lock | `call`, `acall`, `stream`, `astream`, `unplayed`, `finish`, `discard` | one per test, shared by its threads and tasks |
| interception (`intercept.py`) | patched attributes of classes; the marker of the outermost call, per thread | `patched`, `patched_all`, the six wrappers | puts a recorder in front of a client |
| LangChain adapter (`langchain.py`) | a hook on the creation of embeddings classes | `patched_langchain`, the walk, request builders, codec | uses interception |
| LiteLLM adapter (`litellm.py`) | none | a target list, request builder, codec | uses interception |
| plugin (`plugin.py`) | mode of the session, outcome of the test | the fixture: open, guard, finish or discard | owns the recorder of a test |
| guard (`guard.py`) | two patched methods of `socket.socket` | `blocked_network` | entered by the plugin |
| keys (`keys.py`) | none | normalisation, `fingerprint` | the recorder calls it |

What is hard, and what must hold all the same:

* **Concurrency in one test.** Threads and asyncio tasks share a recorder. Only taking an ordinal,
  claiming and recording are under its lock; looking the tape up after a failed claim and
  truncating it are not. Ordinals must stay distinct, a recording must answer one call, and no
  schedule may serve an answer to another question.
* **The tape across runs.** Runs in different modes, faults and crashes follow each other on one
  tape. What a caller was given must be on it; a repair keeps what precedes the stale part and
  drops the rest; a strict run changes nothing.
* **Partial writes.** An append or a compaction fails or dies between and inside system calls, and
  the next append writes behind what is left.
* **Layered calls.** Entry points call one another; of one call exactly the outermost layer is
  recorded, across awaits, generators, exceptions and abandoned streams.
* **Sessions.** A test fails in any phase, skips, is interrupted or killed, or leaves a call behind
  that is answered while its tape is compacted, or when the test is over. What is left of its tape is what the next session replays.
* **Questions and answers.** A fingerprint must tell apart what differs in meaning and nothing else, and
  a response must come back from JSON as the type it was.
* **Patches.** Blocks nest, are refused half-way and raise; classes inherit the patched method and
  are loaded while blocks are open. Afterwards nothing may be left patched, and meanwhile nothing
  missed.

`PROJECT.json` lists these hazards at their lines, with the properties that cover them.

## The modules

| Module | Models | Extends or instantiates |
|---|---|---|
| `Positions` | the first of the positions at which a scan succeeds | |
| `Modes` | `modes.py` | |
| `Cassette` | the look-ups on a tape: `get` and the scan of `_claim` | `Positions` |
| `Recorder`, `MCRecorder` | a recorder, its cassette and the stored tape, over several runs | `Modes`, `Cassette`; `Playback` as what it implements |
| `Playback` | what a strict run promises of the recordings it finds | |
| `Tape` | what a `CassetteStore` promises of one cassette | |
| `FileStore` | `FileStore`, per system call | `Positions`; `Tape` as what it implements |
| `Interception`, `MCInterception` | the wrappers and the marker of the outermost call | |
| `Patching`, `MCPatching` | installing and restoring patches, with the LangChain and LiteLLM seams | `Positions` |
| `Guard` | the guard of the network and its nested blocks | |
| `Session`, `MCSession` | the plugin over sessions of several tests | `Modes`, `Guard` |
| `Keys` | request builders and fingerprints | |
| `Codec` | responses onto the tape and back, and a reference for which survive | |
| `Exchange` | a call recorded, and another replayed from it, by any codec | `Keys` |
| `Replies`, `MCExchange` | what the replayed call returns when the codec is the adapters' | `Exchange`, `Codec` |
| `PositionsProofs`, `RecorderProofs`, `FileStoreProofs`, `InterceptionProofs`, `PatchingProofs`, `SessionProofs`, `ExchangeProofs` | proofs about the module each is named for | that module, `TLAPS` |
| `ReplayProofs` | further proofs about `Recorder`: runs that repair no tape, what is served once in every mode, and repairs | `RecorderProofs` |

Each module holds its properties at the end. An operator named after another with a suffix
(`NextOrdinalByLength` beside `NextOrdinal`) is a plausible mistake in that line of code: put in
its place it makes the named property fail, so the property does depend on the line.

### Recorder

`call[c].step` is where caller c stands in the code.

| Code | Model |
|---|---|
| `__init__`, with `resolve` and the truncation of RECORD | `Open` |
| entry of a call in mode OFF | `AskOff`, `Pass` |
| the first `with self._lock` of `_decide` | `Ask` |
| `_claim`, one critical section | `ClaimHit`, `ClaimMiss` |
| the rest of `_decide`, no lock | `RefuseDrift`, `RefuseMiss`, `Extend`, `Drift` |
| the callback `on_drift` raises, before the truncation | `DriftRaises` |
| `truncate_from`, one step per effect | `Keep`, `Delete`, `Reset`, `RestoreStored`, `RestoreCached`, `DropStale`, `Restored` |
| its delete or one of its appends raises | `DeleteFails`, `RestoreFails` |
| `perform()`, or the consumption of a stream | `Perform`, `PerformFails` |
| `_record`: store, then memory and count | `RecordStored`, `RecordCounted`, `RecordFails` |
| `finish`, of a block (the run goes on) or of the test | `Finish` |
| `discard`; death of the process | `Discard`; `Crash` |

Abstractions. A request is its fingerprint, a member of `Questions`. A response is the number of
the live call that produced it, so two answers to one prompt stay different. A stream that fails or
is abandoned is a `Perform`: the code records the chunks that were consumed. `load` is one step. A
tape of no lines does not exist, which loses the one state noted under `FileStore`. The recorder's
tape never takes a torn write, the subject of `FileStore`; a failed write or delete leaves no trace. The
callers of a test are joined before it is finished or discarded and before the next run opens.
`compact` preserves every line and is no step here. The raise for a mode that cannot record
(`recorder.py:145`) is unreachable: strict modes raise before it, OFF never decides.
`stats.replayed` is not kept.

`Playback` sees of this a stock of recordings, the answers given and the calls refused. Under the mapping
in `Recorder` (`Replay`) a claim is its `Give`, either refusal its `Refuse`, any end of the run its `End`; ordinals,
look-ups, the cached tape and ends of blocks are invisible.

### Tape and FileStore

`Tape` is a list of lines that grows until it is deleted, and a condition: *sound*; *cut* by an
append that wrote a part of its frame; *short*, when lines were appended behind such a frame and the tape
reads without them; or *damaged*, when it no longer loads. Compaction is invisible in it, except that it
mends a cut or short tape.

`FileStore` has the two files as variables and an action per system call: `AppendOpen`, `AppendWrite` and
`AppendReturn` for `append_line`; `Delete`; `CompactRead`, `CompactStage`, `CompactReplace` for
`compact`. `AppendTears`, `CompactTears` and `Interrupt` are the failures and deaths inside and
between them; after `AppendWrite` an `Interrupt` leaves a whole line whose append never returned. The history
`given` holds the lines that were written whole ahead of any torn frame.
Reading follows zstd. The decoder takes the bytes behind a torn frame for the rest of it: as long as
they are too few, what was in front is returned without an error (`ReadLines`), and once they are enough they hardly
ever fit, and it raises (`jammed`). When that happens depends on lengths, so each append behind a torn frame may or may not bring it
about. Of a line longer than a block of zstd (128 KiB) a torn frame may yield the beginning (`Piece`), on which
`Cassette.load` raises. The grouping of lines in frames is left out. Faults are those of a process or of a
full disk; the code does not `fsync`, and power loss is not modelled. One operation runs at a time.
A death between opening and writing leaves a file without lines, which `exists()` reports; that
state is in this module and not in `Recorder`.

### Interception

`stack[t]` holds the intercepted calls task t has in progress, `active` the threads that carry the
marker. `Call` and `Delegate` enter a wrapper, made by the application or by another original;
`Leave` is the `finally` of `_outermost`; `Yield` and `Pull` pass a chunk and ask for the next;
`Abandon` and `Close` are a consumer that breaks out of an async stream and the event loop that closes
its generator later. What an original does between entry and exit is arbitrary: it asks the model
or calls other entry points, in its thread or through an executor. Coroutines of a loop share one thread and change places
only where one is suspended. Creating an async generator and its first step are one; the recorder
is reduced to whether it answers without the original. There is one recorder; mode OFF, in which
routing has no effect, is left out.

### Patching

`own[c]` is what class c has under the patched name in its own dictionary, `Mro` its resolution
order and `Lookup` the `getattr`. A block notes what it patches in `undo`, the exit stack, and
restores it last first. `Install` and `Refuse` are one turn of `patched`; `EnterPatchedAll` stands
for `patched_all` with two targets; `EnterLangchain` patches the embeddings the walk finds, sets
the hook, and patches the base of the chat models, in the code's order. `InterceptNew` is the hook
at work: its patch goes to the stack of the hook's block, whichever block is innermost. `EnterLitellm` patches the high-level layer that is installed. One method
name stands for those of each seam, which are patched independently, and a module of functions is a
class without bases. Blocks nest as `with`
statements do. No class is loaded in the middle of entering or leaving. Classes that define their
own `__init_subclass__` without calling the inherited one, and so escape the hook, are not modelled.

Two properties of hierarchies are named, because theorems rest on them and `MCPatching` is checked to have them.
`OneLine`: the classes that a class asks for the method, up to the one that defines it, are asked in the same
order by each of them. Single inheritance gives it; so do several bases if one alone leads to the method.
`EmbeddingsDefine`: embeddings classes find the method in an embeddings class. Without the
first, a class with two bases may resolve to another function after a block than before it: the case is described with `shadow` below.

### Guard and Session

`Guard` keeps what `socket.socket.connect` is: the original, or the hosts that the wrapper in place lets
through. `Block` and `Unblock` are the entry and the exit of `blocked_network`; `connect_ex`, which is treated
alike, is left out.

| Code | Model |
|---|---|
| `--llmtivo`, in `pytest_configure` | `Configure` |
| the fixture up to its `yield`: marker, recorder, guard | `Setup` |
| a call of the test: from the tape or refused, recorded, failed | `Answered`, `Record`, `CallFails` |
| a call in a worker the test does not wait for | `LeaveBehind`, then `LateReply` or `LateFailure` |
| the end of a patched block: `finish`, with the two ends of `compact` | `BlockEnds`, `Replace` |
| a `blocked_network` of the test itself | `OpenGuard`, `CloseGuard` |
| reports of the call phase, in `pytest_runtest_makereport` | `Pass`, `Fail`, `Skip` (a skip or an expected failure); none in `SetupFails`, `Interrupt` |
| the fixture after its `yield` | `Discard`, or `Finish` and `Replace` |
| end or death of the process | `EndSession`, `Kill`, `KillInAppend` |

Every test asks the same questions in every session, so a tape is a set of calls, and the subject of
`Recorder`, other questions and concurrent claims, does not arise. Unlike there, the tape may exist without
a line, and a call may outlast its test. `KillInAppend` leaves the new file of an append without its line.
Three histories, each of a tape since it was last dropped: `owed` are the calls recorded on it, `missing` those that were
made live and have no lasting record (the model failed, has not answered yet, or answered during a compaction), `cut` the tests of which a run
stopped in a way that leaves a part of a tape: before its last call and without a failure report, or by a death, with something
recorded or a call under way; or discarded while a call was under way. None of the three is cleared by the end of a process, so they say what
the tape it left should hold.

### Keys, Codec and Exchange

A call is a record of what an application hands to a client; `Request` is the builder its seam installs,
`Fingerprint` the material that is digested. Texts are a meaning and a layout: runs of white space are what
`_normalize` collapses, except that inside a block of content a line break is an escape of JSON and stays. The prompt of a
LangChain model is a string, a list of messages, or the `PromptValue` of a template (`form`), which the code iterates and so
reads as its fields (`FieldsOf`). A value is a tree of lists, tuples, dictionaries, messages, commands and other objects. `Encode`, `EncodeAny`, `Decode`
and `DecodeAny` are LangChain's functions of those names, `Dump` and `Rebuild` LiteLLM's, `Json` is what `asdict` and
`json.dumps(default=str)` make of the rest. `Exchange` records a call and replays another at its place, in strict mode.
What is put on the tape and comes back are its constants `Encoded` and `Decoded`, which the run gives the operators `ToTape`
and `FromTape` of `Codec`; `Replies` puts the two together. That the builders sort the names of the tools is modelled by
what it does to two lists: they are the same if each name occurs in them equally often. The builders read an entry point
only in some of the forms in which it may be called (a prompt by position for LangChain, by position or as `messages` for
LiteLLM): these are `Readable`, which the calls of `exchange` are checked to be, and `lookalikes` shows what happens outside them.
Schemas of tools, sampling options other than one temperature, and fields of messages are left out.
A model named in a LangChain call, instead of by its instance, is not among the calls.

## The runs

| Run | Instance | Distinct states | Question |
|---|---|---|---|
| `fanout` | 3 callers, 2 questions, 3 calls, 2 runs, 1 fault; record, record_new, replay, off | 2.4 million | does a concurrent run lose, misplace or double an interaction? |
| `repair` | 1 caller, 2 questions, 3 calls, 3 runs, 2 faults; record, replay, replay_or_record | 1.9 million | what is left of a stale tape? |
| `progress` | 2 callers, 2 calls, 2 runs, 1 fault; record_new, replay_or_record | 130 thousand | does every call end? |
| `files` | 2 lines, 4 frames, 3 faults | 57 thousand | what do faults do to the file? |
| `routing` | 1 worker thread, 2 coroutines, 4 calls in progress | 240 thousand | which calls are recorded? |
| `patching` | 6 classes, 3 nested blocks | 610 thousand | what is patched, and restored? |
| `session` | 2 tests of 3 calls, one marked `record`; all modes, 1 call left behind, 2 guards | 1.5 million | what does a test leave behind? |
| `exchange` | 175 calls, each recorded and replayed by each; 765 responses of a tool | 250 thousand | is it the same question, and the same answer? |

`fanout` checks that ordinals are distinct (`DistinctOrdinals`), that an answer in a caller's hand is
on the stored tape (`AnsweredIsTaped`), answers the question asked (`AnswerIsForThisQuestion`) and no
other call (`OneAnswerPerRecording`); that a strict run refuses nothing the tape could answer
(`NoNeedlessRefusal`), serves the recording at a call's place if the run asks what was recorded
(`OrderAddresses`), reports exactly what it did not use (`UnplayedExact`), and neither asks the model
nor writes (`ReplayIsOffline`); that all of a strict run is a behaviour of `Playback` (`ImplementsPlayback`); and that a discarded recording leaves nothing (`DiscardLeavesNothing`).
Three callers with one call each, on a tape three others recorded in any order, are the least that let
one call take the place of a second while a third holds the lock; two questions are what it takes for
a wrong answer, and for equal prompts among three. The second run is the one that replays, a third
would only replay again. `replay_or_record` is not among its modes, because two of its properties do
not hold there: `DistinctOrdinals` (below), and `OneAnswerPerRecording`, of which `ServedOnce` is what remains.

`repair` runs one caller, the setting for which `truncate_from` is meant, three times: record,
change and repair, change and repair again, with two faults anywhere: a crash, or a model, a callback, a delete or a write that fails, inside
a repair too. Exactly the recordings before the
first drift survive (`HeadIsKept`, `StaleTailIsGone`), no recording is served twice (`ServedOnce`), a loss is counted (`NothingDroppedSilently`), and
memory and store agree between calls (`CacheMirrorsStore`). Three calls give a cut a head, a place
and a tail. What a fault changes depends on where it strikes. A callback or a delete that fails ends the call without an answer and
leaves the tape as it was, so that its place is not among those `StaleTailIsGone` speaks of. An append that fails
while the head is being restored ends the call with a part of the head lost: `HeadIsKept` exempts a run that was told so, and `HeadIsCutOnce` says that
what is left of the head is a first part, never one with a hole. A crash inside `truncate_from` may lose
the head, which `HeadIsKept` does not exclude: it speaks of all other states. Two faults let a failed repair be followed by another one.

`progress` assumes weak fairness of each caller's own steps, and of nothing else: the scheduler runs
every thread and the model answers. No fairness makes a test ask, end or fail. Weak fairness
is enough although callers compete for the lock, because each takes a bounded number of turns at it. Two callers and a
failing write under the lock are the case in which one could wait for the other for ever.

`files` allows enough faults for a torn append, a torn compaction and an interruption in one history.
A tape that can be read gives exactly the lines written whole ahead of any torn frame (`GivenIsKept`): nothing else is ever lost, invented or
brought back. `KeepsContract` says that
`FileStore` implements `Tape` under the mapping of a file to its lines and its condition. That an acknowledged line is
among them follows as long as no append was cut short before it.

`routing`: the marker is held by exactly one call or abandoned stream (`MarkerHasOneHolder`), what an
event loop does never lets a worker's call slip past the recorder (`WorkersAreRecorded`), and of the
layers of a call one is recorded, unless a sync generator or another thread is between them
(`LayersRecordedOnce`). Four calls in progress nest two layers in each of two tasks, or four in one.

`patching`: with no block open every class resolves as its source says (`Restored`); blocks leave
what they found (`LeavesAsFound`); no call passes two wrappers (`WrappedOnce`); every embeddings class,
at any depth and loaded at any time, is intercepted (`EmbeddingsIntercepted`). The six classes have
a class that inherits, one that overrides and one that overrides again; with three blocks a refused one can
stand inside two others.

`session`: a tape is whole or absent once its test is over, but for calls the model failed, unless a run of the test was `cut`
(`WholeOrAbsent`); what a test recorded stays on its tape through whatever follows, a kill in any step included, until the test is
re-recorded, or fails having written, except what comes in during a compaction (`NothingOwedIsLost`);
a test reaches the hosts its mode allows and no guard outlives it (`NetworkFollowsTheMode`). Two tests
let a guard or a late call of one meet the other; three calls give a partial tape two lines, which is when it
is compacted.

`exchange`: an answer is served only to a call of the same meaning (`AnswersTheQuestion`; of two templates, the roles may differ), a call of the same meaning is refused
only for the spelling of a role, for the form its prompt has or for line breaks in a block or a template (`NoNeedlessDrift`), and a reply is the live response if and only if that is of a kind that the codecs can rebuild (`RepliesAsLive`, with `Faithful` defined by what a value
is and not by how it is encoded). Commands hold values two levels deep, enough for each of the rules to meet another.

Deadlock is checked in all other runs, where something can always be done. It is
off for `Recorder`, whose runs end; `EveryCallEnds` shows there that no caller waits for ever.
`fanout`, `repair` and `routing` permute callers, questions or tasks, which nothing orders; the other runs use no symmetry.

### Where code and documentation differ

These runs end in a counterexample to a sentence of the repository.

* `fanout_repair`: `truncate_from` takes no lock, and two callers leave two interactions with one ordinal.
* `gather`: in replay, a call made while a patched async stream is open on the same event loop, by another
  task or by the body of the `async for`, is taken for nested and goes to the model. `README.md:37`
  says replay never reaches the network (with the plugin, the guard would stop it).
* `shadow`: leaving a block gives a class that inherited its method one of its own, so that patching
  the base class later does not reach it. `langchain.py:7` says one patch on the base class records
  every provider.
  The same `setattr` has a second effect, the reason for the hypothesis `OneLine` of two theorems. Of a class with the bases
  `Plain` and `Impl`, in that order, let both inherit from one root and `Impl` alone override the method. The class
  resolves to the override; once `Plain` has been patched and restored it resolves to the root's function, for the rest
  of the process. `intercept.py:18` says a patched attribute is restored unconditionally.
* `lookalikes`: `litellm_request` does not read the keyword `input`, so all embeddings through LiteLLM by one model
  have one fingerprint, and replay answers one text with the vector of another. `keys.py:102` says the texts are the question.

Met while modelling. The passing properties state exactly how far the code goes, and each of these is the
reason for one of their conditions:

* A recording made live in `replay_or_record` is not marked served, and answers the next identical prompt of the run as well;
  `recorder.py:94` says a recording answers exactly one call (`ServedOnce`).
* A crash inside `truncate_from`, or an append of it that fails, loses recordings it meant to keep; `cassette.py:98` says a crash keeps
  everything already written (`HeadIsKept`, `HeadIsCutOnce`).
* A delete that fails, or a callback of the application that raises, leaves the stale tail on the tape, to be replayed by the same run and by later
  ones (`StaleTailIsGone`).
* Behind a torn frame an append returns and its line is not on the tape that is read, which comes without an error; `store.py:58`
  calls an append durable (`GivenIsKept` speaks of the lines ahead of a torn frame; the condition *short* of `Tape`).
* Enough bytes behind a torn frame make every line unreadable, also those written long before; so does the beginning of a long line
  (`GivenIsKept`; the condition *damaged* of `Tape`).
* A test that skips or is marked xfail after its first recorded call, whose set-up fails, or that is interrupted or killed, keeps a part
  of a tape, since only a failed call phase discards (`plugin.py:161`); `record_new` then replays it and misses. `recorder.py:354` says a recording that never finished
  leaves nothing behind. The same after a call that outlasts a discarded test, and with a test that survives a failed call
  (`WholeOrAbsent`, which exempts the tests in `cut` and the calls in `missing`).
* What is recorded while `compact` is between its read and its rename is lost; `store.py:74` says it preserves every line (`NothingOwedIsLost`, which
  exempts it).
* A `PromptValue`, which a prompt template hands to a LangChain model, is iterated as if it were a list of messages (`keys.py:69`).
  What comes are its fields: the roles are lost, so that a system message is answered with what a user message of the same text recorded
  (`AnswersTheQuestion`), and the text is digested as JSON, so that wrapping its lines elsewhere is a drift (`NoNeedlessDrift`). `langchain.py:70` names
  it among the three inputs it reduces; `README.md:52` says re-wrapping is not a new question.
* A failed repair deletes a whole tape of earlier runs, if it added to it (`NothingOwedIsLost`).
* `record_new` on an existing cassette replays without the guard (`plugin.py:153`), and leaving a nested guard opens the
  outer one (`guard.py:79`) (`NetworkFollowsTheMode`).
* A message in a list, a command in a container, a tuple and an unknown class do not come back as they were (`RepliesAsLive`). What `asdict` cannot copy, or a dictionary whose keys are
  not strings, makes `to_line` raise after the call was paid for (`cassette.py:59`); the values of `Codec` are those it can dump.
* Roles are compared as they are spelled: a dictionary by "user" and a message object by "human" are two questions;
  `keys.py:64` says "however the caller spelled them" (`NoNeedlessDrift`).

Without a property: `_decide` reports a drift for any interaction at a call's ordinal
without comparing fingerprints (`recorder.py:122`, against `modes.py:55`), which on a tape [P, Q] asked P twice
names a question that did not change. `patched_all` finishes the recorder before it restores
its targets (`intercept.py:237`, against the comment at line 195). A prompt passed by keyword to a LangChain model, and a LiteLLM
model passed by position, lead to fingerprints without the prompt (`langchain.py:79`, `litellm.py:48`), as in `lookalikes`; a list of `(role, text)` tuples loses its roles as a
`PromptValue` does. The fingerprint
does not name the entry point, so what `stream` recorded may be served to `invoke`.

## What is proved

For all values of the constants: any number of callers, tasks, tests or classes, any questions and any bounds. The
assumptions are those the modules name (sentinels are not data, bounds are natural numbers, the modes of runs are modes,
`BoundAssumption` of `Interception`, the shape of `Mro` in `Patching`), and the hypotheses written below, each as an
`ASSUME` of its theorem.

**`RecorderProofs`**, about every mode. `TypeCorrectness`; `OfflineReplay`, a strict run asks no model and changes no
stored tape, whatever its callers do and however it ends; `GenuineAnswers`, every answer given, by any schedule, is the
model's answer to the question asked. The types alone are not inductive, nor do they give the second
theorem: `CallsFit` says which steps a mode allows a caller, and that what a step is about to
use is there; `ReplayRecordsNothing` makes a discard harmless. That answers are genuine needs the same of all they can come
from, the stored tape, the tape in memory, what a truncation has read and the replies about to be recorded
(`AnswersGenuine`); it survives two callers truncating at once, because every step only
moves, copies or drops interactions. That a claim finds what it promises is the lemma `ClaimedAnswers`, over
`FirstIsLeast` of `PositionsProofs`.

**`ReplayProofs`**, first about recorders of which no run is in mode `replay_or_record` (the hypothesis `NoRepair`). This is
not a convenience: with repairs `DistinctOrdinals` is false, as `fanout_repair` shows, `OneAnswerPerRecording` too
(`ServedOnce` is what remains), and the accounts of ordinals and of what is served fall with them. The invariant `RunInv`:

| Part | Says | Needed for |
|---|---|---|
| `Numbered`, `Counted` | the calls in progress and those ended have different numbers, without gaps | all that follows |
| `Taping` | a recording run extends a tape it found empty, under its calls' numbers; what is counted is there | `OrdinalsAreDistinct`, `NoAnswerIsLost`, `DiscardedRunsLeaveNothing` |
| `Fresh` | no response is twice among the tape, the replies in hand and the live answers | `AnswersAreNotShared` |
| `Serving` | what is served is what was given; what a caller to be sent away asked for is all served | `RefusalsAreNeeded`, the refinement |
| `Ordered` | while every call asks what its place holds, served are the places of the calls | `OrderIsAnAddress` |
| `Reported` | `finish` subtracts a length and a cardinality; with distinct ordinals that is the set not served | `UnplayedIsExact` |

`Serving` carries the argument against the gap in `_decide` between the failed claim, which is under the lock, and the look-up, which is
not: a tape in strict mode never changes and `served` only grows, so what was missed stays missed. `ReplayImplementsPlayback` is the
refinement, action by action: the initial state maps to that of `Playback`, a claim to its `Give`, a refusal to its `Refuse`, the
end of a run to its `End`, everything else to no step. `RecordingsAreServedOnce` needs no hypothesis:
in every mode, concurrent repairs included, no recording of an earlier run is served twice. Its invariant
(`OneVersion`, `Spent`) looks at every copy a repair may have made of an interaction, on the tape, in memory, in the
hands of a truncating caller: the copies are equal, and one that was served has its ordinal in `served`.

Then about repairs. `LossesAreReported` (`NothingDroppedSilently`) needs no hypothesis either: whoever starts to truncate
has counted a drift before, and a run without one has nobody inside `truncate_from` and has lost nothing (`Untruncated`).
The rest is about one caller, `OneCaller`, the use `truncate_from` is made for; it takes no lock, and with two truncations
at once not even the ordinals stay distinct (`fanout_repair`). `HeadsAreKept`, `HeadsAreCutOnce`, `StaleTailsAreGone` and
`RepairsKeepOrdinalsDistinct` (`DistinctOrdinals`, which `NoRepair` gave for any number of callers) rest on `OneInv`:

| Part | Says |
|---|---|
| `Placed` | a call in progress is of the open run, and the last that was numbered |
| `Mirrored` | how far the tape in memory is behind the stored one, after each step of a truncation or of a recording |
| `Numerals` | no ordinal is twice on the tape, nor once on the tape and once among what is restored; the place of a live call is free |
| `Origin` | what is on the tape was there when the run began, or has an ordinal the run has given out |
| `StaleHere`, `OldPrior` | a truncation begins at a recording of an earlier run, and no answer in hand is one of those |
| `Heads` | what precedes every repair is on the tape, or among what is about to be restored, unless an append has failed there |
| `HalfDone` | where an append has failed, the run found a recording; no later repair is of an earlier place |
| `Order` | of two recordings that precede every repair, the tape never has the second without the first |
| `Tails` | what does not is on neither |

The delicate step of `Heads` and `Tails` is a call that goes to the model without a truncation (`Extend`), at a place where
the run found a recording: it becomes a place that was repaired without anything being dropped there. It can only happen
behind an earlier drift, which has dropped that recording and all behind it already.

`CacheFollowsStore` (`CacheMirrorsStore`) holds under `NoRepair` or under `OneCaller`: without repairs a recording run loads
no tape and a strict one changes none (`Followed`); with one caller it is `Mirrored` between two calls.

**`FileStoreProofs`**. `TypeCorrectness`, `WrittenLinesAreKept` (`GivenIsKept`), and `FileStoreKeepsContract`,
the refinement: the initial state maps to the initial state of `Tape`, each system call to one of its
steps or to none. The invariant has three parts. `Front`: the lines ahead of the first stop of the file are `given`, readable or
not; a torn frame shields them, because what is appended behind it never changes what is in front (`BeforeExtended`). `Jams`: only a
torn frame jams the decoder. `JobFits`: what a compaction has read is still what the file gives,
and what it is about to rename is that. `JobFits` fails if an append may run beside a compaction, which is why
one operation at a time is assumed, and listed as a hazard; `Session` has compactions that calls overtake.

**`InterceptionProofs`**. `TypesOfCalls`, `MarkersAreGivenBack` (`MarkerHasOneHolder`), `WorkersGoThroughTheRecorder`
(`WorkersAreRecorded`), `LayersAreRecordedOnce` (`LayersRecordedOnce`). One invariant, `MarkInv`, gives all four: what a
frame says of itself (`FrameFits`), that two frames never have one marker (`OneHolder`) and a marked thread has a
frame or an abandoned stream to unmark it (`MarkersHeld`), that under a call no original made there are only streams
between two chunks (`Shape`), and that above the frame that has a thread's marker nothing of that thread is recorded
(`Layers`).

**`PatchingProofs`**. `TypesOfPatching` and `OneWrapperAtMost` (`WrappedOnce`) hold for every hierarchy, by `PatchInv`: what is
patched is so by one open block that has its original noted (`Attributes`, `Undos`), a block being entered knows what is left
to patch (`Entering`), and the hook is that of the innermost block that has set one (`Hooks`).
`NothingLeaks` (`Restored`) and `BlocksLeaveNoTrace` (`LeavesAsFound`) assume `OneLine`, without which they are false (see `shadow` above). They add
`Genuine`, a class resolves to the function its source says whether patched or not, and `Undoable`: what a
class would find *before* a block, if that and all in it were undone, is what the block found. The delicate step
is restoring to a class an attribute it had only inherited, and `OneLine` says the attribute it gets is the one
every class below would find anyway. `EmbeddingsAreSeen` (`EmbeddingsIntercepted`) assumes `EmbeddingsDefine`; it adds how
far the walk over the subclasses has come (`Walk`) and what holds once the hook is set (`Seam`).

**`SessionProofs`**. `TypesOfSessions`, `TapesAreWholeOrAbsent` (`WholeOrAbsent`), `OwedCallsAreKept` (`NothingOwedIsLost`) and
`GuardsEndWithTheirTest` (`NetworkFollowsTheMode`), by `SessionInv`: how stages, outcomes and what is left behind go together
(`Flow`); that the tape, and what a compaction is about to write back, holds what is owed and nothing else (`OwedKept`); how far the tapes
have come (`Sound`); and which guards are open in which stage (`GuardsFit`). A call is covered if it is on the tape or in `missing`. `Sound` says
that a test that may record has covered every call it made (`Covers`), that a tape it has not written to is as whole as it was
found and one that is about to be finished is whole (`Stands`), and that a call left behind can only complete the tape it goes on (`Completes`).

**`ExchangeProofs`**, for prompts, blocks and lists of tools of any length, any answers and any codec. `TypeCorrectness`, for all
calls; `RepliesAnswerTheQuestion` (`AnswersTheQuestion`) and `RefusalsAreMeant` (`NoNeedlessDrift`) for calls that are
`Readable` (the hypothesis `AllReadable`), without which the first is false: `lookalikes` has calls in a form that their builder does not read.
Both go through the meaning of a call: `RequestMeans`, a builder finds the whole of it in a call it can read;
`FingerprintsTell`, equal fingerprints are of equal meanings, or of two templates that differ in roles alone; and `FingerprintsMerge`, equal meanings
have equal fingerprints if the prompts have one form, roles are spelled alike and no line breaks inside of JSON. `FormsTell` keeps the forms apart: no list of
messages is digested like a template.

Only model-checked:

* `EveryCallEnds`: liveness under fairness is out of the prover's reach.
* `RepliesAsLive`, about the codecs: their values are trees and their operators recursive, and the provers
  cannot do induction over data.

## What is not modelled

* What is written on a tape beside fingerprint and response (the request, with its redaction, times, latency),
  report sections and the summary line: nothing the program does depends on them.
* The names of cassettes: two test ids that differ only in unsafe characters share one (`cassette.py:41`), which is
  listed as a hazard; `Session` gives each test its own.
* Other processes on the same cassettes, and power loss.
* `names`, `size_bytes`, `summary`: they only report. `__init__.py` re-exports. `scripts/check_deps.py` is a tool of the
  repository and no part of the program.
