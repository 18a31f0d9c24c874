------------------------------ MODULE Session ------------------------------
(* Test sessions with the pytest plugin, src/llmtivo/plugin.py: the fixture  *)
(* of each test, which opens a recorder in the mode of the session or of the *)
(* test's marker, guards the network, and finishes or discards the tape.     *)
(* Every test asks the same questions in each session, one after another,    *)
(* and may leave one behind in a worker it does not join; what Recorder      *)
(* models, concurrent and changed questions, is left to it.  Of a tape only  *)
(* matters which calls of the test are on it.                                *)
EXTENDS Modes, Guard, Naturals, FiniteSets

CONSTANTS Tests,         \* each with a cassette of its own
          Marker,        \* the mode a test's marker names, or None
          SessionModes,  \* values of --llmtivo
          AllowedHosts,  \* value of --llmtivo-allowed-hosts
          Calls,         \* how many calls a test makes
          MaxLate,       \* calls left behind at a time
          MaxGuards,     \* blocked_network blocks open at a time
          Absent,        \* a cassette that does not exist
          None

ASSUME TestsAssumption ==
    /\ None \notin Tests \cup Modes
    /\ Marker \in [Tests -> Modes \cup {None}]
    /\ SessionModes \subseteq Modes /\ AllowedHosts \subseteq Hosts

ASSUME SizesAssumption ==
    /\ Calls \in Nat /\ MaxLate \in Nat /\ MaxGuards \in Nat
    /\ \A s \in SUBSET (1..Calls) : s # Absent

VARIABLES
    option,   \* the mode of the session, or None between sessions
    todo,     \* tests the session has still to run
    tape,     \* the calls on each cassette, or Absent
    run,      \* the test that is run, or was run last
    held,     \* what a compaction of its tape has read, or Absent
    late,     \* calls left behind, with their test
    \* Histories, each of a tape since it was last dropped:
    owed,     \* the calls that were recorded
    missing,  \* the calls made live and not recorded, because the model failed
              \* or has not answered yet, or recorded during a compaction
    cut       \* the tests whose run was cut short in a way that leaves a part of
              \* a tape (CutShort, Discard, Dying)

session == <<option, todo>>
history == <<owed, missing, cut>>
vars == <<session, guardVars, tape, run, held, late, history>>

\* outcome is rep_call, the report of the call phase; mode the effective mode;
\* made counts the calls so far; wrote whether the recorder recorded any.
Run == [test : Tests \cup {None}, mode : Modes \ {"record_new"},
        stage : {"idle", "setup", "call", "done", "compacting", "over"},
        outcome : {"none", "passed", "failed", "skipped"},
        made : 0..Calls, wrote : BOOLEAN]

NoRun == [test |-> None, mode |-> "off", stage |-> "idle",
          outcome |-> "none", made |-> 0, wrote |-> FALSE]

Tape == {Absent} \cup SUBSET (1..Calls)

TypeOK ==
    /\ option \in SessionModes \cup {None} /\ todo \subseteq Tests
    /\ tape \in [Tests -> Tape] /\ run \in Run /\ held \in Tape
    /\ late \subseteq Tests \X (1..Calls)
    /\ owed \in [Tests -> SUBSET (1..Calls)] /\ missing \in [Tests -> SUBSET (1..Calls)]
    /\ cut \subseteq Tests
    /\ GuardTypeOK

Init ==
    /\ option = None /\ todo = {}
    /\ tape = [t \in Tests |-> Absent] /\ run = NoRun
    /\ held = Absent /\ late = {}
    /\ owed = [t \in Tests |-> {}] /\ missing = [t \in Tests |-> {}] /\ cut = {}
    /\ GuardInit

-----------------------------------------------------------------------------
(* Set-up *)

CallsOn(t) == IF tape[t] = Absent THEN {} ELSE tape[t]

Configure(m) ==
    /\ option = None
    /\ option' = m /\ todo' = Tests
    /\ UNCHANGED <<guardVars, tape, run, held, late, history>>

\* The marker of a test overrides the option.
Requested(t) == IF Marker[t] # None THEN Marker[t] ELSE option

\* The guard follows the mode requested, not what it resolves to.
Guarded(t) == Strict(Requested(t))

\* The fixture opens a recorder, which drops the tape if it re-records, and
\* then the guard.
Setup(t) ==
    LET mode == Resolve(Requested(t), tape[t] # Absent)
    IN  /\ run.stage \in {"idle", "over"} /\ t \in todo
        /\ todo' = todo \ {t}
        /\ run' = [NoRun EXCEPT !.test = t, !.stage = "setup", !.mode = mode]
        /\ IF mode = "record"
           THEN /\ tape' = [tape EXCEPT ![t] = Absent]
                /\ owed' = [owed EXCEPT ![t] = {}]
                /\ missing' = [missing EXCEPT ![t] = {}]
                /\ cut' = cut \ {t}
           ELSE UNCHANGED <<tape, history>>
        /\ IF Guarded(t) THEN Block(AllowedHosts) ELSE UNCHANGED guardVars
        /\ UNCHANGED <<option, held, late>>

-----------------------------------------------------------------------------
(* The test, and the fixtures it is set up with *)

InBody == run.stage \in {"setup", "call"} /\ held = Absent

\* The test makes its next call.
Call(recorded) == InBody /\ run.made < Calls
                  /\ run' = [run EXCEPT !.made = @ + 1, !.wrote = @ \/ recorded]

NextCallSkipping == run.made + 2

NextCall == run.made + 1

GoesLive(t, n) ==
    /\ run.mode \in {"record", "replay_or_record"}
    /\ MayReplay(run.mode) => n \notin CallsOn(t)

\* A call is answered from the tape, or in mode OFF by the model alone; or it
\* is refused, which the test may or may not survive.
Answered ==
    /\ Call(FALSE) /\ ~GoesLive(run.test, NextCall)
    /\ UNCHANGED <<session, guardVars, tape, held, late, history>>

Tapes(t, n) == tape' = [tape EXCEPT ![t] = CallsOn(t) \cup {n}]

Owes(t, n) == owed' = [owed EXCEPT ![t] = @ \cup {n}]

Lacks(t, n) == missing' = [missing EXCEPT ![t] = @ \cup {n}]

\* A call is recorded, once the model has answered it.
Record ==
    /\ Call(TRUE) /\ GoesLive(run.test, NextCall)
    /\ Tapes(run.test, NextCall) /\ Owes(run.test, NextCall)
    /\ missing' = [missing EXCEPT ![run.test] = @ \ {NextCall}]
    /\ UNCHANGED <<session, guardVars, held, late, cut>>

\* The model fails, and the test goes on.
CallFails ==
    /\ Call(FALSE) /\ GoesLive(run.test, NextCall)
    /\ Lacks(run.test, NextCall)
    /\ UNCHANGED <<session, guardVars, tape, held, late, owed, cut>>

\* The call is made by a worker that the test does not wait for.
LeaveBehind ==
    /\ Call(FALSE) /\ GoesLive(run.test, NextCall)
    /\ Cardinality(late) < MaxLate
    /\ late' = late \cup {<<run.test, NextCall>>}
    /\ Lacks(run.test, NextCall)
    /\ UNCHANGED <<session, guardVars, tape, held, owed, cut>>

\* Whenever its answer comes it goes on the tape, whatever became of that; a
\* compaction that has read the tape before will take it off again.
LateReply(t, n) ==
    /\ <<t, n>> \in late
    /\ late' = late \ {<<t, n>>}
    /\ Tapes(t, n) /\ Owes(t, n)
    /\ IF held # Absent /\ t = run.test THEN UNCHANGED missing
       ELSE missing' = [missing EXCEPT ![t] = @ \ {n}]
    /\ run' = [run EXCEPT !.wrote = @ \/ t = run.test]
    /\ UNCHANGED <<session, guardVars, held, cut>>

LateFailure(t, n) ==
    /\ <<t, n>> \in late
    /\ late' = late \ {<<t, n>>}
    /\ UNCHANGED <<session, guardVars, tape, run, held, history>>

\* A patched block inside the test ends: its finish compacts the tape, which
\* reads it here and replaces it in Replace.
Compactable == run.wrote /\ Cardinality(CallsOn(run.test)) >= 2

BlockEnds ==
    /\ InBody /\ Compactable
    /\ held' = tape[run.test]
    /\ UNCHANGED <<session, guardVars, tape, run, late, history>>

Replace ==
    /\ held # Absent
    /\ tape' = [tape EXCEPT ![run.test] = held]
    /\ held' = Absent
    /\ run' = [run EXCEPT !.stage = IF @ = "compacting" THEN "over" ELSE @]
    /\ UNCHANGED <<session, guardVars, late, history>>

\* The test guards a part of itself.
OwnGuards == IF Guarded(run.test) THEN 1 ELSE 0

OpenGuard ==
    /\ InBody /\ Len(guards) < MaxGuards
    /\ Block({})
    /\ UNCHANGED <<session, tape, run, held, late, history>>

CloseGuard ==
    /\ InBody /\ Len(guards) > OwnGuards
    /\ Unblock
    /\ UNCHANGED <<session, tape, run, held, late, history>>

-----------------------------------------------------------------------------
(* The phases of a test.  Only the report of the call phase is looked at.    *)

Phase(from, to, outcome) ==
    /\ InBody /\ Len(guards) = OwnGuards
    /\ run.stage \in from
    /\ run' = [run EXCEPT !.stage = to, !.outcome = outcome]
    /\ UNCHANGED <<option, guardVars, tape, held, late, owed, missing>>

LeftBehind(t) == \E l \in late : l[1] = t

\* A test that ends before its last call leaves a part of a tape if it has some
\* of it recorded and will not be discarded, or a call under way.
CutShort(recorded) ==
    cut' = cut \cup {t \in {run.test} : run.made < Calls /\ (recorded \/ LeftBehind(t))}

Records(mode) == mode \in {"record", "replay_or_record"}

StartCall == Phase({"setup"}, "call", "none") /\ UNCHANGED <<todo, cut>>

\* A test that may record and makes every call leaves no part.
Pass ==
    /\ run.made = Calls /\ Phase({"call"}, "done", "passed")
    /\ cut' = IF Records(run.mode) THEN cut \ {run.test} ELSE cut
    /\ UNCHANGED todo

Fail == Phase({"call"}, "done", "failed") /\ CutShort(FALSE) /\ UNCHANGED todo

\* The body skips, or fails as the test is marked to: neither is a failure.
Skip == Phase({"call"}, "done", "skipped") /\ CutShort(run.wrote) /\ UNCHANGED todo

\* Another fixture fails or skips, after the recorder was opened.
SetupFails == Phase({"setup"}, "done", "none") /\ CutShort(run.wrote) /\ UNCHANGED todo

\* Ctrl-C: fixtures are torn down, without a report, and no further test runs.
Interrupt == Phase({"setup", "call"}, "done", "none") /\ CutShort(run.wrote) /\ todo' = {}

-----------------------------------------------------------------------------
(* Tear-down: the guard ends, then the tape is discarded or finished *)

DiscardsUnreported == run.outcome = "none" /\ run.wrote

Discards == run.outcome = "failed" /\ run.wrote

EndGuard == IF Guarded(run.test) THEN Unblock ELSE UNCHANGED guardVars

\* Nothing is owed of a run that wrote and failed; what it left behind may be
\* all that will be on the tape.
Discard ==
    /\ run.stage = "done" /\ Discards
    /\ EndGuard
    /\ tape' = [tape EXCEPT ![run.test] = Absent]
    /\ run' = [run EXCEPT !.stage = "over"]
    /\ owed' = [owed EXCEPT ![run.test] = IF run.outcome = "failed" /\ run.wrote THEN {} ELSE @]
    /\ missing' = [missing EXCEPT ![run.test] = {n \in @ : <<run.test, n>> \in late}]
    /\ cut' = IF LeftBehind(run.test) THEN cut \cup {run.test} ELSE cut \ {run.test}
    /\ UNCHANGED <<session, held, late>>

Finish ==
    /\ run.stage = "done" /\ ~Discards
    /\ EndGuard
    /\ held' = IF Compactable THEN tape[run.test] ELSE Absent
    /\ run' = [run EXCEPT !.stage = IF Compactable THEN "compacting" ELSE "over"]
    /\ UNCHANGED <<session, tape, late, history>>

-----------------------------------------------------------------------------
(* The session ends, or its process dies: in an append, it may leave a file  *)
(* without a line, which exists.                                             *)

InProgress == run.stage \notin {"idle", "over"}

ProcessEnds ==
    /\ option # None
    /\ option' = None /\ todo' = {} /\ run' = NoRun
    /\ held' = Absent /\ late' = {}
    /\ connect' = Original /\ guards' = <<>> /\ reopened' = FALSE
    /\ UNCHANGED <<owed, missing>>

EndSession == ~InProgress /\ ProcessEnds /\ UNCHANGED <<tape, cut>>

\* A death in a test that has not made its last call, with a part of it recorded
\* or a file made.
Dying(appending) ==
    cut' = cut \cup {t \in {run.test} :
                        InProgress /\ run.made < Calls /\ (run.wrote \/ t \in appending)}

\* A plausible slip: the compaction writes over the tape itself.
KillInPlace ==
    /\ ProcessEnds /\ Dying({})
    /\ tape' = IF held = Absent THEN tape ELSE [tape EXCEPT ![run.test] = {}]

Kill == ProcessEnds /\ tape' = tape /\ Dying({})

KillInAppend(t) ==
    /\ \/ t = run.test /\ InBody /\ run.made < Calls /\ GoesLive(t, NextCall)
       \/ LeftBehind(t)
    /\ ProcessEnds /\ Dying({t})
    /\ tape' = [tape EXCEPT ![t] = CallsOn(t)]

-----------------------------------------------------------------------------

Next ==
    \/ \E m \in SessionModes : Configure(m)
    \/ \E t \in Tests : Setup(t) \/ KillInAppend(t)
    \/ Answered \/ Record \/ CallFails \/ LeaveBehind
    \/ \E t \in Tests, n \in 1..Calls : LateReply(t, n) \/ LateFailure(t, n)
    \/ BlockEnds \/ Replace \/ OpenGuard \/ CloseGuard
    \/ StartCall \/ Pass \/ Fail \/ Skip \/ SetupFails \/ Interrupt
    \/ Discard \/ Finish
    \/ EndSession \/ Kill

Spec == Init /\ [][Next]_vars

-----------------------------------------------------------------------------
(* Properties *)

\* No session leaves a tape that lacks a call, apart from the calls the model
\* failed or had not answered and those a compaction took off, unless a run of
\* that test stopped before its last call without being reported as failed, or
\* was discarded with a call under way: whatever else happened to it, in this
\* session or before, the tape is whole or there is none (the tear-down of the
\* fixture).
WholeOrAbsent ==
    \A t \in Tests \ cut :
        ~(t = run.test /\ InProgress) =>
            tape[t] = Absent \/ CallsOn(t) \cup missing[t] = 1..Calls

\* What a test recorded stays on its tape whatever becomes of the test, of the
\* process or of later sessions, and nothing else is on it: only a re-recording
\* and the failure of a run that wrote drop it, and only what comes in during a
\* compaction can be lost.
NothingOwedIsLost ==
    \A t \in Tests : owed[t] \ missing[t] \subseteq CallsOn(t) /\ CallsOn(t) \subseteq owed[t]

\* While the body of a test that asked to replay runs, it reaches the allowed
\* hosts and no other, until it leaves a guard of its own; and no guard of one
\* test, however that ended, holds in another or between tests.
NetworkFollowsTheMode ==
    LET body == run.stage \in {"setup", "call"}
    IN  /\ body /\ Strict(Requested(run.test)) /\ ~reopened =>
              \A host \in Hosts : Reaches(host) => host \in Loopback \cup AllowedHosts
        /\ ~InProgress \/ (body /\ guards = <<>>) =>
              \A host \in Hosts : Reaches(host)

=============================================================================
