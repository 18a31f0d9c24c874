---------------------------- MODULE SessionProofs ----------------------------
(* Theorems about Session, for any tests, markers, modes, hosts and numbers  *)
(* of calls.                                                                 *)
EXTENDS Session, TLAPS

(* The inductive invariant, in parts. *)

InTest == run.stage \in {"setup", "call"}

\* How the stages of a test, its session and what it leaves behind go together.
Flow ==
    /\ run.stage = "idle" <=> run.test = None
    /\ option = None => todo = {} /\ late = {} /\ run.stage = "idle"
    /\ run.test \notin todo
    /\ held # Absent => InTest \/ run.stage = "compacting"
    /\ InTest => run.outcome = "none"
    /\ \A l \in late :
          /\ l[1] \notin todo /\ l[2] \in missing[l[1]]
          /\ l[1] = run.test /\ InTest => l[2] <= run.made

\* What a compaction writes back holds what is owed.
OwedKept ==
    /\ NothingOwedIsLost
    /\ held # Absent =>
           owed[run.test] \ missing[run.test] \subseteq held /\ held \subseteq owed[run.test]

Covered(t) == CallsOn(t) \cup missing[t]

Whole(t) == tape[t] = Absent \/ Covered(t) = 1..Calls

\* Where the tapes stand: a test that may record has every call it made covered;
\* one that has not written leaves its tape as whole as it was; a call that is
\* left behind, once the body is over, completes what it goes on.
Covers == InProgress /\ Records(run.mode) => 1..run.made \subseteq Covered(run.test)

Stands ==
    /\ InTest /\ run.test \notin cut /\ ~run.wrote => Whole(run.test)
    /\ run.stage = "done" /\ run.test \notin cut => Whole(run.test) \/ Discards
    /\ run.stage = "compacting" /\ run.test \notin cut => Whole(run.test)

Completes ==
    \A t \in Tests \ cut :
        LeftBehind(t) /\ ~(t = run.test /\ InTest) => Covered(t) = 1..Calls

Sound ==
    /\ WholeOrAbsent /\ Covers /\ Stands /\ Completes
    /\ ~Records(run.mode) => ~run.wrote /\ ~LeftBehind(run.test)
    /\ held # Absent =>
           tape[run.test] # Absent /\ held \cup missing[run.test] = Covered(run.test)

\* The guards that are open, and what the wrapper in place lets through.
GuardsFit ==
    /\ guards = <<>> => connect = Original
    /\ guards # <<>> /\ ~reopened => connect # Original /\ connect \subseteq Loopback \cup AllowedHosts
    /\ ~InProgress \/ run.stage = "compacting" => guards = <<>>
    /\ InTest => Len(guards) >= OwnGuards
    /\ run.stage = "done" => Len(guards) = OwnGuards

SessionInv == TypeOK /\ Flow /\ OwedKept /\ Sound /\ GuardsFit

-----------------------------------------------------------------------------
(* Type correctness *)

\* The mode of a test's recorder is one that Run knows.
LEMMA ModeOfTest ==
    ASSUME TypeOK, Flow, NEW t \in Tests, t \in todo
    PROVE  /\ Requested(t) \in Modes
           /\ Resolve(Requested(t), tape[t] # Absent) \in Modes \ {"record_new"}
<1>1. option \in SessionModes
  BY DEF TypeOK, Flow
<1>2. Requested(t) \in Modes
  BY <1>1, TestsAssumption DEF Requested
<1> QED BY <1>2 DEF Resolve, Modes

\* What a test has on its cassette are calls.
LEMMA CallsTyped ==
    ASSUME TypeOK, NEW t \in Tests
    PROVE  CallsOn(t) \subseteq 1..Calls
BY DEF TypeOK, Tape, CallsOn

\* A test that is run makes calls it may make.
LEMMA InBodyTyped ==
    ASSUME TypeOK, Flow, InBody
    PROVE  run.test \in Tests /\ run.mode \in Modes /\ run \in Run
BY DEF TypeOK, Flow, InBody, Run

\* Opening a guard, closing one, closing them all and closing none.
LEMMA GuardsTyped ==
    ASSUME GuardTypeOK,
           \/ \E allowed \in SUBSET Hosts : Block(allowed)
           \/ Unblock
           \/ connect' = Original /\ guards' = <<>> /\ reopened' = FALSE
           \/ UNCHANGED guardVars
    PROVE  GuardTypeOK'
<1> USE HostsAssumption DEF GuardTypeOK
<1>1. ASSUME NEW allowed \in SUBSET Hosts, Block(allowed) PROVE GuardTypeOK'
  <2>1. Loopback \cup allowed \in SUBSET Hosts
    OBVIOUS
  <2>2. guards' \in Seq(SUBSET Hosts)
    BY <1>1, <2>1 DEF Block
  <2> QED BY <1>1, <2>1, <2>2 DEF Block
<1>2. CASE Unblock
  <2>1. SubSeq(guards, 1, Len(guards) - 1) \in Seq(SUBSET Hosts)
    OBVIOUS
  <2>2. reopened' \in BOOLEAN
    BY <1>2 DEF Unblock
  <2> QED BY <1>2, <2>1, <2>2 DEF Unblock
<1>3. CASE connect' = Original /\ guards' = <<>> /\ reopened' = FALSE
  <2>1. <<>> \in Seq(SUBSET Hosts)
    OBVIOUS
  <2> QED BY <1>3, <2>1
<1>4. CASE UNCHANGED guardVars
  BY <1>4 DEF guardVars
<1> QED BY <1>1, <1>2, <1>3, <1>4

\* Every step keeps the types.
LEMMA TypeStep ==
    ASSUME TypeOK, Flow, [Next]_vars
    PROVE  TypeOK'
<1> USE TestsAssumption, SizesAssumption, HostsAssumption
<1>0. run \in Run /\ tape \in [Tests -> Tape] /\ {} \in Tape /\ Absent \in Tape
  BY DEF TypeOK, Tape
<1>1. ASSUME NEW m \in SessionModes, Configure(m) PROVE TypeOK'
  BY <1>1 DEF Configure, TypeOK, GuardTypeOK, guardVars, history
<1>2. ASSUME NEW t \in Tests, Setup(t) PROVE TypeOK'
  <2> DEFINE mode == Resolve(Requested(t), tape[t] # Absent)
             begun == [NoRun EXCEPT !.test = t, !.stage = "setup", !.mode = mode]
  <2>1. mode \in Modes \ {"record_new"}
    BY <1>2, ModeOfTest DEF Setup
  <2> HIDE DEF mode
  <2>2. begun \in Run
    <3>1. NoRun \in [test : Tests \cup {None}, mode : Modes, stage : {"idle"},
                     outcome : {"none"}, made : {0}, wrote : {FALSE}]
      BY DEF NoRun, Modes
    <3>2. 0 \in 0..Calls
      OBVIOUS
    <3> QED BY <2>1, <3>1, <3>2 DEF Run
  <2>3. /\ run' = begun /\ todo' = todo \ {t} /\ UNCHANGED <<option, held, late>>
        /\ tape' \in {tape, [tape EXCEPT ![t] = Absent]}
        /\ owed' \in {owed, [owed EXCEPT ![t] = {}]}
        /\ missing' \in {missing, [missing EXCEPT ![t] = {}]}
        /\ cut' \in {cut, cut \ {t}}
    BY <1>2 DEF Setup, mode, history
  <2>4. GuardTypeOK'
    <3>1. Block(AllowedHosts) \/ UNCHANGED guardVars
      BY <1>2 DEF Setup
    <3>2. AllowedHosts \in SUBSET Hosts /\ GuardTypeOK
      BY DEF TypeOK
    <3> QED BY <3>1, <3>2, GuardsTyped
  <2>5. /\ tape' \in [Tests -> Tape] /\ owed' \in [Tests -> SUBSET (1..Calls)]
        /\ missing' \in [Tests -> SUBSET (1..Calls)] /\ cut' \subseteq Tests
    BY <1>0, <2>3 DEF TypeOK
  <2> QED BY <2>2, <2>3, <2>4, <2>5 DEF TypeOK
<1>3. ASSUME Answered \/ Record \/ CallFails \/ LeaveBehind PROVE TypeOK'
  <2>1. PICK recorded \in BOOLEAN : Call(recorded)
    BY <1>3 DEF Answered, Record, CallFails, LeaveBehind
  <2>2. /\ run.test \in Tests /\ NextCall \in 1..Calls /\ NextCall \in 0..Calls
        /\ <<run.test, NextCall>> \in Tests \X (1..Calls)
    BY <2>1, InBodyTyped DEF Call, NextCall, Run
  <2>5. run' \in Run
    BY <1>0, <2>1, <2>2 DEF Call, NextCall, Run
  <2>3. tape' \in [Tests -> Tape]
    <3>1. CallsOn(run.test) \cup {NextCall} \in Tape
      BY <2>2, CallsTyped DEF Tape
    <3> QED BY <1>0, <1>3, <3>1 DEF Answered, Record, CallFails, LeaveBehind, Tapes
  <2>4. late' \subseteq Tests \X (1..Calls)
    <3> HIDE DEF NextCall
    <3> QED BY <1>3, <2>2 DEF Answered, Record, CallFails, LeaveBehind, TypeOK
  <2>6. owed' \in [Tests -> SUBSET (1..Calls)] /\ missing' \in [Tests -> SUBSET (1..Calls)]
    <3> DEFINE n == NextCall
    <3>1. n \in 1..Calls
      BY <2>2
    <3>2. \/ UNCHANGED <<owed, missing>>
          \/ Owes(run.test, n) /\ missing' = [missing EXCEPT ![run.test] = @ \ {n}]
          \/ owed' = owed /\ Lacks(run.test, n)
      BY <1>3 DEF Answered, Record, CallFails, LeaveBehind, history
    <3> HIDE DEF n
    <3> QED BY <2>2, <3>1, <3>2 DEF Owes, Lacks, TypeOK
  <2>7. cut' = cut
    BY <1>3 DEF Answered, Record, CallFails, LeaveBehind, history
  <2> QED BY <1>3, <2>3, <2>4, <2>5, <2>6, <2>7
          DEF Answered, Record, CallFails, LeaveBehind, TypeOK, GuardTypeOK, session, guardVars
<1>4. ASSUME NEW t \in Tests, NEW n \in 1..Calls, LateReply(t, n) \/ LateFailure(t, n)
      PROVE  TypeOK'
  <2>1. CallsOn(t) \cup {n} \in Tape
    BY CallsTyped DEF Tape
  <2>2. tape' \in [Tests -> Tape]
    BY <1>0, <1>4, <2>1 DEF LateReply, LateFailure, Tapes
  <2>4. owed' \in [Tests -> SUBSET (1..Calls)] /\ missing' \in [Tests -> SUBSET (1..Calls)]
    BY <1>4 DEF LateReply, LateFailure, Owes, TypeOK, history
  <2>3. run' \in Run
    BY <1>0, <1>4 DEF LateReply, LateFailure, Run
  <2> QED BY <1>4, <2>2, <2>3, <2>4
          DEF LateReply, LateFailure, TypeOK, GuardTypeOK, session, guardVars, history
<1>5. ASSUME BlockEnds \/ Replace PROVE TypeOK'
  <2>1. run' \in Run
    BY <1>0, <1>5 DEF BlockEnds, Replace, Run
  <2>2. held' \in Tape /\ tape' \in [Tests -> Tape]
    BY <1>0, <1>5, InBodyTyped DEF BlockEnds, Replace, TypeOK
  <2> QED BY <1>5, <2>1, <2>2
          DEF BlockEnds, Replace, TypeOK, GuardTypeOK, session, guardVars, history
<1>6. ASSUME OpenGuard \/ CloseGuard PROVE TypeOK'
  <2>1. Block({}) \/ Unblock
    BY <1>6 DEF OpenGuard, CloseGuard
  <2>2. GuardTypeOK'
    BY <2>1, GuardsTyped DEF TypeOK
  <2> QED BY <1>6, <2>2 DEF OpenGuard, CloseGuard, TypeOK, session, history
<1>7. ASSUME NEW from, NEW to \in {"call", "done"},
             NEW outcome \in {"none", "passed", "failed", "skipped"},
             Phase(from, to, outcome), todo' \subseteq todo, cut' \subseteq cut \cup {run.test}
      PROVE  TypeOK'
  <2>1. run' \in Run /\ run.test \in Tests
    BY <1>0, <1>7, InBodyTyped DEF Phase, Run
  <2> QED BY <1>7, <2>1 DEF Phase, TypeOK, GuardTypeOK, guardVars
<1>8. ASSUME StartCall \/ Pass \/ Fail \/ Skip \/ SetupFails \/ Interrupt PROVE TypeOK'
  <2>1. ASSUME NEW recorded, CutShort(recorded) PROVE cut' \subseteq cut \cup {run.test}
    BY <2>1 DEF CutShort
  <2>2. CASE StartCall
    BY <1>7, <2>2 DEF StartCall
  <2>3. CASE Pass
    BY <1>7, <2>3 DEF Pass
  <2>4. CASE Fail \/ Skip
    BY <1>7, <2>1, <2>4 DEF Fail, Skip
  <2>5. CASE SetupFails \/ Interrupt
    BY <1>7, <2>1, <2>5 DEF SetupFails, Interrupt
  <2> QED BY <1>8, <2>2, <2>3, <2>4, <2>5
<1>9. ASSUME Discard \/ Finish PROVE TypeOK'
  <2>1. GuardTypeOK'
    <3>1. Unblock \/ UNCHANGED guardVars
      BY <1>9 DEF Discard, Finish, EndGuard
    <3> QED BY <3>1, GuardsTyped DEF TypeOK
  <2>2. run' \in Run /\ tape' \in [Tests -> Tape] /\ held' \in Tape
    <3>1. run' \in Run
      BY <1>0, <1>9 DEF Discard, Finish, Run
    <3>2. tape' \in [Tests -> Tape]
      BY <1>0, <1>9 DEF Discard, Finish
    <3>3. run.stage = "done" => run.test \in Tests
      BY DEF TypeOK, Flow, Run
    <3>4. held' \in Tape
      BY <1>0, <1>9, <3>3 DEF Discard, Finish, TypeOK
    <3> QED BY <3>1, <3>2, <3>4
  <2>3. /\ owed' \in [Tests -> SUBSET (1..Calls)] /\ missing' \in [Tests -> SUBSET (1..Calls)]
        /\ cut' \subseteq Tests
    <3>1. run.stage = "done" => run.test \in Tests
      BY DEF TypeOK, Flow, Run
    <3>2. owed' \in [Tests -> SUBSET (1..Calls)]
      BY <1>9, <3>1 DEF Discard, Finish, TypeOK, history
    <3>3. missing' \in [Tests -> SUBSET (1..Calls)]
      <4>1. /\ missing \in [Tests -> SUBSET (1..Calls)]
            /\ \/ missing' = missing
               \/ missing' = [missing EXCEPT ![run.test] = {n \in @ : <<run.test, n>> \in late}]
        BY <1>9 DEF Discard, Finish, TypeOK, history
      <4> QED BY <4>1
    <3>4. cut' \subseteq Tests
      BY <1>9, <3>1 DEF Discard, Finish, TypeOK, history
    <3> QED BY <3>2, <3>3, <3>4
  <2> QED BY <1>9, <2>1, <2>2, <2>3 DEF Discard, Finish, TypeOK, session
<1>10. ASSUME ProcessEnds, tape' \in [Tests -> Tape], cut' \subseteq Tests PROVE TypeOK'
  <2>1. NoRun \in Run
    BY DEF NoRun, Run, Modes
  <2>2. GuardTypeOK'
    BY <1>10, GuardsTyped DEF ProcessEnds, TypeOK
  <2> QED BY <1>0, <1>10, <2>1, <2>2 DEF ProcessEnds, TypeOK
<1>11. ASSUME EndSession \/ Kill \/ \E t \in Tests : KillInAppend(t) PROVE TypeOK'
  <2>1. ASSUME NEW appending, Dying(appending) PROVE cut' \subseteq Tests
    <3>1. InProgress => run.test \in Tests
      BY DEF InProgress, TypeOK, Flow, Run
    <3> QED BY <2>1, <3>1 DEF Dying, TypeOK
  <2>2. ASSUME NEW t \in Tests, KillInAppend(t) PROVE tape' \in [Tests -> Tape]
    <3>1. CallsOn(t) \in Tape
      BY CallsTyped DEF Tape
    <3> QED BY <1>0, <2>2, <3>1 DEF KillInAppend
  <2> QED BY <1>0, <1>10, <1>11, <2>1, <2>2 DEF EndSession, Kill, KillInAppend, TypeOK
<1>12. CASE UNCHANGED vars
  BY <1>12 DEF vars, session, history, guardVars, TypeOK, GuardTypeOK
<1> QED BY <1>1, <1>2, <1>3, <1>4, <1>5, <1>6, <1>8, <1>9, <1>10, <1>11, <1>12 DEF Next

-----------------------------------------------------------------------------
(* How the stages of a test go together *)

\* A call leaves the test, its mode and its stage as they are.
LEMMA CallKeeps ==
    ASSUME TypeOK, Flow, NEW recorded \in BOOLEAN, Call(recorded)
    PROVE  /\ run'.test = run.test /\ run'.mode = run.mode /\ run'.stage = run.stage
           /\ run'.outcome = run.outcome /\ run'.made = run.made + 1
           /\ run'.wrote = (run.wrote \/ recorded)
           /\ run.test \in Tests /\ InTest /\ held = Absent
           /\ run.made \in 0..Calls /\ run.made < Calls
<1>1. run \in Run
  BY DEF TypeOK
<1>2. run.test \in Tests
  BY InBodyTyped DEF Call
<1>3. run' = [run EXCEPT !.made = @ + 1, !.wrote = @ \/ recorded]
  BY DEF Call
<1> QED BY <1>1, <1>2, <1>3 DEF Call, Run, InBody, InTest

\* A phase that begins leaves the test, its mode and its calls as they are.
LEMMA PhaseKeeps ==
    ASSUME TypeOK, Flow, NEW from, NEW to, NEW outcome, Phase(from, to, outcome)
    PROVE  /\ run'.test = run.test /\ run'.mode = run.mode /\ run'.stage = to
           /\ run'.outcome = outcome /\ run'.made = run.made /\ run'.wrote = run.wrote
           /\ run.test \in Tests /\ InTest /\ held = Absent
           /\ run.made \in 0..Calls /\ run.wrote \in BOOLEAN
<1>1. run \in Run /\ run.test \in Tests
  BY InBodyTyped DEF Phase, TypeOK
<1> QED BY <1>1 DEF Phase, Run, InBody, InTest

\* Every step keeps Flow.
LEMMA FlowStep ==
    ASSUME TypeOK, Flow, [Next]_vars
    PROVE  Flow'
<1> USE TestsAssumption
<1>0. run \in Run /\ late \subseteq Tests \X (1..Calls) /\ None \notin SessionModes
  BY DEF TypeOK
<1>1. ASSUME NEW m \in SessionModes, Configure(m) PROVE Flow'
  BY <1>0, <1>1 DEF Configure, Flow, InTest, Run, history
<1>2. ASSUME NEW t \in Tests, Setup(t) PROVE Flow'
  <2>1. /\ run'.test = t /\ run'.stage = "setup" /\ run'.outcome = "none"
        /\ t \in todo /\ todo' = todo \ {t} /\ UNCHANGED <<option, held, late>>
        /\ run.stage \in {"idle", "over"}
        /\ missing' = missing \/ missing' = [missing EXCEPT ![t] = {}]
    BY <1>2 DEF Setup, NoRun, history
  <2>2. held = Absent /\ option # None
    BY <2>1 DEF Flow, InTest
  <2>3. \A l \in late : l[1] # t /\ missing'[l[1]] = missing[l[1]]
    BY <1>0, <2>1 DEF Flow, TypeOK
  <2> QED BY <2>1, <2>2, <2>3 DEF Flow, InTest
<1>3. ASSUME Answered \/ Record \/ CallFails \/ LeaveBehind PROVE Flow'
  <2>1. PICK recorded \in BOOLEAN : Call(recorded)
    BY <1>3 DEF Answered, Record, CallFails, LeaveBehind
  <2>2. /\ run'.test = run.test /\ run'.stage = run.stage /\ run'.outcome = run.outcome
        /\ run'.made = run.made + 1 /\ run.made \in 0..Calls /\ held = Absent /\ InTest
    BY <2>1, CallKeeps
  <2>3. UNCHANGED <<option, todo, held>>
    BY <1>3 DEF Answered, Record, CallFails, LeaveBehind, session
  <2>4. run.test \in Tests /\ run.test \notin todo
    BY <2>1, CallKeeps DEF Flow
  <2> DEFINE n == NextCall
  <2>5. n = run.made + 1
    BY DEF NextCall
  <2> HIDE DEF n
  <2>6. late' \subseteq late \cup {<<run.test, n>>}
    BY <1>3 DEF Answered, Record, CallFails, LeaveBehind, n
  <2>7. \A l \in late : l[1] = run.test => l[2] <= run.made /\ l[2] \in 1..Calls
    BY <1>0, <2>2 DEF Flow
  <2>8. \A l \in late' : l[2] \in missing'[l[1]]
    <3>1. CASE Answered
      BY <3>1 DEF Answered, history, Flow
    <3>2. CASE CallFails \/ LeaveBehind
      <4>1. missing' = [missing EXCEPT ![run.test] = @ \cup {n}]
        BY <3>2 DEF CallFails, LeaveBehind, Lacks, n
      <4>2. \A t \in Tests : missing[t] \subseteq missing'[t]
        BY <2>4, <4>1 DEF TypeOK
      <4>3. n \in missing'[run.test]
        BY <2>4, <4>1 DEF TypeOK
      <4> QED BY <1>0, <2>4, <2>6, <4>2, <4>3 DEF Flow
    <3>3. CASE Record
      <4>1. missing' = [missing EXCEPT ![run.test] = @ \ {n}] /\ late' = late
        BY <3>3 DEF Record, n
      <4>2. \A l \in late : l[1] = run.test => l[2] # n
        BY <2>2, <2>5, <2>7
      <4>3. \A l \in late : l[1] \in Tests /\ l[2] \in missing[l[1]]
        BY <1>0 DEF Flow
      <4> QED BY <2>4, <4>1, <4>2, <4>3 DEF TypeOK
    <3> QED BY <1>3, <3>1, <3>2, <3>3
  <2>9. \A l \in late' : l[1] \notin todo /\ (l[1] = run.test => l[2] <= run.made + 1)
    BY <1>0, <2>2, <2>4, <2>5, <2>6, <2>7 DEF Flow
  <2> QED BY <2>2, <2>3, <2>4, <2>8, <2>9 DEF Flow, InTest
<1>4. ASSUME NEW t \in Tests, NEW n \in 1..Calls, LateReply(t, n) \/ LateFailure(t, n)
      PROVE  Flow'
  <2>1. /\ run'.test = run.test /\ run'.stage = run.stage /\ run'.outcome = run.outcome
        /\ run'.made = run.made
    BY <1>0, <1>4 DEF LateReply, LateFailure, Run
  <2>2. /\ late' = late \ {<<t, n>>} /\ UNCHANGED <<option, todo, held>>
        /\ missing' = missing \/ missing' = [missing EXCEPT ![t] = @ \ {n}]
    BY <1>4 DEF LateReply, LateFailure, session, history
  <2>3. \A l \in late' : l[2] \in missing'[l[1]]
    BY <1>0, <2>2 DEF Flow, TypeOK
  <2> QED BY <2>1, <2>2, <2>3 DEF Flow, InTest
<1>5. CASE BlockEnds
  <2>1. UNCHANGED <<option, todo, run, late, missing>> /\ InTest
    BY <1>5 DEF BlockEnds, InBody, InTest, session, history
  <2> QED BY <2>1 DEF Flow, InTest
<1>6. CASE Replace
  <2>1. /\ run'.test = run.test /\ run'.outcome = run.outcome /\ run'.made = run.made
        /\ run'.stage = IF run.stage = "compacting" THEN "over" ELSE run.stage
    BY <1>0, <1>6 DEF Replace, Run
  <2>2. held # Absent /\ held' = Absent /\ UNCHANGED <<option, todo, late, missing>>
    BY <1>6 DEF Replace, session, history
  <2> QED BY <2>1, <2>2 DEF Flow, InTest
<1>7. CASE OpenGuard \/ CloseGuard
  BY <1>7 DEF OpenGuard, CloseGuard, Flow, InTest, session, history
<1>8. CASE StartCall \/ Pass \/ Fail \/ Skip \/ SetupFails \/ Interrupt
  <2>1. /\ run'.test = run.test /\ run'.made = run.made /\ InTest /\ held = Absent
        /\ \/ run'.stage = "call" /\ run'.outcome = "none"
           \/ run'.stage = "done"
    BY <1>8, PhaseKeeps DEF StartCall, Pass, Fail, Skip, SetupFails, Interrupt
  <2>2. UNCHANGED <<option, held, late, missing>> /\ todo' \subseteq todo
    BY <1>8 DEF StartCall, Pass, Fail, Skip, SetupFails, Interrupt, Phase
  <2> QED BY <2>1, <2>2 DEF Flow, InTest
<1>9. CASE Discard \/ Finish
  <2>1. /\ run'.test = run.test /\ run.stage = "done" /\ run.test \in Tests
        /\ \/ run'.stage = "over" /\ (held' = held \/ held' = Absent)
           \/ run'.stage = "compacting"
    BY <1>0, <1>9 DEF Discard, Finish, Run, Flow
  <2>2. /\ UNCHANGED <<option, todo, late>>
        /\ \/ missing' = missing
           \/ missing' = [missing EXCEPT ![run.test] = {n \in @ : <<run.test, n>> \in late}]
    BY <1>9 DEF Discard, Finish, session, history
  <2>3. \A l \in late : l[2] \in missing'[l[1]]
    BY <1>0, <2>1, <2>2 DEF Flow, TypeOK
  <2> QED BY <2>1, <2>2, <2>3 DEF Flow, InTest
<1>10. CASE ProcessEnds
  BY <1>10 DEF ProcessEnds, NoRun, Flow, InTest
<1>11. CASE UNCHANGED vars
  BY <1>11 DEF vars, session, history, Flow, InTest
<1> QED
  BY <1>1, <1>2, <1>3, <1>4, <1>5, <1>6, <1>7, <1>8, <1>9, <1>10, <1>11
  DEF Next, EndSession, Kill, KillInAppend

-----------------------------------------------------------------------------
(* What is owed *)

\* A call that is recorded is added to those on the tape.
LEMMA RecordAdds ==
    ASSUME TypeOK, Flow, Record
    PROVE  \E n \in 1..Calls :
             /\ n = run.made + 1
             /\ tape' = [tape EXCEPT ![run.test] = CallsOn(run.test) \cup {n}]
             /\ CallsOn(run.test) \cup {n} # Absent
             /\ owed' = [owed EXCEPT ![run.test] = @ \cup {n}]
             /\ missing' = [missing EXCEPT ![run.test] = @ \ {n}]
             /\ UNCHANGED <<late, held, cut>>
<1> DEFINE n == NextCall
<1>1. run.test \in Tests /\ run.made \in 0..Calls /\ run.made < Calls
  BY CallKeeps DEF Record
<1>2. n \in 1..Calls /\ n = run.made + 1
  BY <1>1, SizesAssumption DEF NextCall
<1>3. /\ tape' = [tape EXCEPT ![run.test] = CallsOn(run.test) \cup {n}]
      /\ owed' = [owed EXCEPT ![run.test] = @ \cup {n}]
      /\ missing' = [missing EXCEPT ![run.test] = @ \ {n}]
      /\ UNCHANGED <<late, held, cut>>
  BY DEF Record, Tapes, Owes
<1> HIDE DEF n
<1>4. CallsOn(run.test) \cup {n} # Absent
  BY <1>1, <1>2, CallsTyped, SizesAssumption
<1> QED BY <1>2, <1>3, <1>4

\* So is one whose answer comes late; that it is missing is forgotten, unless a
\* compaction of its tape is under way.
LEMMA LateAdds ==
    ASSUME TypeOK, Flow, NEW t \in Tests, NEW n \in 1..Calls, LateReply(t, n)
    PROVE  /\ tape' = [tape EXCEPT ![t] = CallsOn(t) \cup {n}]
           /\ CallsOn(t) \cup {n} # Absent /\ n \in missing[t]
           /\ owed' = [owed EXCEPT ![t] = @ \cup {n}] /\ UNCHANGED <<held, cut>>
           /\ IF held # Absent /\ t = run.test THEN missing' = missing
              ELSE missing' = [missing EXCEPT ![t] = @ \ {n}]
           /\ run'.test = run.test /\ run'.mode = run.mode /\ run'.stage = run.stage
           /\ run'.outcome = run.outcome /\ run'.made = run.made
           /\ run'.wrote = (run.wrote \/ t = run.test)
<1>1. /\ tape' = [tape EXCEPT ![t] = CallsOn(t) \cup {n}] /\ <<t, n>> \in late
      /\ owed' = [owed EXCEPT ![t] = @ \cup {n}] /\ UNCHANGED <<held, cut>>
      /\ IF held # Absent /\ t = run.test THEN missing' = missing
         ELSE missing' = [missing EXCEPT ![t] = @ \ {n}]
  BY DEF LateReply, Tapes, Owes
<1>2. CallsOn(t) \cup {n} # Absent
  BY CallsTyped, SizesAssumption
<1>3. run \in Run /\ run' = [run EXCEPT !.wrote = @ \/ t = run.test]
  BY DEF TypeOK, LateReply
<1>4. /\ run'.test = run.test /\ run'.mode = run.mode /\ run'.stage = run.stage
      /\ run'.outcome = run.outcome /\ run'.made = run.made
      /\ run'.wrote = (run.wrote \/ t = run.test)
  BY <1>3 DEF Run
<1>5. n \in missing[t]
  BY <1>1 DEF Flow
<1> QED BY <1>1, <1>2, <1>4, <1>5

\* Every step keeps what is owed.
LEMMA OwedStep ==
    ASSUME TypeOK, Flow, OwedKept, [Next]_vars
    PROVE  OwedKept'
<1> USE TestsAssumption DEF OwedKept, NothingOwedIsLost, CallsOn
<1>0. /\ run \in Run /\ tape \in [Tests -> Tape] /\ owed \in [Tests -> SUBSET (1..Calls)]
      /\ missing \in [Tests -> SUBSET (1..Calls)] /\ None \notin Tests
  BY DEF TypeOK
<1>1. ASSUME UNCHANGED <<tape, held, owed, missing>>, run'.test = run.test PROVE OwedKept'
  BY <1>1
<1>2. ASSUME held' = Absent, UNCHANGED <<tape, owed, missing>> PROVE OwedKept'
  BY <1>2
<1>3. ASSUME NEW m \in SessionModes, Configure(m) PROVE OwedKept'
  BY <1>1, <1>3 DEF Configure, history
<1>4. ASSUME NEW t \in Tests, Setup(t) PROVE OwedKept'
  <2>1. held' = Absent
    BY <1>4 DEF Setup, Flow, InTest
  <2>2. CASE UNCHANGED <<tape, owed, missing>>
    BY <1>2, <2>1, <2>2
  <2>3. CASE /\ tape' = [tape EXCEPT ![t] = Absent] /\ owed' = [owed EXCEPT ![t] = {}]
             /\ missing' = [missing EXCEPT ![t] = {}]
    BY <1>0, <2>1, <2>3
  <2> QED BY <1>4, <2>2, <2>3 DEF Setup, history
<1>5. CASE Answered \/ CallFails \/ LeaveBehind
  <2>1. run'.test = run.test /\ held = Absent /\ run.test \in Tests
    BY <1>5, CallKeeps DEF Answered, CallFails, LeaveBehind
  <2>2. UNCHANGED <<tape, held, owed>>
    BY <1>5 DEF Answered, CallFails, LeaveBehind, history
  <2>3. \A t \in Tests : missing[t] \subseteq missing'[t]
    <3> DEFINE n == NextCall
    <3>1. missing' = missing \/ missing' = [missing EXCEPT ![run.test] = @ \cup {n}]
      BY <1>5 DEF Answered, CallFails, LeaveBehind, Lacks, history
    <3> HIDE DEF n
    <3> QED BY <1>0, <2>1, <3>1
  <2> QED BY <2>1, <2>2, <2>3
<1>6. CASE Record
  <2>1. run.test \in Tests /\ held = Absent
    BY <1>6, CallKeeps DEF Record
  <2> QED BY <1>0, <1>6, <2>1, RecordAdds
<1>7. ASSUME NEW t \in Tests, NEW n \in 1..Calls, LateReply(t, n) PROVE OwedKept'
  <2>1. /\ tape' = [tape EXCEPT ![t] = CallsOn(t) \cup {n}]
        /\ CallsOn(t) \cup {n} # Absent /\ n \in missing[t]
        /\ owed' = [owed EXCEPT ![t] = @ \cup {n}] /\ held' = held /\ run'.test = run.test
        /\ IF held # Absent /\ t = run.test THEN missing' = missing
           ELSE missing' = [missing EXCEPT ![t] = @ \ {n}]
    BY <1>7, LateAdds
  <2>2. held # Absent => run.test \in Tests
    BY <1>0 DEF Flow, InTest, Run
  <2>3. NothingOwedIsLost'
    BY <1>0, <2>1
  <2>4. held # Absent =>
          owed'[run.test] \ missing'[run.test] \subseteq held /\ held \subseteq owed'[run.test]
    BY <1>0, <2>1, <2>2
  <2> QED BY <2>1, <2>3, <2>4
<1>8. ASSUME NEW t \in Tests, NEW n \in 1..Calls, LateFailure(t, n) PROVE OwedKept'
  BY <1>1, <1>8 DEF LateFailure, history
<1>9. CASE BlockEnds \/ Finish
  <2>1. /\ run'.test = run.test /\ held' \in {tape[run.test], Absent}
        /\ UNCHANGED <<tape, owed, missing>> /\ run.test \in Tests
    BY <1>0, <1>9 DEF BlockEnds, Finish, InBody, Flow, Run, history
  <2> QED BY <2>1
<1>10. CASE Replace
  <2>1. /\ held # Absent /\ held' = Absent /\ UNCHANGED <<owed, missing>>
        /\ tape' = [tape EXCEPT ![run.test] = held]
    BY <1>10 DEF Replace, history
  <2>2. run.test \in Tests
    BY <1>0, <2>1 DEF Run, Flow, InTest
  <2> QED BY <1>0, <2>1, <2>2
<1>11. CASE OpenGuard \/ CloseGuard
  BY <1>1, <1>11 DEF OpenGuard, CloseGuard, history
<1>12. CASE StartCall \/ Pass \/ Fail \/ Skip \/ SetupFails \/ Interrupt
  <2>1. run'.test = run.test
    BY <1>12, PhaseKeeps DEF StartCall, Pass, Fail, Skip, SetupFails, Interrupt
  <2> QED BY <1>1, <1>12, <2>1 DEF StartCall, Pass, Fail, Skip, SetupFails, Interrupt, Phase
<1>13. CASE Discard
  <2>1. /\ run.test \in Tests /\ run.outcome = "failed" /\ run.wrote /\ run.stage = "done"
        /\ owed' = [owed EXCEPT ![run.test] = {}]
        /\ tape' = [tape EXCEPT ![run.test] = Absent]
        /\ \A t \in Tests \ {run.test} : missing'[t] = missing[t]
    BY <1>0, <1>13 DEF Discard, Discards, Flow, Run
  <2>2. held' = Absent
    BY <1>13, <2>1 DEF Discard, Flow, InTest
  <2> QED BY <1>0, <2>1, <2>2
<1>14. CASE EndSession \/ Kill
  BY <1>2, <1>14 DEF EndSession, Kill, ProcessEnds
<1>15. ASSUME NEW t \in Tests, KillInAppend(t) PROVE OwedKept'
  BY <1>0, <1>15 DEF KillInAppend, ProcessEnds
<1>16. CASE UNCHANGED vars
  BY <1>1, <1>16 DEF vars, history
<1> QED
  BY <1>3, <1>4, <1>5, <1>6, <1>7, <1>8, <1>9, <1>10, <1>11, <1>12, <1>13, <1>14, <1>15, <1>16
  DEF Next

-----------------------------------------------------------------------------
(* The guards *)

\* The length of a prefix.
LEMMA PrefixLength ==
    ASSUME NEW S, NEW s \in Seq(S), NEW n \in Nat, n <= Len(s)
    PROVE  SubSeq(s, 1, n) \in Seq(S) /\ Len(SubSeq(s, 1, n)) = n
<1>1. \A i \in 1..n : s[i] \in S
  OBVIOUS
<1>2. n = 0 \/ 1 <= n
  OBVIOUS
<1> QED BY <1>1, <1>2

\* Every step keeps GuardsFit.
LEMMA GuardStep ==
    ASSUME TypeOK, Flow, GuardsFit, [Next]_vars
    PROVE  GuardsFit'
<1> USE TestsAssumption, HostsAssumption
<1>0. run \in Run /\ guards \in Seq(SUBSET Hosts) /\ reopened \in BOOLEAN
  BY DEF TypeOK, GuardTypeOK
<1>1. ASSUME NEW m \in SessionModes, Configure(m) PROVE GuardsFit'
  <2>1. UNCHANGED <<guardVars, run>> /\ run.stage = "idle"
    BY <1>1 DEF Configure, Flow
  <2> QED BY <2>1 DEF GuardsFit, InTest, InProgress, guardVars
<1>2. ASSUME NEW t \in Tests, Setup(t) PROVE GuardsFit'
  <2>1. run'.test = t /\ run'.stage = "setup" /\ option' = option /\ guards = <<>> /\ connect = Original
    BY <1>2 DEF Setup, NoRun, GuardsFit, InProgress
  <2>2. CASE Guarded(t)
    <3>1. Block(AllowedHosts)
      BY <1>2, <2>2 DEF Setup
    <3>2. Len(guards') = 1 /\ guards' # <<>>
      BY <2>1, <3>1 DEF Block
    <3>3. connect' = Loopback \cup AllowedHosts /\ connect' # Original
      BY <3>1 DEF Block
    <3> QED BY <2>1, <3>2, <3>3 DEF GuardsFit, InTest, InProgress, OwnGuards
  <2>3. CASE ~Guarded(t)
    <3>1. UNCHANGED guardVars
      BY <1>2, <2>3 DEF Setup
    <3>2. OwnGuards' = 0
      BY <2>1, <2>3 DEF OwnGuards, Guarded, Requested
    <3> QED BY <2>1, <3>1, <3>2 DEF GuardsFit, InTest, InProgress, guardVars
  <2> QED BY <2>2, <2>3
<1>3. ASSUME UNCHANGED <<option, guardVars>>, run'.test = run.test, run'.stage = run.stage
      PROVE  GuardsFit'
  BY <1>3 DEF GuardsFit, InTest, InProgress, OwnGuards, Guarded, Requested, guardVars
<1>4. CASE Answered \/ Record \/ CallFails \/ LeaveBehind
  <2>1. PICK recorded \in BOOLEAN : Call(recorded)
    BY <1>4 DEF Answered, Record, CallFails, LeaveBehind
  <2>2. run'.test = run.test /\ run'.stage = run.stage
    BY <2>1, CallKeeps
  <2> QED BY <1>3, <1>4, <2>2 DEF Answered, Record, CallFails, LeaveBehind, session
<1>5. ASSUME NEW t \in Tests, NEW n \in 1..Calls, LateReply(t, n) \/ LateFailure(t, n)
      PROVE  GuardsFit'
  BY <1>0, <1>3, <1>5, LateAdds DEF LateReply, LateFailure, session
<1>6. CASE BlockEnds
  BY <1>3, <1>6 DEF BlockEnds, session
<1>7. CASE Replace
  <2>1. /\ run'.test = run.test /\ UNCHANGED <<option, guardVars>>
        /\ run'.stage = IF run.stage = "compacting" THEN "over" ELSE run.stage
    BY <1>0, <1>7 DEF Replace, Run, session
  <2> QED BY <2>1 DEF GuardsFit, InTest, InProgress, OwnGuards, Guarded, Requested, guardVars
<1>8. CASE OpenGuard
  <2>1. Block({}) /\ UNCHANGED <<option, run>> /\ InTest
    BY <1>8 DEF OpenGuard, InBody, InTest, session
  <2>2. connect' = Loopback /\ connect' # Original /\ guards' = Append(guards, Loopback \cup {})
    BY <2>1 DEF Block
  <2>3. Len(guards') = Len(guards) + 1 /\ guards' # <<>> /\ Len(guards) \in Nat
    BY <1>0, <2>2
  <2>4. OwnGuards' = OwnGuards /\ OwnGuards \in {0, 1}
    BY <2>1 DEF OwnGuards, Guarded, Requested
  <2> QED BY <2>1, <2>2, <2>3, <2>4 DEF GuardsFit, InTest, InProgress
<1>9. CASE CloseGuard
  <2>1. Unblock /\ Len(guards) > OwnGuards /\ UNCHANGED <<option, run>> /\ InTest
    BY <1>9 DEF CloseGuard, InBody, InTest, session
  <2>2. OwnGuards' = OwnGuards /\ OwnGuards \in {0, 1}
    BY <2>1 DEF OwnGuards, Guarded, Requested
  <2>3. Len(guards) \in Nat /\ Len(guards) - 1 \in Nat
    BY <1>0, <2>1, <2>2
  <2>4. Len(SubSeq(guards, 1, Len(guards) - 1)) = Len(guards) - 1
    <3> DEFINE n == Len(guards) - 1
    <3>1. n \in Nat /\ n <= Len(guards)
      BY <2>3
    <3> HIDE DEF n
    <3>2. Len(SubSeq(guards, 1, n)) = n
      BY <1>0, <3>1, PrefixLength
    <3> QED BY <3>2 DEF n
  <2>5. /\ guards' = SubSeq(guards, 1, Len(guards) - 1) /\ connect' = Original
        /\ reopened' = (Len(guards) > 1)
    BY <2>1 DEF Unblock
  <2>6. guards' # <<>> => reopened'
    <3>1. guards' \in Seq(SUBSET Hosts) /\ Len(guards') = Len(guards) - 1
      BY <1>0, <2>3, <2>4, <2>5
    <3>2. guards' # <<>> => Len(guards) > 1
      BY <2>3, <3>1
    <3> QED BY <2>5, <3>2
  <2> QED BY <2>1, <2>2, <2>3, <2>4, <2>5, <2>6 DEF GuardsFit, InTest, InProgress
<1>10. CASE StartCall \/ Pass \/ Fail \/ Skip \/ SetupFails \/ Interrupt
  <2>1. run'.test = run.test /\ run'.stage \in {"call", "done"} /\ InTest
    BY <1>10, PhaseKeeps DEF StartCall, Pass, Fail, Skip, SetupFails, Interrupt
  <2>2. UNCHANGED <<option, guardVars>> /\ Len(guards) = OwnGuards
    BY <1>10 DEF StartCall, Pass, Fail, Skip, SetupFails, Interrupt, Phase
  <2>3. OwnGuards' = OwnGuards /\ OwnGuards \in {0, 1}
    BY <2>1, <2>2 DEF OwnGuards, Guarded, Requested
  <2> QED BY <2>1, <2>2, <2>3 DEF GuardsFit, InTest, InProgress, guardVars
<1>11. CASE Discard \/ Finish
  <2>1. EndGuard /\ run.stage = "done" /\ Len(guards) = OwnGuards
    BY <1>11 DEF Discard, Finish, GuardsFit
  <2>2. run'.stage \in {"over", "compacting"}
    BY <1>0, <1>11 DEF Discard, Finish, Run
  <2>3. guards' = <<>> /\ connect' = Original
    BY <1>0, <2>1 DEF EndGuard, OwnGuards, Unblock, GuardsFit, guardVars
  <2> QED BY <2>2, <2>3 DEF GuardsFit, InTest, InProgress
<1>12. CASE ProcessEnds
  BY <1>12 DEF ProcessEnds, NoRun, GuardsFit, InTest, InProgress
<1>13. CASE UNCHANGED vars
  BY <1>3, <1>13 DEF vars, session
<1> QED
  BY <1>1, <1>2, <1>4, <1>5, <1>6, <1>7, <1>8, <1>9, <1>10, <1>11, <1>12, <1>13
  DEF Next, EndSession, Kill, KillInAppend

-----------------------------------------------------------------------------
(* Where the tapes stand *)

\* A test under way whose run is not cut short, and that made every call or
\* recorded none, has its tape whole if that run ends.
LEMMA Settled ==
    ASSUME TypeOK, Flow, Sound, InProgress, run.test \notin cut,
           run.made = Calls \/ ~run.wrote
    PROVE  Whole(run.test)
<1>1. run \in Run /\ run.test \in Tests
  BY DEF TypeOK, Flow, InProgress, Run
<1>2. Covered(run.test) \subseteq 1..Calls
  BY <1>1, CallsTyped DEF Covered, TypeOK
<1>3. CASE ~run.wrote
  BY <1>1, <1>3 DEF Sound, Stands, InTest, InProgress, Run, Discards
<1>4. CASE run.made = Calls /\ Records(run.mode)
  BY <1>2, <1>4 DEF Sound, Covers, Whole
<1>5. CASE ~Records(run.mode)
  BY <1>3, <1>5 DEF Sound
<1> QED BY <1>3, <1>4, <1>5

\* Nothing of a test changes that a step leaves with its tape and its lacks.
LEMMA Untouched ==
    ASSUME NEW t, tape'[t] = tape[t], missing'[t] = missing[t]
    PROVE  (Covered(t)' = Covered(t)) /\ (Whole(t)' = Whole(t))
BY DEF Covered, Whole, CallsOn

\* A step that leaves the tapes, the run and what a compaction has read keeps
\* Sound.
LEMMA SoundUnchanged ==
    ASSUME Sound, UNCHANGED <<tape, run, held, missing, cut>>, late' \subseteq late
    PROVE  Sound'
BY DEF Sound, WholeOrAbsent, Covers, Stands, Completes, Covered, Whole, CallsOn, InProgress,
       InTest, Discards, LeftBehind

\* Opening a recorder leaves every tape whole, and drops the one it re-records.
LEMMA SoundSetup ==
    ASSUME TypeOK, Flow, Sound, NEW t \in Tests, Setup(t)
    PROVE  Sound'
<1> DEFINE mode == Resolve(Requested(t), tape[t] # Absent)
<1>1. /\ run'.test = t /\ run'.stage = "setup" /\ run'.outcome = "none" /\ run'.mode = mode
      /\ run'.made = 0 /\ run'.wrote = FALSE /\ held' = held /\ late' = late /\ ~InProgress
      /\ t \in todo
  BY DEF Setup, NoRun, InProgress
<1> HIDE DEF mode
<1>2. held' = Absent /\ \A l \in late : l[1] # t
  BY <1>1 DEF Flow, InTest, InProgress
<1>3. \A u \in Tests \ cut : Whole(u) /\ (LeftBehind(u) => Covered(u) = 1..Calls)
  BY <1>1 DEF Sound, WholeOrAbsent, Completes, Whole, Covered, InTest, InProgress
<1>4. \/ tape'[t] = tape[t] /\ missing'[t] = missing[t] /\ cut' = cut
      \/ tape'[t] = Absent /\ cut' = cut \ {t}
  BY DEF Setup, TypeOK, history
<1>5. \A u \in Tests \ {t} : tape'[u] = tape[u] /\ missing'[u] = missing[u]
  BY DEF Setup, TypeOK, history
<1>6. \A u \in Tests \ cut' : Whole(u)'
  BY <1>3, <1>4, <1>5, Untouched DEF Whole
<1>7. ~LeftBehind(t)' /\ \A u \in Tests : LeftBehind(u)' = LeftBehind(u)
  BY <1>1, <1>2 DEF LeftBehind
<1>8. Completes'
  BY <1>3, <1>4, <1>5, <1>7, Untouched DEF Completes
<1>9. Covers'
  BY <1>1 DEF Covers
<1>10. WholeOrAbsent' /\ Stands'
  BY <1>1, <1>6 DEF WholeOrAbsent, Stands, Whole, Covered, InTest
<1> QED BY <1>1, <1>2, <1>7, <1>8, <1>9, <1>10 DEF Sound

\* A call of a test that may record is covered once it is made.
LEMMA SoundCall ==
    ASSUME TypeOK, Flow, Sound, Answered \/ Record \/ CallFails \/ LeaveBehind
    PROVE  Sound'
<1>0. /\ tape \in [Tests -> Tape] /\ run \in Run /\ missing \in [Tests -> SUBSET (1..Calls)]
      /\ Calls \in Nat
  BY SizesAssumption DEF TypeOK
<1>1. PICK recorded \in BOOLEAN : Call(recorded) /\ (Record => recorded)
  BY DEF Answered, Record, CallFails, LeaveBehind
<1>2. /\ run'.test = run.test /\ run'.mode = run.mode /\ run'.stage = run.stage
      /\ run'.outcome = run.outcome /\ run'.made = run.made + 1
      /\ run'.wrote = (run.wrote \/ recorded)
      /\ run.test \in Tests /\ InTest /\ held = Absent
      /\ run.made \in 0..Calls /\ run.made < Calls
  BY <1>1, CallKeeps
<1>3. InProgress /\ InProgress' /\ InTest' /\ run'.stage \notin {"done", "compacting"}
  BY <1>2 DEF InProgress, InTest
<1>4. PICK t \in Tests, n \in 1..Calls : t = run.test /\ n = run.made + 1
  BY <1>0, <1>2
<1>14. (1..n) = (1..run.made) \cup {n}
  BY <1>0, <1>2, <1>4
<1>5. /\ held' = held /\ cut' = cut
      /\ \A u \in Tests \ {t} : tape'[u] = tape[u] /\ missing'[u] = missing[u]
      /\ \A u \in Tests \ {t} : LeftBehind(u)' = LeftBehind(u)
  <2>1. /\ held' = held /\ cut' = cut
        /\ \/ tape' = tape \/ tape' = [tape EXCEPT ![t] = CallsOn(t) \cup {n}]
        /\ \/ missing' = missing \/ missing' = [missing EXCEPT ![t] = @ \ {n}]
           \/ missing' = [missing EXCEPT ![t] = @ \cup {n}]
        /\ \/ late' = late \/ late' = late \cup {<<t, n>>}
    BY <1>4 DEF Answered, Record, CallFails, LeaveBehind, Tapes, Lacks, NextCall, history
  <2> QED BY <1>0, <1>4, <2>1 DEF LeftBehind
<1>6. WholeOrAbsent' /\ Completes'
  BY <1>2, <1>3, <1>4, <1>5, Untouched DEF Sound, WholeOrAbsent, Completes, Covered
<1>7. \/ Answered /\ tape'[t] = tape[t] /\ missing'[t] = missing[t]
         /\ LeftBehind(t)' = LeftBehind(t)
      \/ Record /\ GoesLive(t, n) /\ recorded
         /\ tape'[t] = CallsOn(t) \cup {n} /\ tape'[t] # Absent /\ missing'[t] = missing[t] \ {n}
      \/ (CallFails \/ LeaveBehind) /\ GoesLive(t, n)
         /\ tape'[t] = tape[t] /\ missing'[t] = missing[t] \cup {n}
  <2>1. CASE Answered
    BY <2>1 DEF Answered, LeftBehind, history
  <2>2. CASE Record
    <3>1. GoesLive(t, n) /\ recorded
      BY <1>1, <1>4, <2>2 DEF Record, NextCall
    <3> QED BY <1>0, <1>4, <2>2, <3>1, RecordAdds
  <2>3. CASE CallFails \/ LeaveBehind
    <3>1. /\ GoesLive(t, n) /\ tape' = tape
          /\ missing' = [missing EXCEPT ![t] = @ \cup {n}]
      BY <1>4, <2>3 DEF CallFails, LeaveBehind, Lacks, NextCall
    <3> QED BY <1>0, <2>3, <3>1
  <2> QED BY <2>1, <2>2, <2>3
<1>8. Covered(t) \subseteq 1..Calls
  BY <1>0, <1>2, CallsTyped DEF Covered
<1>9. ASSUME Records(run.mode) PROVE 1..n \subseteq Covered(t)'
  <2>1. 1..run.made \subseteq Covered(t)
    BY <1>3, <1>4, <1>9 DEF Sound, Covers
  <2>2. Covered(t)' = Covered(t) \cup {n}
    <3>1. CASE Answered /\ tape'[t] = tape[t] /\ missing'[t] = missing[t]
      <4>1. n \in CallsOn(t)
        BY <1>4, <1>9, <3>1 DEF Answered, GoesLive, Records, NextCall
      <4> QED BY <3>1, <4>1 DEF Covered, CallsOn
    <3>2. CASE tape'[t] = CallsOn(t) \cup {n} /\ tape'[t] # Absent /\ missing'[t] = missing[t] \ {n}
      BY <3>2 DEF Covered, CallsOn
    <3>3. CASE tape'[t] = tape[t] /\ missing'[t] = missing[t] \cup {n}
      BY <3>3 DEF Covered, CallsOn
    <3> QED BY <1>7, <3>1, <3>2, <3>3
  <2> QED BY <1>14, <2>1, <2>2
<1>10. Covers'
  BY <1>2, <1>4, <1>9 DEF Covers
<1>11. ASSUME t \notin cut, ~run'.wrote PROVE Whole(t)'
  <2>1. ~run.wrote /\ Whole(t) /\ ~recorded
    BY <1>0, <1>1, <1>2, <1>4, <1>11 DEF Sound, Stands, Run
  <2>2. tape'[t] = tape[t] /\ (missing'[t] = missing[t] \/ missing'[t] = missing[t] \cup {n})
    BY <1>7, <2>1
  <2>3. Covered(t) = 1..Calls => Covered(t)' = 1..Calls
    BY <2>2 DEF Covered, CallsOn
  <2> QED BY <2>1, <2>2, <2>3 DEF Whole
<1>12. Stands'
  BY <1>2, <1>3, <1>4, <1>5, <1>11 DEF Stands
<1>13. ASSUME ~Records(run.mode) PROVE ~run'.wrote /\ ~LeftBehind(t)'
  <2>1. ~GoesLive(t, n) /\ ~run.wrote /\ ~LeftBehind(t)
    BY <1>4, <1>13 DEF GoesLive, Records, Sound
  <2>2. Answered /\ ~recorded
    <3>1. Answered
      BY <1>7, <2>1
    <3>2. Call(FALSE)
      BY <3>1 DEF Answered
    <3>3. run'.wrote = run.wrote
      BY <1>0, <3>2, CallKeeps DEF Run
    <3> QED BY <1>0, <1>2, <2>1, <3>1, <3>3 DEF Run
  <2>3. LeftBehind(t)' = LeftBehind(t)
    BY <2>2 DEF Answered, LeftBehind
  <2> QED BY <1>2, <2>1, <2>2, <2>3
<1> QED BY <1>2, <1>4, <1>5, <1>6, <1>10, <1>12, <1>13 DEF Sound

\* An answer that comes late changes nothing of what is covered, and once the
\* body is over its tape is complete.
LEMMA SoundLate ==
    ASSUME TypeOK, Flow, Sound, NEW t \in Tests, NEW n \in 1..Calls, LateReply(t, n)
    PROVE  Sound'
<1>0. /\ tape \in [Tests -> Tape] /\ run \in Run /\ missing \in [Tests -> SUBSET (1..Calls)]
  BY DEF TypeOK
<1>1. /\ tape' = [tape EXCEPT ![t] = CallsOn(t) \cup {n}]
      /\ CallsOn(t) \cup {n} # Absent /\ n \in missing[t]
      /\ UNCHANGED <<held, cut>>
      /\ IF held # Absent /\ t = run.test THEN missing' = missing
         ELSE missing' = [missing EXCEPT ![t] = @ \ {n}]
      /\ run'.test = run.test /\ run'.mode = run.mode /\ run'.stage = run.stage
      /\ run'.outcome = run.outcome /\ run'.made = run.made
      /\ run'.wrote = (run.wrote \/ t = run.test)
  BY LateAdds
<1>2. /\ LeftBehind(t) /\ \A u \in Tests : LeftBehind(u)' => LeftBehind(u)
      /\ LeftBehind(run.test)' => LeftBehind(run.test)
  BY DEF LateReply, LeftBehind
<1>3. \A u \in Tests \ {t} : tape'[u] = tape[u] /\ missing'[u] = missing[u]
  BY <1>0, <1>1
<1>4. /\ tape'[t] = CallsOn(t) \cup {n} /\ tape'[t] # Absent
      /\ missing'[t] \in {missing[t], missing[t] \ {n}}
  BY <1>0, <1>1
<1>5. \A u \in Tests : Covered(u)' = Covered(u)
  <2>1. Covered(t)' = Covered(t)
    BY <1>1, <1>4 DEF Covered, CallsOn
  <2> QED BY <1>3, <2>1, Untouched
<1>6. InProgress' = InProgress /\ InTest' = InTest
  BY <1>1 DEF InProgress, InTest
<1>7. InProgress => run.test \in Tests
  BY <1>0 DEF Flow, InProgress, Run
<1>8. Covers' /\ Completes'
  BY <1>1, <1>2, <1>5, <1>6, <1>7 DEF Sound, Covers, Completes
<1>9. ASSUME t \notin cut, ~(t = run.test /\ InTest) PROVE Covered(t) = 1..Calls
  BY <1>2, <1>9 DEF Sound, Completes
<1>10. \A u \in Tests \ cut : ~(u = run.test /\ InTest) => (Whole(u) => Whole(u)')
  BY <1>3, <1>5, <1>9, Untouched DEF Whole
<1>11. WholeOrAbsent'
  <2> SUFFICES ASSUME NEW u \in Tests \ cut, ~(u = run.test /\ InProgress) PROVE Whole(u)'
    BY <1>1, <1>6 DEF WholeOrAbsent, Whole, Covered
  <2>1. Whole(u) /\ ~(u = run.test /\ InTest)
    BY DEF Sound, WholeOrAbsent, Whole, Covered, InTest, InProgress
  <2> QED BY <1>10, <2>1
<1>12. Stands'
  <2>0. PICK r \in Tests \cup {None} : r = run.test
    BY <1>0 DEF Run
  <2>1. ASSUME InTest, r \notin cut, ~run'.wrote PROVE Whole(r)'
    <3>1. r \in Tests \ {t} /\ ~run.wrote
      BY <1>0, <1>1, <1>7, <2>0, <2>1 DEF InTest, InProgress, Run
    <3>2. Whole(r)
      BY <2>0, <2>1, <3>1 DEF Sound, Stands
    <3> QED BY <1>3, <3>1, <3>2, Untouched
  <2>2. ASSUME run.stage = "done", r \notin cut PROVE Whole(r)' \/ Discards'
    <3>1. ~InTest /\ r \in Tests
      BY <1>7, <2>0, <2>2 DEF InTest, InProgress
    <3>2. Discards => Discards'
      BY <1>0, <1>1 DEF Discards, Run
    <3>3. Whole(r) \/ Discards
      BY <2>0, <2>2 DEF Sound, Stands
    <3> QED BY <1>10, <2>2, <3>1, <3>2, <3>3
  <2>3. ASSUME run.stage = "compacting", r \notin cut PROVE Whole(r)'
    <3>1. ~InTest /\ r \in Tests
      BY <1>7, <2>0, <2>3 DEF InTest, InProgress
    <3>2. Whole(r)
      BY <2>0, <2>3 DEF Sound, Stands
    <3> QED BY <1>10, <2>3, <3>1, <3>2
  <2> QED BY <1>1, <1>6, <2>0, <2>1, <2>2, <2>3 DEF Stands
<1>13. ~Records(run.mode) => ~run'.wrote /\ ~LeftBehind(run.test)'
  <2>1. ~Records(run.mode) => t # run.test
    BY <1>2 DEF Sound
  <2> QED BY <1>0, <1>1, <1>2, <2>1 DEF Sound, Run
<1>14. ASSUME held # Absent
       PROVE  tape'[run.test] # Absent /\ held \cup missing'[run.test] = Covered(run.test)'
  <2>1. PICK r \in Tests : r = run.test
    BY <1>7, <1>14 DEF Flow, InTest, InProgress
  <2>2. missing'[r] = missing[r]
    BY <1>1, <1>3, <1>14, <2>1
  <2>3. tape[r] # Absent /\ held \cup missing[r] = Covered(r)
    BY <1>14, <2>1 DEF Sound
  <2>4. tape'[r] # Absent
    BY <1>3, <1>4, <2>3
  <2>5. held \cup missing'[r] = Covered(r)'
    BY <1>5, <2>2, <2>3
  <2> QED BY <1>1, <2>1, <2>4, <2>5
<1> QED BY <1>1, <1>8, <1>11, <1>12, <1>13, <1>14 DEF Sound

\* A compaction puts back what it has read, and what comes in between is missing.
LEMMA SoundReplace ==
    ASSUME TypeOK, Flow, Sound, Replace
    PROVE  Sound'
<1>1. /\ held # Absent /\ held' = Absent /\ UNCHANGED <<late, cut, missing>>
      /\ tape' = [tape EXCEPT ![run.test] = held]
  BY DEF Replace, history
<1>2. run \in Run /\ tape \in [Tests -> Tape]
  BY DEF TypeOK
<1>3. /\ run'.test = run.test /\ run'.mode = run.mode /\ run'.outcome = run.outcome
      /\ run'.made = run.made /\ run'.wrote = run.wrote
      /\ run'.stage = IF run.stage = "compacting" THEN "over" ELSE run.stage
  BY <1>2 DEF Replace, Run
<1>4. InProgress /\ run.test \in Tests /\ (InTest \/ run.stage = "compacting")
  BY <1>1, <1>2 DEF Flow, InTest, InProgress, Run
<1>5. PICK t \in Tests : t = run.test
  BY <1>4
<1>6. /\ tape'[t] = held /\ \A u \in Tests \ {t} : tape'[u] = tape[u]
      /\ tape[t] # Absent /\ held \cup missing[t] = Covered(t)
  BY <1>1, <1>2, <1>5 DEF Sound
<1>7. \A u \in Tests : Covered(u)' = Covered(u) /\ Whole(u)' = Whole(u)
  <2>1. Covered(t)' = Covered(t)
    BY <1>1, <1>6 DEF Covered, CallsOn
  <2>2. Whole(t)' = Whole(t)
    BY <1>1, <1>6, <2>1 DEF Whole
  <2>3. \A u \in Tests \ {t} : Covered(u)' = Covered(u) /\ Whole(u)' = Whole(u)
    BY <1>1, <1>6, Untouched
  <2> QED BY <2>1, <2>2, <2>3
<1>8. /\ InTest' = InTest /\ (InProgress' <=> InTest)
      /\ \A u : LeftBehind(u)' = LeftBehind(u)
  BY <1>1, <1>3, <1>4 DEF InTest, InProgress, LeftBehind
<1>9. WholeOrAbsent'
  <2> SUFFICES ASSUME NEW u \in Tests \ cut, ~(u = run.test /\ InTest) PROVE Whole(u)'
    BY <1>1, <1>3, <1>8 DEF WholeOrAbsent, Whole, Covered
  <2>1. Whole(u)
    BY <1>4 DEF Sound, WholeOrAbsent, Stands, Whole, Covered
  <2> QED BY <1>7, <2>1
<1>10. Covers' /\ Completes'
  BY <1>1, <1>3, <1>4, <1>7, <1>8 DEF Sound, Covers, Completes
<1>11. Stands'
  <2>1. InTest /\ t \notin cut /\ ~run.wrote => Whole(t)'
    BY <1>5, <1>7 DEF Sound, Stands
  <2>2. run'.stage \notin {"done", "compacting"}
    BY <1>3, <1>4 DEF InTest
  <2> QED BY <1>1, <1>3, <1>5, <1>8, <2>1, <2>2 DEF Stands
<1> QED BY <1>1, <1>3, <1>8, <1>9, <1>10, <1>11 DEF Sound

\* A phase that begins leaves the tapes alone; a body that ends has its tape
\* whole, or is cut short, or will have it discarded.
LEMMA SoundPhase ==
    ASSUME TypeOK, Flow, Sound, StartCall \/ Pass \/ Fail \/ Skip \/ SetupFails \/ Interrupt
    PROVE  Sound'
<1>1. /\ run'.test = run.test /\ run'.mode = run.mode /\ run'.made = run.made
      /\ run'.wrote = run.wrote /\ run.test \in Tests /\ InTest /\ held = Absent
      /\ run.made \in 0..Calls /\ run.wrote \in BOOLEAN
  BY PhaseKeeps DEF StartCall, Pass, Fail, Skip, SetupFails, Interrupt
<1>2. UNCHANGED <<tape, held, late, missing>>
  BY DEF StartCall, Pass, Fail, Skip, SetupFails, Interrupt, Phase
<1>3. run'.stage = "call" \/ run'.stage = "done"
  BY PhaseKeeps DEF StartCall, Pass, Fail, Skip, SetupFails, Interrupt
<1>4. InProgress /\ InProgress'
  BY <1>1, <1>3 DEF InProgress, InTest
<1>5. /\ \A u \in Tests : Covered(u)' = Covered(u) /\ Whole(u)' = Whole(u)
      /\ \A u : LeftBehind(u)' = LeftBehind(u)
  BY <1>2, Untouched DEF LeftBehind
<1>6. cut \ {run.test} \subseteq cut'
  BY DEF StartCall, Pass, Fail, Skip, SetupFails, Interrupt, CutShort
<1>7. WholeOrAbsent' /\ Covers'
  BY <1>1, <1>2, <1>4, <1>5, <1>6 DEF Sound, WholeOrAbsent, Covers, CallsOn
<1>8. \A u \in Tests \ {run.test} :
        u \notin cut' /\ LeftBehind(u)' => (Covered(u)' = 1..Calls)
  BY <1>5, <1>6 DEF Sound, Completes
<1>9. CASE StartCall
  <2>1. cut' = cut /\ run'.stage = "call"
    BY <1>9, PhaseKeeps DEF StartCall
  <2>2. InTest'
    BY <2>1 DEF InTest
  <2>3. Completes' /\ Stands'
    BY <1>1, <1>5, <1>8, <2>1, <2>2 DEF Sound, Completes, Stands, InTest
  <2> QED BY <1>1, <1>2, <1>5, <1>7, <2>3 DEF Sound
<1>10. CASE Pass \/ Fail \/ Skip \/ SetupFails \/ Interrupt
  <2>1. run'.stage = "done" /\ ~InTest'
    <3>1. run'.stage = "done"
      BY <1>10, PhaseKeeps DEF Pass, Fail, Skip, SetupFails, Interrupt
    <3> QED BY <3>1 DEF InTest
  <2>2. ASSUME run.test \notin cut', run.made = Calls, Records(run.mode)
        PROVE  Covered(run.test) = 1..Calls
    <3>1. Covered(run.test) \subseteq 1..Calls
      BY <1>1, CallsTyped DEF Covered, TypeOK
    <3> QED BY <1>4, <2>2, <3>1 DEF Sound, Covers
  <2>3. ASSUME run.test \notin cut'
        PROVE  /\ run.made = Calls \/ ~LeftBehind(run.test)
               /\ run.made = Calls \/ ~run.wrote \/ Discards'
               /\ run.test \notin cut \/ (run.made = Calls /\ Records(run.mode))
    <3>1. ASSUME NEW recorded, CutShort(recorded)
          PROVE  /\ run.test \notin cut
                 /\ run.made = Calls \/ (~recorded /\ ~LeftBehind(run.test))
      BY <1>1, <2>3, <3>1, SizesAssumption DEF CutShort
    <3>2. CASE Pass
      BY <2>3, <3>2 DEF Pass
    <3>3. CASE Fail
      <4>1. run'.outcome = "failed"
        BY <3>3, PhaseKeeps DEF Fail
      <4> QED BY <1>1, <3>1, <3>3, <4>1 DEF Fail, Discards
    <3>4. CASE Skip \/ SetupFails \/ Interrupt
      BY <3>1, <3>4 DEF Skip, SetupFails, Interrupt
    <3> QED BY <1>10, <3>2, <3>3, <3>4
  <2>4. ASSUME run.test \notin cut' PROVE Whole(run.test) \/ Discards'
    <3>1. CASE Records(run.mode) /\ run.made = Calls
      BY <2>2, <2>4, <3>1 DEF Whole
    <3>2. CASE run.test \notin cut /\ ~run.wrote
      BY <1>1, <3>2 DEF Sound, Stands
    <3> QED BY <2>3, <2>4, <3>1, <3>2 DEF Sound
  <2>5. Stands'
    BY <1>1, <1>5, <2>1, <2>4 DEF Stands
  <2>6. Completes'
    <3>1. ASSUME run.test \notin cut', LeftBehind(run.test)' PROVE Covered(run.test)' = 1..Calls
      BY <1>1, <1>5, <2>2, <2>3, <3>1 DEF Sound
    <3> QED BY <1>1, <1>8, <3>1 DEF Completes
  <2> QED BY <1>1, <1>2, <1>5, <1>7, <2>5, <2>6 DEF Sound
<1> QED BY <1>9, <1>10

\* The tear-down drops the tape of a run that wrote and failed, and leaves that
\* of any other.
LEMMA SoundTeardown ==
    ASSUME TypeOK, Flow, Sound, Discard \/ Finish
    PROVE  Sound'
<1>1. run \in Run /\ tape \in [Tests -> Tape] /\ missing \in [Tests -> SUBSET (1..Calls)]
  BY DEF TypeOK
<1>2. run.stage = "done" /\ InProgress /\ ~InTest /\ run.test \in Tests /\ held = Absent
  BY <1>1 DEF Discard, Finish, InProgress, InTest, Flow, Run
<1>3. /\ run'.test = run.test /\ run'.mode = run.mode /\ run'.outcome = run.outcome
      /\ run'.made = run.made /\ run'.wrote = run.wrote /\ late' = late
      /\ run'.stage \in {"over", "compacting"}
  BY <1>1 DEF Discard, Finish, Run
<1>4. ~InTest' /\ \A u : LeftBehind(u)' = LeftBehind(u)
  BY <1>3 DEF InTest, LeftBehind
<1>5. CASE Discard
  <2>1. /\ run'.stage = "over" /\ held' = Absent /\ tape'[run.test] = Absent
        /\ \A u \in Tests \ {run.test} : tape'[u] = tape[u] /\ missing'[u] = missing[u]
        /\ cut' = IF LeftBehind(run.test) THEN cut \cup {run.test} ELSE cut \ {run.test}
    BY <1>1, <1>2, <1>5 DEF Discard, Run
  <2>2. \A u \in Tests \ {run.test} : Covered(u)' = Covered(u) /\ Whole(u)' = Whole(u)
    BY <2>1, Untouched
  <2>3. WholeOrAbsent'
    <3> SUFFICES ASSUME NEW u \in Tests \ cut' PROVE Whole(u)'
      BY DEF WholeOrAbsent, Whole, Covered
    <3>1. CASE u = run.test
      BY <2>1, <3>1 DEF Whole
    <3>2. CASE u # run.test
      BY <2>1, <2>2, <3>2 DEF Sound, WholeOrAbsent, Whole, Covered
    <3> QED BY <3>1, <3>2
  <2>4. Completes'
    BY <1>4, <2>1, <2>2 DEF Sound, Completes
  <2> QED BY <1>3, <1>4, <2>1, <2>3, <2>4 DEF Sound, Covers, Stands, InProgress
<1>6. CASE Finish
  <2>1. /\ UNCHANGED <<tape, missing, cut>> /\ ~Discards
        /\ \/ held' = tape[run.test] /\ run'.stage = "compacting"
           \/ held' = Absent /\ run'.stage = "over"
    BY <1>1, <1>6 DEF Finish, history, Run
  <2>2. \A u \in Tests : Covered(u)' = Covered(u) /\ Whole(u)' = Whole(u)
    BY <2>1, Untouched
  <2>3. \A u \in Tests \ cut : Whole(u)
    BY <1>2, <2>1 DEF Sound, WholeOrAbsent, Stands, Whole, Covered
  <2>4. WholeOrAbsent' /\ Stands'
    BY <1>2, <1>3, <1>4, <2>1, <2>2, <2>3 DEF WholeOrAbsent, Stands, Whole, Covered
  <2>5. Completes' /\ Covers'
    BY <1>2, <1>3, <1>4, <2>1, <2>2 DEF Sound, Completes, Covers
  <2>6. held' # Absent =>
          (tape'[run.test] # Absent /\ held' \cup missing'[run.test] = Covered(run.test)')
    BY <1>3, <2>1 DEF Covered, CallsOn
  <2> QED BY <1>3, <1>4, <2>4, <2>5, <2>6 DEF Sound
<1> QED BY <1>5, <1>6

\* A process that ends leaves every tape whole but those it cuts short.
LEMMA SoundEnd ==
    ASSUME TypeOK, Flow, Sound, EndSession \/ Kill \/ \E t \in Tests : KillInAppend(t)
    PROVE  Sound'
<1>0. run \in Run /\ tape \in [Tests -> Tape] /\ Calls \in Nat
  BY SizesAssumption DEF TypeOK
<1>1. /\ run' = NoRun /\ late' = {} /\ held' = Absent /\ missing' = missing
  BY DEF EndSession, Kill, KillInAppend, ProcessEnds
<1>2. /\ ~InProgress' /\ ~InTest' /\ run'.stage = "idle" /\ ~run'.wrote
      /\ \A u : ~LeftBehind(u)'
  BY <1>1 DEF NoRun, InProgress, InTest, LeftBehind
<1>3. (\A u \in Tests \ cut' : Whole(u)') => Sound'
  BY <1>1, <1>2 DEF Sound, WholeOrAbsent, Covers, Stands, Completes, Whole, Covered
<1>4. \A u \in Tests \ cut : ~(u = run.test /\ InProgress) => Whole(u)
  BY DEF Sound, WholeOrAbsent, Whole, Covered
<1>5. ASSUME NEW appending, Dying(appending)
      PROVE  /\ \A u \in Tests \ cut' : Whole(u)
             /\ InProgress /\ run.test \notin cut' =>
                  run.made = Calls \/ (~run.wrote /\ run.test \notin appending)
             /\ cut \subseteq cut'
  <2>1. cut \subseteq cut'
    BY <1>5 DEF Dying
  <2>2. InProgress /\ run.test \notin cut' =>
          run.made = Calls \/ (~run.wrote /\ run.test \notin appending)
    BY <1>0, <1>5 DEF Dying, Run
  <2>3. \A u \in Tests \ cut' : Whole(u)
    BY <1>4, <2>1, <2>2, Settled
  <2> QED BY <2>1, <2>2, <2>3
<1>6. CASE EndSession
  <2>1. tape' = tape /\ cut' = cut /\ ~InProgress
    BY <1>6 DEF EndSession
  <2> QED BY <1>1, <1>3, <1>4, <2>1, Untouched
<1>7. CASE Kill
  <2>1. tape' = tape /\ Dying({})
    BY <1>7 DEF Kill
  <2> QED BY <1>1, <1>3, <1>5, <2>1, Untouched
<1>8. ASSUME NEW t \in Tests, KillInAppend(t) PROVE Sound'
  <2>1. tape' = [tape EXCEPT ![t] = CallsOn(t)] /\ Dying({t})
    BY <1>8 DEF KillInAppend
  <2>2. \A u \in Tests \ {t} : tape'[u] = tape[u] /\ missing'[u] = missing[u]
    BY <1>0, <1>1, <2>1
  <2>3. Covered(t)' = Covered(t)
    BY <1>0, <1>1, <2>1 DEF Covered, CallsOn
  <2>4. ASSUME t \notin cut' PROVE Covered(t) = 1..Calls
    <3>1. CASE t = run.test /\ InTest
      <4>1. InProgress /\ run.made = Calls
        <5>1. InProgress
          BY <3>1 DEF InTest, InProgress
        <5> QED BY <1>5, <2>1, <2>4, <3>1, <5>1
      <4>2. LeftBehind(t)
        BY <1>0, <1>8, <4>1 DEF KillInAppend
      <4>3. Records(run.mode)
        BY <3>1, <4>2 DEF Sound
      <4>4. Covered(t) \subseteq 1..Calls
        BY CallsTyped DEF Covered, TypeOK
      <4> QED BY <3>1, <4>1, <4>3, <4>4 DEF Sound, Covers
    <3>2. CASE ~(t = run.test /\ InTest)
      <4>1. LeftBehind(t) /\ t \notin cut
        BY <1>5, <1>8, <2>1, <2>4, <3>2 DEF KillInAppend, InBody, InTest
      <4> QED BY <3>2, <4>1 DEF Sound, Completes
    <3> QED BY <3>1, <3>2
  <2>5. \A u \in Tests \ cut' : Whole(u)'
    BY <1>5, <2>1, <2>2, <2>3, <2>4, Untouched DEF Whole
  <2> QED BY <1>3, <2>5
<1> QED BY <1>6, <1>7, <1>8

\* Every step keeps Sound.
LEMMA SoundStep ==
    ASSUME TypeOK, Flow, Sound, [Next]_vars
    PROVE  Sound'
<1>1. CASE BlockEnds
  <2>1. held' = tape[run.test] /\ UNCHANGED <<tape, run, late, missing, cut>>
    BY <1>1 DEF BlockEnds, history
  <2> QED BY <2>1 DEF Sound, WholeOrAbsent, Covers, Stands, Completes, Covered, Whole, CallsOn,
                      InProgress, InTest, Discards, LeftBehind
<1>2. ASSUME NEW m \in SessionModes, Configure(m) PROVE Sound'
  BY <1>2, SoundUnchanged DEF Configure, history
<1>3. CASE OpenGuard \/ CloseGuard
  BY <1>3, SoundUnchanged DEF OpenGuard, CloseGuard, history
<1>4. ASSUME NEW t \in Tests, NEW n \in 1..Calls, LateFailure(t, n) PROVE Sound'
  BY <1>4, SoundUnchanged DEF LateFailure, history
<1>5. CASE UNCHANGED vars
  BY <1>5, SoundUnchanged DEF vars, history
<1> QED
  BY <1>1, <1>2, <1>3, <1>4, <1>5, SoundSetup, SoundCall, SoundLate, SoundReplace, SoundPhase,
     SoundTeardown, SoundEnd
  DEF Next

-----------------------------------------------------------------------------
(* The theorems *)

\* The initial state satisfies the invariant.
LEMMA SessionInit ==
    ASSUME Init
    PROVE  SessionInv
<1> USE TestsAssumption, SizesAssumption, HostsAssumption
<1>1. NoRun \in Run /\ NoRun.stage = "idle" /\ NoRun.test = None
  <2>1. 0 \in 0..Calls
    OBVIOUS
  <2> QED BY <2>1 DEF NoRun, Run, Modes
<1>2. GuardTypeOK /\ guards = <<>> /\ connect = Original
  <2>1. <<>> \in Seq(SUBSET Hosts)
    OBVIOUS
  <2> QED BY <2>1 DEF Init, GuardInit, GuardTypeOK
<1>3. TypeOK
  BY <1>1, <1>2 DEF Init, TypeOK, Tape
<1> QED BY <1>1, <1>2, <1>3
        DEF Init, SessionInv, Flow, OwedKept, NothingOwedIsLost, CallsOn, Sound, WholeOrAbsent,
            Covers, Stands, Completes, LeftBehind, GuardsFit, NoRun, InTest, InProgress

\* Every reachable state satisfies the invariant.
LEMMA SessionInvariant == Spec => []SessionInv
<1>1. SessionInv /\ [Next]_vars => SessionInv'
  BY TypeStep, FlowStep, OwedStep, SoundStep, GuardStep DEF SessionInv
<1> QED BY SessionInit, <1>1, PTL DEF Spec

\* The variables of a session keep their types.
THEOREM TypesOfSessions == Spec => []TypeOK
BY SessionInvariant, PTL DEF SessionInv

\* No session, whatever its mode and the death of its process, leaves a tape that
\* lacks a call the model answered, unless a run of that test stopped before its
\* last call without being reported as failed, or was discarded with a call under
\* way (the tear-down of the fixture in plugin.py).
THEOREM TapesAreWholeOrAbsent == Spec => []WholeOrAbsent
BY SessionInvariant, PTL DEF SessionInv, Sound

\* A compaction, a worker left behind, the end of the process and any later
\* session lose nothing of what a test recorded, but what came in during the
\* compaction (finish and discard in recorder.py, the fixture in plugin.py).
THEOREM OwedCallsAreKept == Spec => []NothingOwedIsLost
BY SessionInvariant, PTL DEF SessionInv, OwedKept

\* A test that asked to replay reaches the allowed hosts and no other, and no
\* guard outlives its test (blocked_network under the fixture).
THEOREM GuardsEndWithTheirTest == Spec => []NetworkFollowsTheMode
<1>1. SessionInv => NetworkFollowsTheMode
  <2> SUFFICES ASSUME SessionInv PROVE NetworkFollowsTheMode
    OBVIOUS
  <2>1. ASSUME InTest, Strict(Requested(run.test)), ~reopened, NEW host \in Hosts, Reaches(host)
        PROVE  host \in Loopback \cup AllowedHosts
    <3>1. Len(guards) >= 1
      BY <2>1 DEF SessionInv, GuardsFit, OwnGuards, Guarded
    <3>2. guards # <<>>
      BY <3>1
    <3> QED BY <2>1, <3>2 DEF SessionInv, GuardsFit, Reaches
  <2>2. ASSUME ~InProgress \/ guards = <<>> PROVE connect = Original
    BY <2>2 DEF SessionInv, GuardsFit
  <2> QED BY <2>1, <2>2 DEF NetworkFollowsTheMode, Reaches, InTest
<1> QED BY SessionInvariant, <1>1, PTL

=============================================================================
