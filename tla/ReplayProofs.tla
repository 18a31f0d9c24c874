---------------------------- MODULE ReplayProofs ----------------------------
(* What concurrent recordings leave, what strict runs make of it, and what a *)
(* repair keeps of it, for any questions, modes and bounds.  The first part  *)
(* is about runs that do not repair, with any callers: two repairs at a time *)
(* may leave two interactions with one ordinal (the run fanout_repair),      *)
(* which breaks the account of _served.  Then come two promises that hold    *)
(* whatever repairs meet, and the others for the repairs of one caller.      *)
EXTENDS RecorderProofs

NoRepair == "replay_or_record" \notin OpenModes

Busy == {c \in Callers : call[c].step \notin {"idle", "passing"}}

Active == {c \in Callers : call[c].step # "idle"}

(* The inductive invariant, in parts. *)

\* Calls are numbered without clashes, those in progress and those ended.
Numbered ==
    /\ mode # "replay_or_record"
    /\ phase # "open" => AllIdle
    /\ \A c \in Callers : /\ call[c].place <= ordinal
                          /\ c \in Busy \/ call[c].place = 0
    /\ \A c, d \in Busy : call[c].place = call[d].place => c = d
    /\ \A e \in log : e.place <= ordinal
    /\ \A e \in log, c \in Busy : e.place # call[c].place

\* And without gaps, so that no number exceeds the calls that may be made.
Counted ==
    /\ IsFiniteSet(log) /\ IsFiniteSet(Active)
    /\ phase = "open" /\ mode # "off" =>
          /\ ordinal = Cardinality(log) + Cardinality(Active)
          /\ ordinal <= MaxCalls

\* A recording run extends a tape it found empty, with interactions under the
\* numbers of its calls.
TapeGrows ==
    mode = "record" /\ phase = "open" =>
        /\ \A i \in DOMAIN store : store[i].ordinal <= ordinal
        /\ \A c \in Callers : call[c].step \in {"performing", "answered"} =>
              \A i \in DOMAIN store : store[i].ordinal # call[c].place
        /\ recorded = 0 /\ (\A c \in Callers : call[c].step # "taped") => store = <<>>

TapedCalls == \A c \in Callers : call[c].step = "taped" => OnTape(NewInteraction(c))

Taping == DistinctOrdinals /\ TapeGrows /\ TapedCalls /\ AnsweredIsTaped /\ DiscardLeavesNothing

\* No response is on a tape twice, in the hands of two callers, or both on the
\* tape and still to be recorded.
InHand(c) == call[c].step \in {"answered", "taped"}

TapeOnce == \A i, j \in DOMAIN store : store[i].response = store[j].response => i = j

RepliesOnce ==
    /\ \A c \in Callers : call[c].step = "answered" =>
          \A i \in DOMAIN store : store[i].response # call[c].reply
    /\ \A c, d \in Callers : InHand(c) /\ InHand(d) /\ call[c].reply = call[d].reply => c = d

LiveAnswers == {e \in log : e.source = "live"}

LiveOnce ==
    /\ \A e \in LiveAnswers, c \in Callers : InHand(c) => e.response # call[c].reply
    /\ \A e, f \in LiveAnswers : e.response = f.response => e = f

SourcesFit ==
    \A e \in log : IF mode = "replay" THEN e.source \in {"tape", "drift", "miss"}
                                      ELSE e.source \in {"live", "failed"}

Fresh == TapeOnce /\ RepliesOnce /\ LiveOnce /\ SourcesFit

TapeAnswers == {e \in log : e.source = "tape"}

Refusals == {e \in log : e.source \in {"drift", "miss"}}

AllServed(q) ==
    \A i \in DOMAIN store : store[i].fingerprint = q => store[i].ordinal \in served

\* A strict run has served what its callers were given and nothing else, and
\* everything that a caller it sends away could have been given.
Serving ==
    mode = "replay" =>
        /\ loaded \in {None, store}
        /\ \A n \in served : \E i \in DOMAIN store : store[i].ordinal = n
        /\ \A i \in DOMAIN store : store[i].ordinal \in served =>
              \E e \in TapeAnswers : e.response = store[i].response
        /\ \A e \in TapeAnswers : \E i \in DOMAIN store :
              /\ store[i].response = e.response /\ store[i].fingerprint = e.question
              /\ store[i].ordinal \in served
        /\ \A e, f \in TapeAnswers : e.response = f.response => e = f
        /\ \A c \in Callers : call[c].step = "missed" => AllServed(call[c].question)
        /\ \A e \in Refusals : AllServed(e.question)

InPlace(e) == Has(store, e.place) /\ Get(store, e.place).fingerprint = e.question

\* As long as every call asks what the tape holds at its place, what has been
\* served are exactly the places of the calls.
Ordered ==
    mode = "replay" /\ (\A e \in log : InPlace(e)) =>
        /\ \A e \in log : e.source = "tape" /\ e.response = Get(store, e.place).response
        /\ served = {e.place : e \in log}

RunInv == Numbered /\ Counted /\ Taping /\ Fresh /\ Serving /\ Ordered

-----------------------------------------------------------------------------
(* The steps of a run that does not repair *)

\* What a caller does once it has asked, without truncate_from.
LEMMA Steady ==
    ASSUME Inv, mode # "replay_or_record", NEW c \in Callers, Proceed(c)
    PROVE  \/ ClaimHit(c) \/ ClaimMiss(c) \/ RefuseDrift(c) \/ RefuseMiss(c)
           \/ Perform(c) \/ Pass(c) \/ RecordStored(c) \/ RecordCounted(c)
<1>1. CallFits(c) /\ mode \in {"record", "replay", "off"}
  BY DEF Inv, TypeOK, CallsFit
<1>2. ~Extend(c) /\ ~Drift(c)
  BY <1>1 DEF CallFits, Extend, Drift, Strict
<1>3. ~Keep(c) /\ ~Delete(c) /\ ~Reset(c)
  BY <1>1 DEF CallFits, Keep, Delete, Reset
<1>4. ~RestoreStored(c) /\ ~RestoreCached(c) /\ ~DropStale(c) /\ ~Restored(c)
  BY <1>1 DEF CallFits, RestoreStored, RestoreCached, DropStale, Restored
<1> QED BY <1>2, <1>3, <1>4 DEF Proceed

\* What may go wrong for it: of a repair nothing can.
LEMMA SteadyFails ==
    ASSUME Inv, mode # "replay_or_record", NEW c \in Callers, Fails(c)
    PROVE  PerformFails(c) \/ RecordFails(c)
<1>1. CallFits(c) /\ mode \in {"record", "replay", "off"}
  BY DEF Inv, TypeOK, CallsFit
<1>2. ~DriftRaises(c) /\ ~DeleteFails(c) /\ ~RestoreFails(c)
  BY <1>1 DEF CallFits, DriftRaises, DeleteFails, RestoreFails, Strict
<1> QED BY <1>2 DEF Fails

\* The steps of a run, sorted by what becomes of the caller.
LEMMA RunSteps ==
    ASSUME Inv, mode # "replay_or_record", [Next]_vars
    PROVE  \/ \E m \in OpenModes : Open(m)
           \/ \E c \in Callers, q \in Questions : AskOff(c, q) \/ Ask(c, q)
           \/ \E c \in Callers : ClaimMiss(c) \/ Perform(c) \/ RecordStored(c)
           \/ \E c \in Callers :
                 \/ ClaimHit(c) \/ RefuseDrift(c) \/ RefuseMiss(c) \/ Pass(c)
                 \/ RecordCounted(c) \/ PerformFails(c) \/ RecordFails(c)
           \/ \E next \in {"open", "finished"} : Finish(next)
           \/ Discard \/ Crash \/ UNCHANGED vars
BY Steady, SteadyFails DEF Next

\* A caller that returns is idle and leaves one entry in the history.
LEMMA Returned ==
    ASSUME TypeOK, NEW c \in Callers, NEW response, NEW source, Return(c, response, source)
    PROVE  /\ call'[c] = Idle
           /\ \A d \in Callers \ {c} : call'[d] = call[d]
           /\ log' = log \cup {[place |-> call[c].place, question |-> call[c].question,
                                response |-> response, source |-> source]}
BY DEF TypeOK, CallState, Return

\* The steps that end a call, with how they do.
LEMMA Endings ==
    ASSUME NEW c \in Callers,
           \/ ClaimHit(c) \/ RefuseDrift(c) \/ RefuseMiss(c) \/ Pass(c)
           \/ RecordCounted(c) \/ PerformFails(c) \/ RecordFails(c)
    PROVE  /\ call[c].step # "idle"
           /\ \E response, source : Return(c, response, source)
           /\ UNCHANGED <<mode, phase, ordinal, store>>
BY DEF ClaimHit, RefuseDrift, RefuseMiss, Pass, RecordCounted, PerformFails, RecordFails,
       recorderVars, tapeVars

-----------------------------------------------------------------------------
(* Numbers *)

\* A call that goes on keeps its number.
LEMMA NumberedMove ==
    ASSUME Inv, Numbered, NEW c \in Callers, call[c].step # "idle",
           NEW moved, call' = [call EXCEPT ![c] = moved],
           moved.place = call[c].place,
           moved.step \notin {"idle", "passing"}, c \in Busy,
           UNCHANGED <<mode, phase, ordinal, log>>
    PROVE  Numbered'
<1>1. phase = "open"
  BY DEF Numbered, AllIdle
<1>2. call'[c] = moved /\ \A d \in Callers \ {c} : call'[d] = call[d]
  BY DEF Inv, TypeOK
<1>3. Busy' = Busy /\ \A d \in Callers : call'[d].place = call[d].place
  BY <1>2 DEF Busy
<1> QED BY <1>1, <1>3 DEF Numbered

\* A call that ends takes its number into the history.
LEMMA NumberedReturn ==
    ASSUME Inv, Numbered, NEW c \in Callers, call[c].step # "idle",
           \E response, source : Return(c, response, source),
           UNCHANGED <<mode, phase, ordinal>>
    PROVE  Numbered'
<1>1. phase = "open"
  BY DEF Numbered, AllIdle
<1>2. PICK response, source : Return(c, response, source)
  OBVIOUS
<1>3. /\ call'[c].step = "idle" /\ call'[c].place = 0
      /\ \A d \in Callers \ {c} : call'[d] = call[d]
      /\ log' = log \cup {[place |-> call[c].place, question |-> call[c].question,
                           response |-> response, source |-> source]}
  BY <1>2, Returned DEF Inv, Idle
<1>4. Busy' = Busy \ {c} /\ \A d \in Busy' : call'[d] = call[d]
  BY <1>3 DEF Busy
<1>5. call[c].place <= ordinal /\ 0 <= ordinal
  BY DEF Numbered, Inv, TypeOK
<1>6. \A d \in Busy' : call[d].place # call[c].place
  <2>1. mode \in {"record", "replay", "off"} /\ \A d \in Callers : CallFits(d)
    BY DEF Numbered, Inv, TypeOK, CallsFit
  <2>2. c \in Busy \/ Busy = {}
    BY <2>1 DEF CallFits, Busy
  <2> QED BY <1>4, <2>2 DEF Numbered
<1> QED BY <1>1, <1>3, <1>4, <1>5, <1>6 DEF Numbered

\* A call that begins takes the next number.
LEMMA Begun ==
    ASSUME TypeOK, NEW c \in Callers, NEW step \in Steps, NEW q \in Questions,
           NEW place \in Nat, Begin(c, step, q, place)
    PROVE  /\ call'[c].step = step /\ call'[c].place = place
           /\ \A d \in Callers \ {c} : call'[d] = call[d]
BY DEF TypeOK, Begin

\* Every step keeps the numbers apart.
LEMMA NumberedStep ==
    ASSUME NoRepair, Inv, Numbered, [Next]_vars
    PROVE  Numbered'
<1> USE DEF Inv
<1>1. ASSUME NEW m \in OpenModes, Open(m) PROVE Numbered'
  <2>1. mode' # "replay_or_record"
    BY <1>1, ModesAssumption DEF NoRepair, Open, Resolve, Modes
  <2>2. log' = {} /\ phase' = "open" /\ ordinal' = 0 /\ call' = call
    BY <1>1 DEF Open
  <2>3. Busy' = {}
    BY <1>1, <2>2 DEF Open, AllIdle, Busy
  <2>4. \A c \in Callers : call[c].place = 0
    BY <1>1 DEF Open, AllIdle, Numbered, Busy
  <2> QED BY <2>1, <2>2, <2>3, <2>4 DEF Numbered
<1>2. ASSUME NEW c \in Callers, NEW q \in Questions, AskOff(c, q) PROVE Numbered'
  <2>1. /\ call'[c].step = "passing" /\ call'[c].place = 0
        /\ \A d \in Callers \ {c} : call'[d] = call[d]
    <3>1. Begin(c, "passing", q, 0)
      BY <1>2 DEF AskOff
    <3> QED BY <3>1, Begun DEF Steps
  <2>0. UNCHANGED <<mode, phase, ordinal, log>> /\ phase = "open"
    BY <1>2 DEF AskOff, recorderVars, historyVars
  <2>2. Busy' = Busy /\ \A d \in Busy' : call'[d] = call[d]
    BY <1>2, <2>1 DEF Busy, AskOff
  <2>3. \A d \in Callers : /\ call'[d].place <= ordinal
                           /\ d \in Busy' \/ call'[d].place = 0
    BY <2>1, <2>2 DEF Numbered, TypeOK
  <2> QED BY <2>0, <2>2, <2>3 DEF Numbered
<1>3. ASSUME NEW c \in Callers, NEW q \in Questions, Ask(c, q) PROVE Numbered'
  <2>1. /\ call'[c].place = ordinal + 1
        /\ \A d \in Callers \ {c} : call'[d] = call[d]
        /\ call'[c].step \notin {"idle", "passing"}
    <3>1. PICK step \in {"deciding", "performing"} : Begin(c, step, q, ordinal + 1)
      BY <1>3 DEF Ask, NextOrdinal
    <3>2. step \in Steps /\ ordinal + 1 \in Nat
      BY DEF Steps, TypeOK
    <3> QED BY <3>1, <3>2, Begun
  <2>0. ordinal' = ordinal + 1 /\ UNCHANGED <<mode, phase, log>> /\ phase = "open"
    BY <1>3 DEF Ask, NextOrdinal, historyVars
  <2>2. Busy' = Busy \cup {c}
    BY <2>1 DEF Busy
  <2>3. \A d \in Callers : call[d].place \in Nat /\ ordinal \in Nat
    BY DEF TypeOK, CallState
  <2>4. \A e \in log : e.place \in Nat
    BY DEF TypeOK
  <2>5. \A d \in Callers : /\ call'[d].place <= ordinal + 1
                           /\ d \in Busy' \/ call'[d].place = 0
    BY <2>1, <2>2, <2>3 DEF Numbered
  <2>6. \A a, b \in Busy' : call'[a].place = call'[b].place => a = b
    BY <2>1, <2>2, <2>3 DEF Numbered, Busy
  <2>7. \A e \in log : e.place <= ordinal + 1 /\ \A d \in Busy' : e.place # call'[d].place
    <3> SUFFICES ASSUME NEW e \in log
                 PROVE  e.place <= ordinal + 1 /\ \A d \in Busy' : e.place # call'[d].place
      OBVIOUS
    <3>1. e.place <= ordinal /\ e.place \in Nat
      BY <2>4 DEF Numbered
    <3>2. \A d \in Busy \ {c} : e.place # call'[d].place
      BY <2>1 DEF Numbered, Busy
    <3> QED BY <2>1, <2>2, <2>3, <3>1, <3>2
  <2> QED BY <2>0, <2>5, <2>6, <2>7 DEF Numbered
<1>4. ASSUME NEW c \in Callers, ClaimMiss(c) \/ Perform(c) \/ RecordStored(c) PROVE Numbered'
  <2> SUFFICES \E moved : /\ call' = [call EXCEPT ![c] = moved]
                          /\ moved.place = call[c].place
                          /\ moved.step \notin {"idle", "passing"} /\ c \in Busy
    BY <1>4, NumberedMove DEF ClaimMiss, Perform, RecordStored, recorderVars, historyVars
  <2>1. c \in Busy
    BY <1>4 DEF ClaimMiss, Perform, RecordStored, Busy
  <2>2. /\ call'[c].place = call[c].place /\ call'[c].step \notin {"idle", "passing"}
        /\ call' = [call EXCEPT ![c] = call'[c]]
    <3>1. CASE ClaimMiss(c)
      BY <3>1 DEF ClaimMiss, Goto, TypeOK, CallState
    <3>2. CASE Perform(c)
      BY <3>2 DEF Perform, TypeOK, CallState
    <3>3. CASE RecordStored(c)
      BY <3>3 DEF RecordStored, Goto, TypeOK, CallState
    <3> QED BY <1>4, <3>1, <3>2, <3>3
  <2> QED BY <2>1, <2>2
<1>5. ASSUME NEW c \in Callers,
             \/ ClaimHit(c) \/ RefuseDrift(c) \/ RefuseMiss(c) \/ Pass(c)
             \/ RecordCounted(c) \/ PerformFails(c) \/ RecordFails(c)
      PROVE  Numbered'
  BY <1>5, Endings, NumberedReturn
<1>6. ASSUME (\E next \in {"open", "finished"} : Finish(next)) \/ Discard \/ UNCHANGED vars
      PROVE  Numbered'
  <2>1. /\ UNCHANGED <<mode, ordinal, call, log>>
        /\ phase' = phase \/ AllIdle
    BY <1>6 DEF Finish, Discard, vars, recorderVars, historyVars
  <2> QED BY <2>1 DEF Numbered, AllIdle, Busy
<1>7. ASSUME Crash PROVE Numbered'
  <2>1. Busy' = {} /\ \A c \in Callers : call'[c].place = 0 /\ call'[c].step = "idle"
    BY <1>7 DEF Crash, Busy, Idle
  <2>2. UNCHANGED <<mode, ordinal, log>> /\ ordinal \in Nat
    BY <1>7 DEF Crash, historyVars, TypeOK
  <2> QED BY <2>1, <2>2 DEF Numbered, AllIdle
<1> QED BY <1>1, <1>2, <1>3, <1>4, <1>5, <1>6, <1>7, RunSteps DEF Numbered

-----------------------------------------------------------------------------
(* The count of calls *)

\* A call that goes on is still one call.
LEMMA CountedMove ==
    ASSUME Counted, Active' = Active, UNCHANGED <<mode, phase, ordinal, log>>
    PROVE  Counted'
BY DEF Counted

\* A call that ends moves from the callers to the history.
LEMMA CountedReturn ==
    ASSUME Inv, Numbered, Counted, NEW c \in Active,
           \E response, source : Return(c, response, source),
           UNCHANGED <<mode, phase, ordinal>>
    PROVE  Counted'
<1>1. PICK response, source : Return(c, response, source)
  OBVIOUS
<1> DEFINE entry == [place |-> call[c].place, question |-> call[c].question,
                     response |-> response, source |-> source]
<1>2. c \in Callers
  BY DEF Active
<1>3. call'[c] = Idle /\ (\A d \in Callers \ {c} : call'[d] = call[d]) /\ log' = log \cup {entry}
  BY <1>1, <1>2, Returned DEF Inv
<1>4. Active' = Active \ {c}
  BY <1>2, <1>3 DEF Active, Idle
<1>5. IsFiniteSet(Active') /\ Cardinality(Active') = Cardinality(Active) - 1
  BY <1>4, FS_RemoveElement DEF Counted
<1>6. IsFiniteSet(log') /\ (entry \notin log => Cardinality(log') = Cardinality(log) + 1)
  BY <1>3, FS_AddElement DEF Counted
<1>7. mode # "off" => entry \notin log
  <2> SUFFICES ASSUME mode # "off" PROVE entry \notin log
    OBVIOUS
  <2>1. c \in Busy
    BY <1>2 DEF Inv, TypeOK, CallsFit, CallFits, Numbered, Active, Busy
  <2>2. entry.place = call[c].place
    OBVIOUS
  <2> QED BY <2>1, <2>2 DEF Numbered
<1>8. Cardinality(log) \in Nat /\ Cardinality(Active) \in Nat
  BY FS_CardinalityType DEF Counted
<1> QED BY <1>5, <1>6, <1>7, <1>8 DEF Counted

\* Every step keeps the numbers without gaps.
LEMMA CountedStep ==
    ASSUME Inv, Numbered, Counted, [Next]_vars
    PROVE  Counted'
<1> USE DEF Inv
<1>0. Cardinality(log) \in Nat /\ Cardinality(Active) \in Nat
  BY FS_CardinalityType DEF Counted
<1>1. ASSUME NEW m \in OpenModes, Open(m) PROVE Counted'
  <2>1. log' = {} /\ Active' = {} /\ ordinal' = 0
    BY <1>1 DEF Open, AllIdle, Active
  <2> QED BY <2>1, FS_EmptySet, BoundsAssumption DEF Counted
<1>2. ASSUME NEW c \in Callers, NEW q \in Questions, AskOff(c, q) \/ Ask(c, q) PROVE Counted'
  <2>1. /\ \E step \in {"passing", "deciding", "performing"}, place \in Nat : Begin(c, step, q, place)
        /\ call[c].step = "idle" /\ CallsMade < MaxCalls /\ phase = "open"
        /\ UNCHANGED <<mode, phase, log>>
        /\ mode # "off" => ordinal' = ordinal + 1
    BY <1>2 DEF AskOff, Ask, recorderVars, historyVars, NextOrdinal, TypeOK
  <2>2. call'[c].step # "idle" /\ \A d \in Callers \ {c} : call'[d] = call[d]
    <3>1. PICK step \in {"passing", "deciding", "performing"}, place \in Nat :
              Begin(c, step, q, place)
      BY <2>1
    <3> QED BY <3>1, Begun DEF Steps
  <2>3. Active' = Active \cup {c} /\ c \notin Active
    BY <2>1, <2>2 DEF Active
  <2>4. IsFiniteSet(Active') /\ Cardinality(Active') = Cardinality(Active) + 1
    BY <2>3, FS_AddElement DEF Counted
  <2>5. CallsMade = Cardinality(log) + Cardinality(Active)
    BY DEF CallsMade, Active
  <2> QED BY <1>0, <2>1, <2>4, <2>5, BoundsAssumption DEF Counted
<1>3. ASSUME NEW c \in Callers, ClaimMiss(c) \/ Perform(c) \/ RecordStored(c) PROVE Counted'
  <2>1. /\ call[c].step # "idle" /\ call'[c].step # "idle"
        /\ \A d \in Callers \ {c} : call'[d] = call[d]
        /\ UNCHANGED <<mode, phase, ordinal, log>>
    BY <1>3 DEF ClaimMiss, Perform, RecordStored, Goto, TypeOK, CallState, recorderVars,
       historyVars
  <2>2. Active' = Active
    BY <2>1 DEF Active
  <2> QED BY <2>1, <2>2, CountedMove
<1>4. ASSUME NEW c \in Callers,
             \/ ClaimHit(c) \/ RefuseDrift(c) \/ RefuseMiss(c) \/ Pass(c)
             \/ RecordCounted(c) \/ PerformFails(c) \/ RecordFails(c)
      PROVE  Counted'
  BY <1>4, Endings, CountedReturn DEF Active
<1>5. ASSUME (\E next \in {"open", "finished"} : Finish(next)) \/ Discard \/ UNCHANGED vars
      PROVE  Counted'
  <2>1. /\ UNCHANGED <<mode, ordinal, call, log>>
        /\ phase' = "open" => phase = "open"
    BY <1>5 DEF Finish, Discard, vars, recorderVars, historyVars
  <2> QED BY <2>1 DEF Counted, Active
<1>6. ASSUME Crash PROVE Counted'
  <2>1. Active' = {} /\ log' = log /\ phase' = "closed"
    BY <1>6 DEF Crash, Active, Idle, historyVars
  <2> QED BY <2>1, FS_EmptySet DEF Counted
<1> QED BY <1>1, <1>2, <1>3, <1>4, <1>5, <1>6, RunSteps DEF Numbered

-----------------------------------------------------------------------------
(* What a recording run leaves on the tape *)

\* An interaction appended to a tape stands behind all that were there.
LEMMA Appended ==
    ASSUME NEW tape \in Seq(Interaction), NEW x \in Interaction
    PROVE  /\ \A i \in DOMAIN tape : /\ i \in DOMAIN Append(tape, x)
                                     /\ Append(tape, x)[i] = tape[i]
           /\ \E i \in DOMAIN Append(tape, x) : Append(tape, x)[i] = x
           /\ \A i \in DOMAIN Append(tape, x) :
                 \/ i \in DOMAIN tape /\ Append(tape, x)[i] = tape[i]
                 \/ i = Len(tape) + 1 /\ Append(tape, x)[i] = x
<1>1. /\ Append(tape, x) \in Seq(Interaction)
      /\ Len(Append(tape, x)) = Len(tape) + 1
      /\ \A i \in 1..Len(tape) : Append(tape, x)[i] = tape[i]
      /\ Append(tape, x)[Len(tape) + 1] = x
      /\ Len(tape) \in Nat
  OBVIOUS
<1>2. DOMAIN tape = 1..Len(tape) /\ DOMAIN Append(tape, x) = 1..(Len(tape) + 1)
  BY <1>1
<1> QED BY <1>1, <1>2

\* Every step of a run keeps its tape in order.
LEMMA TapingStep ==
    ASSUME NoRepair, Inv, Numbered, Numbered', Taping, [Next]_vars
    PROVE  Taping'
<1> USE DEF Inv
<1> DEFINE all == /\ DistinctOrdinals' /\ TapeGrows' /\ TapedCalls'
                  /\ AnsweredIsTaped' /\ DiscardLeavesNothing'
<1>0. /\ mode \in {"record", "replay", "off"}
      /\ \A c \in Callers : CallFits(c)
  BY DEF Numbered, TypeOK, CallsFit
<1>1. ASSUME NEW m \in OpenModes, Open(m) PROVE all
  <2>1. store' = <<>> \/ (store' = store /\ mode' # "record")
    BY <1>1 DEF Open
  <2>2. /\ phase' = "open" /\ log' = {} /\ call' = call
        /\ \A c \in Callers : call[c].step = "idle"
    BY <1>1 DEF Open, AllIdle
  <2>3. DistinctOrdinals' /\ TapeGrows'
    BY <2>1, <2>2 DEF Taping, DistinctOrdinals, TapeGrows
  <2>4. TapedCalls' /\ AnsweredIsTaped' /\ DiscardLeavesNothing'
    BY <2>2 DEF TapedCalls, AnsweredIsTaped, DiscardLeavesNothing
  <2> QED BY <2>3, <2>4
<1>2. ASSUME NEW c \in Callers, NEW q \in Questions, AskOff(c, q) \/ Ask(c, q) PROVE all
  <2>1. /\ UNCHANGED <<store, log, mode, phase, recorded>> /\ phase = "open"
        /\ call[c].step = "idle"
    BY <1>2 DEF AskOff, Ask, recorderVars, tapeVars, historyVars
  <2>2. PICK step \in {"passing", "deciding", "performing"}, place \in Nat :
           /\ Begin(c, step, q, place)
           /\ mode = "record" => place = ordinal + 1 /\ ordinal' = ordinal + 1
    BY <1>2 DEF AskOff, Ask, NextOrdinal, TypeOK
  <2>3. /\ call'[c].step = step /\ call'[c].place = place
        /\ \A d \in Callers \ {c} : call'[d] = call[d]
    BY <2>2, Begun DEF Steps
  <2>4. DistinctOrdinals' /\ AnsweredIsTaped' /\ DiscardLeavesNothing'
    BY <2>1 DEF Taping, DistinctOrdinals, AnsweredIsTaped, DiscardLeavesNothing, OnTape, Taped
  <2>5. TapedCalls'
    BY <2>1, <2>3 DEF Taping, TapedCalls, OnTape, NewInteraction
  <2>6. ASSUME mode = "record" PROVE TapeGrows'
    <3>0. \A i \in DOMAIN store : store[i] \in Interaction
      BY DEF TypeOK
    <3>1. ordinal \in Nat /\ \A i \in DOMAIN store : store[i].ordinal \in Nat
      BY <3>0 DEF TypeOK, Interaction
    <3>2. \A i \in DOMAIN store : store[i].ordinal <= ordinal + 1 /\ store[i].ordinal # place
      BY <2>1, <2>2, <2>6, <3>1 DEF Taping, TapeGrows
    <3> QED BY <2>1, <2>2, <2>3, <2>6, <3>2 DEF Taping, TapeGrows
  <2> QED BY <2>1, <2>4, <2>5, <2>6 DEF TapeGrows
<1>3. ASSUME NEW c \in Callers, ClaimMiss(c) PROVE all
  <2>1. UNCHANGED <<store, log, mode, phase>> /\ mode = "replay"
    BY <1>0, <1>3 DEF ClaimMiss, recorderVars, historyVars, CallFits
  <2>2. call'[c].step = "missed" /\ \A d \in Callers \ {c} : call'[d] = call[d]
    BY <1>3 DEF ClaimMiss, Goto, TypeOK, CallState
  <2> QED BY <2>1, <2>2 DEF Taping, DistinctOrdinals, TapeGrows, TapedCalls, AnsweredIsTaped,
             DiscardLeavesNothing, OnTape, NewInteraction
<1>4. ASSUME NEW c \in Callers,
             ClaimHit(c) \/ RefuseDrift(c) \/ RefuseMiss(c) \/ Pass(c)
      PROVE  all
  <2>1. UNCHANGED <<store, mode, phase>> /\ mode \in {"replay", "off"}
    BY <1>0, <1>4 DEF ClaimHit, RefuseDrift, RefuseMiss, Pass, recorderVars, tapeVars, CallFits
  <2>2. call'[c].step = "idle" /\ \A d \in Callers \ {c} : call'[d] = call[d]
    BY <1>4, Endings, Returned DEF Idle
  <2> QED BY <2>1, <2>2 DEF Taping, DistinctOrdinals, TapeGrows, TapedCalls, AnsweredIsTaped,
             DiscardLeavesNothing, OnTape, NewInteraction
<1>5. ASSUME NEW c \in Callers, Perform(c) PROVE all
  <2>1. UNCHANGED <<store, log, mode, phase, ordinal, recorded>> /\ call[c].step = "performing"
    BY <1>5 DEF Perform, recorderVars, tapeVars, historyVars
  <2>2. /\ call'[c].step = "answered" /\ call'[c].place = call[c].place
        /\ \A d \in Callers \ {c} : call'[d] = call[d]
    BY <1>5 DEF Perform, TypeOK, CallState
  <2>3. DistinctOrdinals' /\ AnsweredIsTaped' /\ DiscardLeavesNothing'
    BY <2>1 DEF Taping, DistinctOrdinals, AnsweredIsTaped, DiscardLeavesNothing, OnTape, Taped
  <2>4. TapedCalls' /\ TapeGrows'
    BY <2>1, <2>2 DEF Taping, TapedCalls, TapeGrows, OnTape, NewInteraction
  <2> QED BY <2>3, <2>4
<1>6. ASSUME NEW c \in Callers, RecordStored(c) PROVE all
  <2>1. /\ UNCHANGED <<log, mode, phase, ordinal, recorded>> /\ call[c].step = "answered"
        /\ store' = Append(store, NewInteraction(c))
    BY <1>6 DEF RecordStored, recorderVars, historyVars
  <2>2. /\ call'[c].step = "taped" /\ NewInteraction(c)' = NewInteraction(c)
        /\ call'[c].place = call[c].place
        /\ \A d \in Callers \ {c} : call'[d] = call[d]
    BY <1>6 DEF RecordStored, Goto, TypeOK, CallState, NewInteraction, recorderVars
  <2>3. /\ mode = "record" /\ phase = "open" /\ c \in Busy
    BY <1>0, <2>1 DEF CallFits, Numbered, AllIdle, Busy
  <2>4. NewInteraction(c) \in Interaction /\ store \in Seq(Interaction)
    BY <2>1, NewInteractionTyped DEF TypeOK
  <2>5. /\ \A i \in DOMAIN store : i \in DOMAIN store' /\ store'[i] = store[i]
        /\ \E i \in DOMAIN store' : store'[i] = NewInteraction(c)
        /\ \A i \in DOMAIN store' :
              \/ i \in DOMAIN store /\ store'[i] = store[i]
              \/ i = Len(store) + 1 /\ store'[i] = NewInteraction(c)
    BY <2>1, <2>4, Appended
  <2>6. NewInteraction(c).ordinal = call[c].place /\ call[c].place <= ordinal
    BY DEF NewInteraction, Numbered
  <2>7. DistinctOrdinals'
    BY <2>1, <2>3, <2>5, <2>6 DEF Taping, DistinctOrdinals, TapeGrows
  <2>8. AnsweredIsTaped' /\ DiscardLeavesNothing'
    BY <2>1, <2>3, <2>5 DEF Taping, AnsweredIsTaped, DiscardLeavesNothing, OnTape, Taped
  <2>9. TapedCalls'
    <3>1. \A d \in Callers : NewInteraction(d)' = NewInteraction(d)
      BY <2>2 DEF NewInteraction
    <3> QED BY <2>2, <2>5, <3>1 DEF Taping, TapedCalls, OnTape
  <2>10. TapeGrows'
    <3>1. \A d \in Callers \ {c} : call[d].step \in {"performing", "answered"} =>
              call[d].place # call[c].place
      BY <2>3 DEF Numbered, Busy
    <3>2. \A i \in DOMAIN store' : store'[i].ordinal <= ordinal
      BY <2>3, <2>5, <2>6 DEF Taping, TapeGrows
    <3>3. ASSUME NEW d \in Callers, call'[d].step \in {"performing", "answered"},
                 NEW i \in DOMAIN store'
          PROVE  store'[i].ordinal # call'[d].place
      <4>1. d # c /\ call'[d] = call[d]
        BY <2>2, <3>3
      <4> QED BY <2>3, <2>5, <2>6, <3>1, <3>3, <4>1 DEF Taping, TapeGrows
    <3> QED BY <2>1, <2>2, <3>2, <3>3 DEF TapeGrows
  <2> QED BY <2>7, <2>8, <2>9, <2>10
<1>7. ASSUME NEW c \in Callers, RecordCounted(c) PROVE all
  <2>1. /\ UNCHANGED <<store, mode, phase, ordinal>> /\ recorded' = recorded + 1
        /\ Return(c, call[c].reply, "live") /\ call[c].step = "taped"
    BY <1>7 DEF RecordCounted
  <2>2. /\ call'[c].step = "idle" /\ \A d \in Callers \ {c} : call'[d] = call[d]
        /\ log' = log \cup {[place |-> call[c].place, question |-> call[c].question,
                             response |-> call[c].reply, source |-> "live"]}
    BY <2>1, Returned DEF Idle
  <2>3. mode = "record" /\ phase = "open"
    BY <1>0, <2>1 DEF CallFits, Numbered, AllIdle
  <2>4. DistinctOrdinals' /\ DiscardLeavesNothing' /\ TapedCalls'
    BY <2>1, <2>2, <2>3 DEF Taping, DistinctOrdinals, DiscardLeavesNothing, TapedCalls, OnTape,
       NewInteraction
  <2>5. TapeGrows'
    <3>1. recorded' # 0
      BY <2>1 DEF TypeOK
    <3> QED BY <2>1, <2>2, <3>1 DEF Taping, TapeGrows
  <2>6. AnsweredIsTaped'
    <3>1. OnTape(NewInteraction(c))
      BY <2>1 DEF Taping, TapedCalls
    <3> QED BY <2>1, <2>2, <2>3, <3>1 DEF Taping, AnsweredIsTaped, OnTape, Taped, NewInteraction
  <2> QED BY <2>4, <2>5, <2>6
<1>8. ASSUME NEW c \in Callers, PerformFails(c) \/ RecordFails(c) PROVE all
  <2>1. /\ UNCHANGED <<store, mode, phase, ordinal, recorded>>
        /\ Return(c, 0, "failed") /\ call[c].step \in {"performing", "passing", "answered"}
    BY <1>8 DEF PerformFails, RecordFails, recorderVars, tapeVars
  <2>2. /\ call'[c].step = "idle" /\ \A d \in Callers \ {c} : call'[d] = call[d]
        /\ log' = log \cup {[place |-> call[c].place, question |-> call[c].question,
                             response |-> 0, source |-> "failed"]}
    BY <2>1, Returned DEF Idle
  <2>3. phase = "open"
    BY <2>1 DEF Numbered, AllIdle
  <2>4. DistinctOrdinals' /\ DiscardLeavesNothing' /\ TapedCalls' /\ TapeGrows'
    BY <2>1, <2>2, <2>3 DEF Taping, DistinctOrdinals, DiscardLeavesNothing, TapedCalls, OnTape,
       NewInteraction, TapeGrows
  <2>5. AnsweredIsTaped'
    BY <2>1, <2>2 DEF Taping, AnsweredIsTaped, OnTape, Taped
  <2> QED BY <2>4, <2>5
<1>9. ASSUME (\E next \in {"open", "finished"} : Finish(next)) \/ UNCHANGED vars PROVE all
  <2>1. /\ UNCHANGED <<store, mode, ordinal, recorded, log, call>>
        /\ (phase' \in {"open", "finished"} /\ phase = "open") \/ phase' = phase
    BY <1>9 DEF Finish, vars, recorderVars, tapeVars, historyVars
  <2> QED BY <2>1 DEF Taping, DistinctOrdinals, DiscardLeavesNothing, TapedCalls, OnTape,
             NewInteraction, TapeGrows, AnsweredIsTaped, Taped
<1>10. ASSUME Discard PROVE all
  <2>1. /\ UNCHANGED <<mode, call>> /\ phase' = "discarded" /\ phase = "open"
        /\ store' \in {store, <<>>}
        /\ \A c \in Callers : call[c].step = "idle"
    BY <1>10 DEF Discard, AllIdle
  <2>2. mode = "record" => store' = <<>>
    BY <1>10, <2>1 DEF Discard, Taping, TapeGrows, TypeOK
  <2> QED BY <2>1, <2>2 DEF Taping, DistinctOrdinals, DiscardLeavesNothing, TapedCalls,
             TapeGrows, AnsweredIsTaped
<1>11. ASSUME Crash PROVE all
  <2>1. /\ UNCHANGED <<mode, store, log>> /\ phase' = "closed" /\ phase = "open"
        /\ \A c \in Callers : call'[c].step = "idle"
    BY <1>11 DEF Crash, Idle, tapeVars, historyVars
  <2> QED BY <2>1 DEF Taping, DistinctOrdinals, DiscardLeavesNothing, TapedCalls,
             TapeGrows, AnsweredIsTaped, OnTape, Taped
<1> HIDE DEF all
<1>12. all
  BY <1>1, <1>2, <1>3, <1>4, <1>5, <1>6, <1>7, <1>8, <1>9, <1>10, <1>11, RunSteps DEF Numbered
<1> QED BY <1>12 DEF all, Taping

-----------------------------------------------------------------------------
(* Each response once *)

\* A caller that has nothing in hand, and returns no live answer, adds no
\* response to those there are.
LEMMA FreshIdle ==
    ASSUME Fresh, NEW c \in Callers, store' = store,
           \A d \in Callers \ {c} : call'[d] = call[d],
           call'[c].step \notin {"answered", "taped"},
           \A e \in LiveAnswers' : e \in LiveAnswers,
           SourcesFit'
    PROVE  Fresh'
BY DEF Fresh, TapeOnce, RepliesOnce, LiveOnce, InHand

\* The model's next answer is none of those it gave.
LEMMA NextAnswer ==
    ASSUME Inv, AnswersGenuine
    PROVE  /\ \A i \in DOMAIN store : store[i].response # Len(live) + 1
           /\ \A c \in Callers : InHand(c) => call[c].reply # Len(live) + 1
           /\ \A e \in LiveAnswers : e.response # Len(live) + 1
<1>1. \A n \in DOMAIN live : n # Len(live) + 1
  BY DEF Inv, TypeOK
<1>2. \A i \in DOMAIN store : store[i].response \in DOMAIN live
  BY DEF AnswersGenuine, AnswersIn, GenuineTape, Genuine
<1>3. \A c \in Callers : InHand(c) => call[c].reply \in DOMAIN live
  BY DEF AnswersGenuine, AnswersIn, GenuineCall, Genuine, NewInteraction, InHand
<1>4. \A e \in LiveAnswers : e.response \in DOMAIN live
  BY DEF AnswersGenuine, AnswersIn, Genuine, Taped, LiveAnswers, Answered
<1> QED BY <1>1, <1>2, <1>3, <1>4

\* Every step of a run keeps responses apart.
LEMMA FreshStep ==
    ASSUME NoRepair, Inv, AnswersGenuine, Numbered, Fresh, [Next]_vars
    PROVE  Fresh'
<1> USE DEF Inv
<1>0. /\ mode \in {"record", "replay", "off"}
      /\ \A c \in Callers : CallFits(c)
  BY DEF Numbered, TypeOK, CallsFit
<1>1. ASSUME NEW m \in OpenModes, Open(m) PROVE Fresh'
  <2>1. store' \in {<<>>, store} /\ log' = {} /\ \A c \in Callers : call'[c].step = "idle"
    BY <1>1 DEF Open, AllIdle
  <2> QED BY <2>1 DEF Fresh, TapeOnce, RepliesOnce, LiveOnce, InHand, SourcesFit, LiveAnswers
<1>2. ASSUME NEW c \in Callers, NEW q \in Questions, AskOff(c, q) \/ Ask(c, q) PROVE Fresh'
  <2>1. PICK step \in {"passing", "deciding", "performing"}, place \in Nat :
           Begin(c, step, q, place)
    BY <1>2 DEF AskOff, Ask, NextOrdinal, TypeOK
  <2>2. call'[c].step = step /\ \A d \in Callers \ {c} : call'[d] = call[d]
    BY <2>1, Begun DEF Steps
  <2>3. UNCHANGED <<store, log, mode>>
    BY <1>2 DEF AskOff, Ask, recorderVars, tapeVars, historyVars
  <2>4. SourcesFit' /\ \A e \in LiveAnswers' : e \in LiveAnswers
    BY <2>3 DEF Fresh, SourcesFit, LiveAnswers
  <2> QED BY <2>2, <2>3, <2>4, FreshIdle
<1>3. ASSUME NEW c \in Callers, ClaimMiss(c) PROVE Fresh'
  <2>1. /\ call'[c].step = "missed" /\ \A d \in Callers \ {c} : call'[d] = call[d]
        /\ UNCHANGED <<store, log, mode>>
    BY <1>3 DEF ClaimMiss, Goto, TypeOK, CallState, recorderVars, historyVars
  <2>2. SourcesFit' /\ \A e \in LiveAnswers' : e \in LiveAnswers
    BY <2>1 DEF Fresh, SourcesFit, LiveAnswers
  <2> QED BY <2>1, <2>2, FreshIdle
<1>4. ASSUME NEW c \in Callers,
             \/ ClaimHit(c) \/ RefuseDrift(c) \/ RefuseMiss(c)
             \/ PerformFails(c) \/ RecordFails(c)
      PROVE  Fresh'
  <2>1. PICK response, source :
           /\ Return(c, response, source)
           /\ IF mode = "replay" THEN source \in {"tape", "drift", "miss"}
                                 ELSE source = "failed"
    BY <1>0, <1>4 DEF ClaimHit, RefuseDrift, RefuseMiss, PerformFails, RecordFails, CallFits
  <2>2. /\ call'[c].step = "idle" /\ \A d \in Callers \ {c} : call'[d] = call[d]
        /\ log' = log \cup {[place |-> call[c].place, question |-> call[c].question,
                             response |-> response, source |-> source]}
    BY <2>1, Returned DEF Idle
  <2>3. store' = store /\ mode' = mode
    BY <1>4, Endings
  <2>4. SourcesFit' /\ \A e \in LiveAnswers' : e \in LiveAnswers
    BY <2>1, <2>2, <2>3 DEF Fresh, SourcesFit, LiveAnswers
  <2> QED BY <2>2, <2>3, <2>4, FreshIdle
<1>5. ASSUME NEW c \in Callers, Perform(c) PROVE Fresh'
  <2>1. /\ UNCHANGED <<store, log, mode>>
        /\ call'[c].step = "answered" /\ call'[c].reply = Len(live) + 1
        /\ \A d \in Callers \ {c} : call'[d] = call[d]
    <3>1. call[c].question \in Questions /\ live \in Seq(Questions)
      BY <1>5 DEF Perform, CallsFit, CallFits, TypeOK
    <3>2. Len(live') = Len(live) + 1
      BY <1>5, <3>1 DEF Perform
    <3> QED BY <1>5, <3>2 DEF Perform, TypeOK, CallState, recorderVars, tapeVars, historyVars
  <2>2. TapeOnce' /\ SourcesFit'
    BY <2>1 DEF Fresh, TapeOnce, SourcesFit
  <2>3. RepliesOnce'
    BY <2>1, NextAnswer DEF Fresh, RepliesOnce, InHand
  <2>4. LiveOnce'
    BY <2>1, NextAnswer DEF Fresh, LiveOnce, InHand, LiveAnswers
  <2> QED BY <2>2, <2>3, <2>4 DEF Fresh
<1>6. ASSUME NEW c \in Callers, Pass(c) PROVE Fresh'
  <2>1. call[c].question \in Questions /\ live \in Seq(Questions)
    BY <1>6 DEF Pass, CallsFit, CallFits, TypeOK
  <2>2. /\ UNCHANGED <<store, mode>> /\ mode = "off"
        /\ Return(c, Len(live) + 1, "live")
    BY <1>0, <1>6, <2>1 DEF Pass, CallFits, recorderVars, tapeVars
  <2>3. /\ call'[c].step = "idle" /\ \A d \in Callers \ {c} : call'[d] = call[d]
        /\ log' = log \cup {[place |-> call[c].place, question |-> call[c].question,
                             response |-> Len(live) + 1, source |-> "live"]}
    BY <2>2, Returned DEF Idle
  <2>4. \A d \in Callers : ~InHand(d) /\ ~InHand(d)'
    BY <1>0, <2>2, <2>3 DEF CallFits, InHand
  <2>5. TapeOnce' /\ SourcesFit' /\ RepliesOnce'
    BY <2>2, <2>3, <2>4 DEF Fresh, TapeOnce, SourcesFit, RepliesOnce, InHand
  <2>6. LiveOnce'
    BY <2>3, <2>4, NextAnswer DEF Fresh, LiveOnce, LiveAnswers
  <2> QED BY <2>5, <2>6 DEF Fresh
<1>7. ASSUME NEW c \in Callers, RecordStored(c) PROVE Fresh'
  <2>1. /\ UNCHANGED <<log, mode>> /\ call[c].step = "answered"
        /\ store' = Append(store, NewInteraction(c))
        /\ call'[c].step = "taped" /\ call'[c].reply = call[c].reply
        /\ \A d \in Callers \ {c} : call'[d] = call[d]
    BY <1>7 DEF RecordStored, Goto, TypeOK, CallState, recorderVars, historyVars
  <2>2. NewInteraction(c) \in Interaction /\ store \in Seq(Interaction)
    BY <2>1, NewInteractionTyped DEF TypeOK
  <2>3. /\ NewInteraction(c).response = call[c].reply
        /\ \A i \in DOMAIN store' :
              \/ i \in DOMAIN store /\ store'[i] = store[i]
              \/ i = Len(store) + 1 /\ store'[i] = NewInteraction(c)
    BY <2>1, <2>2, Appended DEF NewInteraction
  <2>4. TapeOnce'
    BY <2>1, <2>3 DEF Fresh, TapeOnce, RepliesOnce
  <2>5. RepliesOnce'
    BY <2>1, <2>3 DEF Fresh, RepliesOnce, InHand
  <2>6. LiveOnce' /\ SourcesFit'
    BY <2>1 DEF Fresh, LiveOnce, InHand, LiveAnswers, SourcesFit
  <2> QED BY <2>4, <2>5, <2>6 DEF Fresh
<1>8. ASSUME NEW c \in Callers, RecordCounted(c) PROVE Fresh'
  <2>1. /\ UNCHANGED <<store, mode>> /\ call[c].step = "taped" /\ mode = "record"
        /\ Return(c, call[c].reply, "live")
    BY <1>0, <1>8 DEF RecordCounted, CallFits
  <2>2. /\ call'[c].step = "idle" /\ \A d \in Callers \ {c} : call'[d] = call[d]
        /\ log' = log \cup {[place |-> call[c].place, question |-> call[c].question,
                             response |-> call[c].reply, source |-> "live"]}
    BY <2>1, Returned DEF Idle
  <2>3. TapeOnce' /\ SourcesFit' /\ RepliesOnce'
    BY <2>1, <2>2 DEF Fresh, TapeOnce, SourcesFit, RepliesOnce, InHand
  <2>4. LiveOnce'
    BY <2>1, <2>2 DEF Fresh, LiveOnce, LiveAnswers, RepliesOnce, InHand
  <2> QED BY <2>3, <2>4 DEF Fresh
<1>9. ASSUME \/ \E next \in {"open", "finished"} : Finish(next)
             \/ Discard \/ Crash \/ UNCHANGED vars
      PROVE  Fresh'
  <2>1. /\ UNCHANGED <<mode, log>> /\ store' \in {<<>>, store}
        /\ call' = call \/ call' = [c \in Callers |-> Idle]
    BY <1>9 DEF Finish, Discard, Crash, vars, recorderVars, tapeVars, historyVars
  <2>2. \A c \in Callers : call'[c].step = "idle" \/ call'[c] = call[c]
    BY <2>1 DEF Idle
  <2> QED BY <2>1, <2>2 DEF Fresh, TapeOnce, SourcesFit, RepliesOnce, LiveOnce, InHand, LiveAnswers
<1> QED BY <1>1, <1>2, <1>3, <1>4, <1>5, <1>6, <1>7, <1>8, <1>9, RunSteps DEF Numbered

-----------------------------------------------------------------------------
(* What a strict run serves and refuses *)

\* A recording looked up by its number stands on the tape under that number.
LEMMA GetHas ==
    ASSUME NEW tape \in Seq(Interaction), NEW n, Has(tape, n)
    PROVE  /\ First(Holding(tape, n)) \in DOMAIN tape
           /\ Get(tape, n) = tape[First(Holding(tape, n))]
           /\ Get(tape, n).ordinal = n
<1>1. Holding(tape, n) \in SUBSET Nat /\ Holding(tape, n) # {}
  BY DEF Holding, Has
<1>2. First(Holding(tape, n)) \in Holding(tape, n)
  BY <1>1, FirstIsLeast
<1> QED BY <1>2 DEF Holding, Get

\* What a claim of a strict run does: it serves a recording of the question that
\* was not served yet, the one at the call's place if that is one.
LEMMA StrictClaim ==
    ASSUME Inv, Serving, mode = "replay", NEW c \in Callers, ClaimHit(c)
    PROVE  \E k \in DOMAIN store :
              /\ store[k].fingerprint = call[c].question /\ store[k].ordinal \notin served
              /\ served' = served \cup {store[k].ordinal}
              /\ log' = log \cup {[place |-> call[c].place, question |-> call[c].question,
                                   response |-> store[k].response, source |-> "tape"]}
              /\ LET n == call[c].place
                 IN  /\ Has(store, n) /\ Get(store, n).fingerprint = call[c].question
                     /\ n \notin served
                     => store[k] = Get(store, n)
<1> DEFINE n == call[c].place
           q == call[c].question
           found == Claimed(store, served, n, q)
<1>1. Load = store /\ store \in Seq(Interaction)
  BY DEF Serving, Load, Inv, TypeOK
<1>2. /\ Answerable(store, served, n, q) /\ served' = served \cup {found.ordinal}
      /\ Return(c, found.response, "tape")
  BY <1>1 DEF ClaimHit
<1>3. PICK k \in DOMAIN store : /\ found = store[k] /\ store[k].fingerprint = q
                                /\ store[k].ordinal \notin served
  BY <1>1, <1>2, ClaimedAnswers
<1>4. ASSUME Has(store, n), Get(store, n).fingerprint = q, n \notin served
      PROVE  found = Get(store, n)
  <2>1. First(Holding(store, n)) \in Unserved(store, served, q)
    BY <1>1, <1>4, GetHas DEF Unserved
  <2> QED BY <1>4, <2>1 DEF Claimed, Get
<1>5. log' = log \cup {[place |-> n, question |-> q, response |-> found.response,
                        source |-> "tape"]}
  BY <1>2 DEF Return
<1> HIDE DEF found
<1> QED BY <1>2, <1>3, <1>4, <1>5

\* A strict run misses only what it has served.
LEMMA StrictMiss ==
    ASSUME Inv, Serving, mode = "replay", NEW c \in Callers, ClaimMiss(c)
    PROVE  AllServed(call[c].question)
<1>1. Load = store
  BY DEF Serving, Load
<1> QED BY <1>1 DEF ClaimMiss, Answerable, Unserved, AllServed

\* The steps of a strict run.
LEMMA StrictSteps ==
    ASSUME Inv, Serving, mode = "replay", [Next]_vars, ~(\E m \in OpenModes : Open(m))
    PROVE  /\ mode' = mode /\ store' = store /\ loaded' \in {None, store}
           /\ \/ \E c \in Callers : ClaimHit(c) \/ ClaimMiss(c) \/ RefuseDrift(c) \/ RefuseMiss(c)
              \/ /\ UNCHANGED <<served, log>>
                 /\ \A c \in Callers : call'[c].step = "missed" => call'[c] = call[c]
<1> USE DEF Inv
<1>0. /\ Load = store /\ loaded \in {None, store} /\ recorded = 0
      /\ \A c \in Callers : CallFits(c)
  BY DEF Serving, Load, CallsFit, ReplayRecordsNothing
<1>1. ASSUME NEW c \in Callers, NEW q \in Questions, AskOff(c, q) \/ Ask(c, q)
      PROVE  /\ UNCHANGED <<mode, store, loaded, served, log>>
             /\ \A d \in Callers : call'[d].step = "missed" => call'[d] = call[d]
  <2>1. PICK step \in {"passing", "deciding", "performing"}, place \in Nat :
           Begin(c, step, q, place)
    BY <1>1 DEF AskOff, Ask, NextOrdinal, TypeOK
  <2>2. call'[c].step = step /\ \A d \in Callers \ {c} : call'[d] = call[d]
    BY <2>1, Begun DEF Steps
  <2> QED BY <1>1, <2>2 DEF AskOff, Ask, recorderVars, tapeVars, historyVars
<1>2. ASSUME NEW c \in Callers,
             \/ Perform(c) \/ RecordStored(c) \/ Pass(c) \/ RecordCounted(c)
             \/ PerformFails(c) \/ RecordFails(c)
      PROVE  FALSE
  BY <1>0, <1>2 DEF Perform, RecordStored, Pass, RecordCounted, PerformFails, RecordFails, CallFits
<1>3. ASSUME NEW c \in Callers,
             ClaimHit(c) \/ ClaimMiss(c) \/ RefuseDrift(c) \/ RefuseMiss(c)
      PROVE  UNCHANGED <<mode, store>> /\ loaded' = store
  BY <1>0, <1>3 DEF ClaimHit, ClaimMiss, RefuseDrift, RefuseMiss, recorderVars
<1>4. ASSUME \/ \E next \in {"open", "finished"} : Finish(next)
             \/ Discard \/ Crash \/ UNCHANGED vars
      PROVE  /\ UNCHANGED <<mode, store, served, log>> /\ loaded' \in {loaded, store}
             /\ \A d \in Callers : call'[d].step = "missed" => call'[d] = call[d]
  BY <1>0, <1>4 DEF Finish, Discard, Crash, Idle, vars, recorderVars, tapeVars, historyVars
<1> QED BY <1>0, <1>1, <1>2, <1>3, <1>4, RunSteps

\* Every step of a strict run keeps its account.
LEMMA ServingStep ==
    ASSUME Inv, Taping, Fresh, Serving, [Next]_vars
    PROVE  Serving'
<1> USE DEF Inv
<1> SUFFICES ASSUME mode' = "replay" PROVE Serving'
  BY DEF Serving
<1>1. ASSUME NEW m \in OpenModes, Open(m) PROVE Serving'
  BY <1>1 DEF Open, AllIdle, Serving, TapeAnswers, Refusals
<1>2. ASSUME ~(\E m \in OpenModes : Open(m)) PROVE Serving'
  <2>0. mode = "replay"
    BY <1>2 DEF Next, AskOff, Ask, Proceed, ClaimHit, ClaimMiss, RefuseDrift, RefuseMiss, Extend,
       Drift, Keep, Delete, Reset, RestoreStored, RestoreCached, DropStale, Restored, Perform,
       Pass, RecordStored, RecordCounted, Fails, DriftRaises, DeleteFails, RestoreFails,
       PerformFails, RecordFails, Finish, Discard, Crash, vars, recorderVars
  <2>1. store' = store /\ loaded' \in {None, store'}
    BY <1>2, <2>0, StrictSteps
  <2>2. ASSUME NEW c \in Callers, ClaimHit(c) PROVE Serving'
    <3>1. PICK k \in DOMAIN store :
              /\ store[k].fingerprint = call[c].question /\ store[k].ordinal \notin served
              /\ served' = served \cup {store[k].ordinal}
              /\ log' = log \cup {[place |-> call[c].place, question |-> call[c].question,
                                   response |-> store[k].response, source |-> "tape"]}
      BY <2>0, <2>2, StrictClaim
    <3>2. call'[c].step = "idle" /\ \A d \in Callers \ {c} : call'[d] = call[d]
      BY <2>2, Endings, Returned DEF Idle
    <3> DEFINE entry == [place |-> call[c].place, question |-> call[c].question,
                         response |-> store[k].response, source |-> "tape"]
    <3>3. TapeAnswers' = TapeAnswers \cup {entry} /\ Refusals' = Refusals
      BY <3>1 DEF TapeAnswers, Refusals
    <3>4. /\ entry.question = store[k].fingerprint /\ entry.response = store[k].response
          /\ \A e \in TapeAnswers : e.response # entry.response
      BY <2>0, <3>1 DEF Serving, Fresh, TapeOnce
    <3> HIDE DEF entry
    <3>5. \A i \in DOMAIN store : store[i].ordinal = store[k].ordinal => i = k
      BY DEF Taping, DistinctOrdinals
    <3> QED BY <2>0, <2>1, <3>1, <3>2, <3>3, <3>4, <3>5 DEF Serving, AllServed
  <2>3. ASSUME NEW c \in Callers, ClaimMiss(c) PROVE Serving'
    <3>1. AllServed(call[c].question) /\ UNCHANGED <<served, log>>
      BY <2>0, <2>3, StrictMiss DEF ClaimMiss, recorderVars, historyVars
    <3>2. /\ call'[c].question = call[c].question
          /\ \A d \in Callers \ {c} : call'[d] = call[d]
      BY <2>3 DEF ClaimMiss, Goto, TypeOK, CallState
    <3> QED BY <2>0, <2>1, <3>1, <3>2 DEF Serving, AllServed, TapeAnswers, Refusals
  <2>4. ASSUME NEW c \in Callers, RefuseDrift(c) \/ RefuseMiss(c) PROVE Serving'
    <3>1. PICK source \in {"drift", "miss"} : Return(c, 0, source)
      BY <2>4 DEF RefuseDrift, RefuseMiss
    <3>2. /\ call'[c].step = "idle" /\ \A d \in Callers \ {c} : call'[d] = call[d]
          /\ log' = log \cup {[place |-> call[c].place, question |-> call[c].question,
                               response |-> 0, source |-> source]}
      BY <3>1, Returned DEF Idle
    <3>3. served' = served /\ AllServed(call[c].question)
      BY <2>0, <2>4 DEF RefuseDrift, RefuseMiss, recorderVars, Serving
    <3>4. /\ TapeAnswers' = TapeAnswers
          /\ \A e \in Refusals' : e \in Refusals \/ e.question = call[c].question
      BY <3>2 DEF TapeAnswers, Refusals
    <3> QED BY <2>0, <2>1, <3>2, <3>3, <3>4 DEF Serving, AllServed
  <2>5. ASSUME UNCHANGED <<served, log>>,
               \A c \in Callers : call'[c].step = "missed" => call'[c] = call[c]
        PROVE  Serving'
    BY <2>0, <2>1, <2>5 DEF Serving, AllServed, TapeAnswers, Refusals
  <2> QED BY <1>2, <2>0, <2>2, <2>3, <2>4, <2>5, StrictSteps
<1> QED BY <1>1, <1>2

-----------------------------------------------------------------------------
(* Order *)

\* As long as every call asks what the tape holds at its place, a claim serves
\* the recording of that place, which no other call can have taken.
LEMMA OrderedStep ==
    ASSUME Inv, Numbered, Serving, Ordered, [Next]_vars
    PROVE  Ordered'
<1> SUFFICES ASSUME mode' = "replay", \A e \in log' : InPlace(e)'
             PROVE  /\ \A e \in log' : /\ e.source = "tape"
                                       /\ e.response = Get(store', e.place).response
                    /\ served' = {e.place : e \in log'}
  BY DEF Ordered
<1>1. ASSUME NEW m \in OpenModes, Open(m)
      PROVE  log' = {} /\ served' = {}
  BY <1>1 DEF Open
<1>2. ASSUME ~(\E m \in OpenModes : Open(m))
      PROVE  /\ \A e \in log' : /\ e.source = "tape"
                                /\ e.response = Get(store', e.place).response
             /\ served' = {e.place : e \in log'}
  <2>0. mode = "replay"
    BY <1>2 DEF Next, AskOff, Ask, Proceed, ClaimHit, ClaimMiss, RefuseDrift, RefuseMiss, Extend,
       Drift, Keep, Delete, Reset, RestoreStored, RestoreCached, DropStale, Restored, Perform,
       Pass, RecordStored, RecordCounted, Fails, DriftRaises, DeleteFails, RestoreFails,
       PerformFails, RecordFails, Finish, Discard, Crash, vars, recorderVars
  <2>1. store' = store /\ store \in Seq(Interaction)
    BY <1>2, <2>0, StrictSteps DEF Inv, TypeOK
  <2>2. \A e \in log' : InPlace(e)
    BY <2>1 DEF InPlace
  <2>3. log \subseteq log' => /\ \A e \in log : /\ e.source = "tape"
                                                /\ e.response = Get(store, e.place).response
                              /\ served = {e.place : e \in log}
    BY <2>0, <2>2 DEF Ordered
  <2>4. ASSUME NEW c \in Callers, call[c].step \in {"deciding", "missed"}, log \subseteq log'
        PROVE  call[c].place \notin served
    BY <2>3, <2>4 DEF Numbered, Busy
  <2>5. ASSUME NEW c \in Callers, ClaimHit(c)
        PROVE  /\ \A e \in log' : /\ e.source = "tape"
                                  /\ e.response = Get(store, e.place).response
               /\ served' = {e.place : e \in log'}
    <3> DEFINE n == call[c].place
    <3>1. PICK k \in DOMAIN store :
              /\ served' = served \cup {store[k].ordinal}
              /\ log' = log \cup {[place |-> n, question |-> call[c].question,
                                   response |-> store[k].response, source |-> "tape"]}
              /\ Has(store, n) /\ Get(store, n).fingerprint = call[c].question
                 /\ n \notin served
                 => store[k] = Get(store, n)
      BY <2>0, <2>5, StrictClaim
    <3> DEFINE entry == [place |-> n, question |-> call[c].question,
                         response |-> store[k].response, source |-> "tape"]
    <3>2. log' = log \cup {entry} /\ entry.place = n /\ entry.source = "tape"
          /\ entry.question = call[c].question /\ entry.response = store[k].response
      BY <3>1
    <3> HIDE DEF entry
    <3>3. Has(store, n) /\ Get(store, n).fingerprint = call[c].question
      BY <2>2, <3>2 DEF InPlace
    <3>4. n \notin served
      BY <2>4, <2>5, <3>2 DEF ClaimHit
    <3>5. store[k] = Get(store, n) /\ Get(store, n).ordinal = n
      BY <2>1, <3>1, <3>3, <3>4, GetHas
    <3>6. log \subseteq log'
      BY <3>2
    <3> QED BY <2>3, <3>1, <3>2, <3>5, <3>6
  <2>6. ASSUME NEW c \in Callers, RefuseDrift(c) \/ RefuseMiss(c)
        PROVE  FALSE
    <3> DEFINE n == call[c].place
    <3>1. PICK source \in {"drift", "miss"} : Return(c, 0, source)
      BY <2>6 DEF RefuseDrift, RefuseMiss
    <3> DEFINE entry == [place |-> n, question |-> call[c].question,
                         response |-> 0, source |-> source]
    <3>2. log' = log \cup {entry} /\ entry.place = n /\ entry.question = call[c].question
      BY <3>1 DEF Return
    <3> HIDE DEF entry
    <3>3. Has(store, n) /\ Get(store, n).fingerprint = call[c].question
      BY <2>2, <3>2 DEF InPlace
    <3>4. call[c].step = "missed" /\ AllServed(call[c].question)
      BY <2>0, <2>6 DEF Serving, RefuseDrift, RefuseMiss
    <3>5. PICK i \in DOMAIN store : Get(store, n) = store[i] /\ store[i].ordinal = n
      BY <2>1, <3>3, GetHas
    <3>6. n \in served
      BY <3>3, <3>4, <3>5 DEF AllServed
    <3> QED BY <2>4, <3>2, <3>4, <3>6
  <2>7. ASSUME UNCHANGED <<served, log>>
        PROVE  /\ \A e \in log' : /\ e.source = "tape"
                                  /\ e.response = Get(store, e.place).response
               /\ served' = {e.place : e \in log'}
    BY <2>3, <2>7
  <2>8. ASSUME NEW c \in Callers, ClaimMiss(c) PROVE UNCHANGED <<served, log>>
    BY <2>8 DEF ClaimMiss, recorderVars, historyVars
  <2> QED BY <1>2, <2>0, <2>1, <2>5, <2>6, <2>7, <2>8, StrictSteps
<1> QED BY <1>1, <1>2

-----------------------------------------------------------------------------
(* What is left unplayed *)

Untouched == {i \in DOMAIN store : store[i].ordinal \notin served}

\* A finished strict run has counted the recordings it did not serve.
Reported == mode = "replay" /\ phase = "finished" => unplayed = Cardinality(Untouched)

\* The recordings not served are as many as the tape is longer than _served:
\* ordinals are distinct and each one served is on the tape.
LEMMA UntouchedCount ==
    ASSUME Inv, Taping, Serving, mode = "replay"
    PROVE  Unplayed = Cardinality(Untouched)
<1> DEFINE consumed == {i \in DOMAIN store : store[i].ordinal \in served}
           number == [i \in consumed |-> store[i].ordinal]
<1>1. Load = store /\ store \in Seq(Interaction) /\ IsFiniteSet(served)
  BY DEF Serving, Load, Inv, TypeOK
<1>2. /\ Len(store) \in Nat /\ DOMAIN store = 1..Len(store)
      /\ IsFiniteSet(DOMAIN store) /\ Cardinality(DOMAIN store) = Len(store)
  <2>1. Len(store) \in Nat /\ DOMAIN store = 1..Len(store)
    BY <1>1
  <2>2. /\ IsFiniteSet(1..Len(store))
        /\ Cardinality(1..Len(store)) = IF 1 > Len(store) THEN 0 ELSE Len(store) - 1 + 1
    <3>1. 1 \in Int /\ Len(store) \in Int
      BY <2>1
    <3> QED BY <3>1, FS_Interval
  <2> QED BY <2>1, <2>2
<1>3. IsFiniteSet(consumed) /\ Cardinality(consumed) \in Nat /\ Cardinality(consumed) <= Len(store)
  BY <1>2, FS_Subset, FS_CardinalityType
<1>4. Cardinality(served) = Cardinality(consumed)
  <2>1. \A i, j \in consumed : number[i] = number[j] => i = j
    BY DEF Taping, DistinctOrdinals
  <2>2. number \in [consumed -> served]
    OBVIOUS
  <2>3. number \in Injection(consumed, served)
    BY <2>1, <2>2 DEF Injection, IsInjective
  <2>4. \A n \in served : \E i \in consumed : number[i] = n
    BY DEF Serving
  <2>5. number \in Surjection(consumed, served)
    BY <2>2, <2>4 DEF Surjection
  <2> HIDE DEF number, consumed
  <2> QED BY <1>1, <2>3, <2>5, FS_Injection
<1>5. Untouched = DOMAIN store \ consumed /\ DOMAIN store \cap consumed = consumed
  BY DEF Untouched
<1>6. Cardinality(Untouched) = Len(store) - Cardinality(consumed)
  <2> HIDE DEF consumed, Untouched
  <2>1. Cardinality(DOMAIN store \ consumed) =
           Cardinality(DOMAIN store) - Cardinality(DOMAIN store \cap consumed)
    BY <1>2, FS_Difference
  <2> QED BY <1>2, <1>5, <2>1
<1> HIDE DEF consumed
<1> QED BY <1>1, <1>2, <1>3, <1>4, <1>6 DEF Unplayed, MayReplay

\* Only finish writes the count, and nothing is served after it.
LEMMA ReportedStep ==
    ASSUME Inv, Numbered, Taping, Serving, Reported, [Next]_vars
    PROVE  Reported'
<1> SUFFICES ASSUME mode' = "replay", phase' = "finished"
             PROVE  unplayed' = Cardinality(Untouched')
  BY DEF Reported
<1>1. ASSUME NEW next \in {"open", "finished"}, Finish(next)
      PROVE  unplayed' = Cardinality(Untouched')
  <2>1. mode = "replay" /\ unplayed' = Unplayed /\ UNCHANGED <<store, served>>
    BY <1>1 DEF Finish
  <2>2. Untouched' = Untouched
    BY <2>1 DEF Untouched
  <2> QED BY <2>1, <2>2, UntouchedCount
<1>2. ASSUME phase # "open", ~(\E m \in OpenModes : Open(m)) PROVE UNCHANGED vars
  BY <1>2, Endings, RunSteps DEF Numbered, AllIdle, AskOff, Ask, ClaimMiss, Perform, RecordStored,
     Finish, Discard, Crash
<1>3. CASE UNCHANGED vars
  <2>1. UNCHANGED <<mode, phase, unplayed, Untouched>>
    BY <1>3 DEF vars, recorderVars, tapeVars, Untouched
  <2> QED BY <2>1 DEF Reported
<1>4. ASSUME phase = "open" PROVE \E next \in {"open", "finished"} : Finish(next)
  <2>1. ASSUME NEW c \in Callers, ClaimMiss(c) \/ Perform(c) \/ RecordStored(c) PROVE FALSE
    BY <1>4, <2>1 DEF ClaimMiss, Perform, RecordStored, recorderVars
  <2>2. ASSUME NEW c \in Callers, NEW q \in Questions, AskOff(c, q) \/ Ask(c, q) PROVE FALSE
    BY <1>4, <2>2 DEF AskOff, Ask, recorderVars
  <2>3. phase' # phase
    BY <1>4
  <2> QED BY <2>1, <2>2, <2>3, Endings, RunSteps DEF Numbered, Open, Discard, Crash, vars, recorderVars
<1>5. ~(\E m \in OpenModes : Open(m))
  BY DEF Open
<1> QED BY <1>1, <1>2, <1>3, <1>4, <1>5

\* The recordings not served are those no call was given.
LEMMA UntouchedGiven ==
    ASSUME Fresh, Serving, mode = "replay"
    PROVE  Untouched = {i \in DOMAIN store :
               ~ \E e \in log : e.source = "tape" /\ e.response = store[i].response}
<1>1. ASSUME NEW i \in DOMAIN store
      PROVE  store[i].ordinal \in served
             <=> \E e \in TapeAnswers : e.response = store[i].response
  <2>1. ASSUME NEW e \in TapeAnswers, e.response = store[i].response
        PROVE  store[i].ordinal \in served
    <3>1. PICK j \in DOMAIN store : store[j].response = e.response /\ store[j].ordinal \in served
      BY DEF Serving
    <3> QED BY <2>1, <3>1 DEF Fresh, TapeOnce
  <2> QED BY <2>1 DEF Serving
<1> QED BY <1>1 DEF Untouched, TapeAnswers

-----------------------------------------------------------------------------
(* The theorems *)

\* A recorder that was never opened satisfies the invariant.
LEMMA RunInit ==
    ASSUME NoRepair, Init
    PROVE  RunInv /\ Reported
<1>1. IsFiniteSet({}) /\ Active = {} /\ log = {} /\ Busy = {}
  BY FS_EmptySet DEF Init, Active, Busy, Idle
<1>2. Numbered
  BY <1>1 DEF Init, Numbered, AllIdle, Idle
<1>3. Counted
  BY <1>1 DEF Init, Counted
<1>4. Taping
  BY DEF Init, Idle, Taping, DistinctOrdinals, TapeGrows, TapedCalls, AnsweredIsTaped,
     DiscardLeavesNothing
<1>5. Fresh
  BY DEF Init, Idle, Fresh, TapeOnce, RepliesOnce, InHand, LiveOnce, LiveAnswers, SourcesFit
<1>6. Serving /\ Ordered /\ Reported
  BY DEF Init, Serving, Ordered, Reported
<1> QED BY <1>2, <1>3, <1>4, <1>5, <1>6 DEF RunInv

\* The invariant of the runs, with what it rests on.
WholeInv == Inv /\ AnswersGenuine /\ RunInv /\ Reported

\* Every step keeps it, when no run repairs.
LEMMA RunStep ==
    ASSUME NoRepair, WholeInv, [Next]_vars
    PROVE  WholeInv'
<1> USE DEF WholeInv, RunInv
<1>1. Inv' /\ AnswersGenuine' /\ Numbered'
  BY InvStep, GenuineStep, NumberedStep
<1>2. Counted' /\ Fresh' /\ Serving' /\ Ordered' /\ Reported'
  BY CountedStep, FreshStep, ServingStep, OrderedStep, ReportedStep
<1>3. Taping'
  BY <1>1, TapingStep
<1> QED BY <1>1, <1>2, <1>3

\* It holds throughout every run.
LEMMA RunInvariance ==
    ASSUME NoRepair
    PROVE  Spec => []WholeInv
<1>1. Init => WholeInv
  <2>1. Init => AnswersGenuine
    BY DEF Init, AnswersGenuine, AnswersIn, GenuineTape, GenuineCall, Idle, Answered
  <2> QED BY <2>1, InvInit, RunInit DEF WholeInv
<1>2. WholeInv /\ [Next]_vars => WholeInv'
  BY RunStep
<1> QED BY <1>1, <1>2, PTL DEF Spec

\* Callers that record at the same time, as many as may be, leave a tape on which
\* no two interactions have one ordinal.
THEOREM OrdinalsAreDistinct ==
    ASSUME NoRepair
    PROVE  Spec => []DistinctOrdinals
<1>1. WholeInv => DistinctOrdinals
  BY DEF WholeInv, RunInv, Taping
<1> QED BY <1>1, RunInvariance, PTL

\* No answer that a recording run handed to a caller is missing from the tape, at
\* the ordinal of its call, whichever callers recorded meanwhile and also after a
\* failed write or a crash.
THEOREM NoAnswerIsLost ==
    ASSUME NoRepair
    PROVE  Spec => []AnsweredIsTaped
<1>1. WholeInv => AnsweredIsTaped
  BY DEF WholeInv, RunInv, Taping
<1> QED BY <1>1, RunInvariance, PTL

\* A recording run that is thrown away leaves no tape to be taken for a cassette,
\* though discard deletes it only when something was counted as recorded.
THEOREM DiscardedRunsLeaveNothing ==
    ASSUME NoRepair
    PROVE  Spec => []DiscardLeavesNothing
<1>1. WholeInv => DiscardLeavesNothing
  BY DEF WholeInv, RunInv, Taping
<1> QED BY <1>1, RunInvariance, PTL

\* No two calls of a run share a response, so the candidates of a best-of-N stay
\* different however their calls reach the lock.
THEOREM AnswersAreNotShared ==
    ASSUME NoRepair
    PROVE  Spec => []OneAnswerPerRecording
<1>1. ASSUME WholeInv PROVE OneAnswerPerRecording
  <2>1. CASE mode = "replay"
    <3>1. \A e \in Answered : e \in TapeAnswers
      BY <1>1, <2>1 DEF WholeInv, RunInv, Fresh, SourcesFit, Answered, TapeAnswers
    <3> QED BY <1>1, <2>1, <3>1 DEF WholeInv, RunInv, Serving, OneAnswerPerRecording
  <2>2. CASE mode # "replay"
    <3>1. \A e \in Answered : e \in LiveAnswers
      BY <1>1, <2>2 DEF WholeInv, RunInv, Fresh, SourcesFit, Answered, LiveAnswers
    <3> QED BY <1>1, <3>1 DEF WholeInv, RunInv, Fresh, LiveOnce, OneAnswerPerRecording
  <2> QED BY <2>1, <2>2
<1> QED BY <1>1, RunInvariance, PTL

\* No schedule of the callers makes a strict run refuse a question that the tape
\* has a recording left for.
THEOREM RefusalsAreNeeded ==
    ASSUME NoRepair
    PROVE  Spec => []NoNeedlessRefusal
<1>1. ASSUME WholeInv PROVE NoNeedlessRefusal
  <2>1. ASSUME mode = "replay", NEW e \in Refusals, NEW i \in DOMAIN store,
               store[i].fingerprint = e.question
        PROVE  \E f \in log : f.source = "tape" /\ f.response = store[i].response
    <3>1. store[i].ordinal \in served
      BY <1>1, <2>1 DEF WholeInv, RunInv, Serving, AllServed
    <3> QED BY <1>1, <2>1, <3>1 DEF WholeInv, RunInv, Serving, TapeAnswers
  <2> QED BY <2>1 DEF NoNeedlessRefusal, Strict, Refusals
<1> QED BY <1>1, RunInvariance, PTL

\* As long as every call asks what the tape holds at its place, each gets the
\* answer of its place, in whatever order the calls reach the lock.
THEOREM OrderIsAnAddress ==
    ASSUME NoRepair
    PROVE  Spec => []OrderAddresses
<1>1. ASSUME WholeInv PROVE OrderAddresses
  BY <1>1 DEF WholeInv, RunInv, Ordered, InPlace, OrderAddresses, Strict
<1> QED BY <1>1, RunInvariance, PTL

\* A strict run that finishes reports as unplayed exactly the recordings that no
\* call was given, though finish only subtracts two lengths.
THEOREM UnplayedIsExact ==
    ASSUME NoRepair
    PROVE  Spec => []UnplayedExact
<1>1. ASSUME WholeInv PROVE UnplayedExact
  BY <1>1, UntouchedGiven DEF WholeInv, RunInv, Reported, UnplayedExact, Strict
<1> QED BY <1>1, RunInvariance, PTL

-----------------------------------------------------------------------------
(* A strict run implements Playback *)

\* What Playback sees of a run, while it replays.
LEMMA Seen ==
    /\ Replaying => During(Stock) = Stock /\ During(Given) = Given /\ During(Refused) = Refused
    /\ ~Replaying => During(Stock) = {} /\ During(Given) = {} /\ During(Refused) = {}
BY DEF During

\* A call of a strict run has a number that Playback knows, under which it was
\* neither answered nor refused.
LEMMA CallIsNew ==
    ASSUME WholeInv, Replaying, NEW c \in Callers, call[c].step \in {"deciding", "missed"}
    PROVE  /\ call[c].place \in 1..MaxCalls /\ call[c].question \in Questions
           /\ \A entry \in Given \cup Refused : entry.call # call[c].place
<1> USE DEF WholeInv, RunInv, Inv
<1>1. mode = "replay" /\ phase = "open" /\ c \in Busy
  BY DEF Replaying, Strict, Busy
<1>2. call[c].place \in Nat /\ call[c].place # 0 /\ call[c].question \in Questions
  BY <1>1 DEF TypeOK, CallState, CallsFit, CallFits
<1>3. call[c].place <= ordinal /\ ordinal \in Nat
  BY DEF Numbered, TypeOK
<1>4. ordinal <= MaxCalls
  BY <1>1 DEF Counted
<1>5. \A e \in log : e.place # call[c].place
  BY <1>1 DEF Numbered
<1>6. Answered \subseteq log
  BY DEF Answered
<1>7. call[c].place \in 1..MaxCalls
  BY <1>2, <1>3, <1>4, BoundsAssumption
<1> QED BY <1>2, <1>5, <1>6, <1>7 DEF Given, Refused

\* A claim gives out a recording of the question asked that was in stock.
LEMMA ClaimGives ==
    ASSUME WholeInv, Replaying, NEW c \in Callers, ClaimHit(c)
    PROVE  /\ Replaying'
           /\ \E interaction \in Stock :
                 /\ Stock' = Stock \ {interaction}
                 /\ Given' = Given \cup {[call |-> call[c].place,
                                          question |-> interaction.fingerprint,
                                          response |-> interaction.response]}
                 /\ Refused' = Refused
<1> USE DEF WholeInv, RunInv
<1>1. mode = "replay" /\ phase = "open"
  BY DEF Replaying, Strict
<1>2. PICK k \in DOMAIN store :
          /\ store[k].fingerprint = call[c].question /\ store[k].ordinal \notin served
          /\ served' = served \cup {store[k].ordinal}
          /\ log' = log \cup {[place |-> call[c].place, question |-> call[c].question,
                               response |-> store[k].response, source |-> "tape"]}
  BY <1>1, StrictClaim
<1>3. UNCHANGED <<mode, phase, store>>
  BY Endings
<1> DEFINE entry == [place |-> call[c].place, question |-> call[c].question,
                     response |-> store[k].response, source |-> "tape"]
<1>4. /\ log' = log \cup {entry} /\ entry.source = "tape" /\ entry.place = call[c].place
      /\ entry.question = store[k].fingerprint /\ entry.response = store[k].response
  BY <1>2
<1> HIDE DEF entry
<1>5. Answered' = Answered \cup {entry} /\ (log \ Answered)' = log \ Answered
  <2>1. \A e \in log' : e \in Answered' <=> e \in Answered \/ e = entry
    BY <1>4 DEF Answered
  <2> QED BY <1>4, <2>1 DEF Answered
<1>6. Given' = Given \cup {[call |-> call[c].place, question |-> store[k].fingerprint,
                            response |-> store[k].response]}
  BY <1>4, <1>5 DEF Given
<1>7. Refused' = Refused
  BY <1>5 DEF Refused
<1>8. Stock' = Stock \ {store[k]} /\ store[k] \in Stock
  <2>1. \A i \in DOMAIN store : store[i].ordinal = store[k].ordinal => i = k
    BY DEF Taping, DistinctOrdinals
  <2> QED BY <1>2, <1>3, <2>1 DEF Stock
<1> QED BY <1>3, <1>6, <1>7, <1>8 DEF Replaying

\* A refusal refuses a question that no recording in stock asks.
LEMMA RefusalRefuses ==
    ASSUME WholeInv, Replaying, NEW c \in Callers, RefuseDrift(c) \/ RefuseMiss(c)
    PROVE  /\ Replaying' /\ Stock' = Stock /\ Given' = Given
           /\ Refused' = Refused \cup {[call |-> call[c].place, question |-> call[c].question]}
           /\ \A interaction \in Stock : interaction.fingerprint # call[c].question
<1> USE DEF WholeInv, RunInv
<1>1. PICK source \in {"drift", "miss"} : Return(c, 0, source)
  BY DEF RefuseDrift, RefuseMiss
<1>2. /\ UNCHANGED <<mode, phase, store, served>>
      /\ mode = "replay" /\ call[c].step = "missed"
  BY DEF RefuseDrift, RefuseMiss, recorderVars, Replaying, Strict
<1> DEFINE entry == [place |-> call[c].place, question |-> call[c].question,
                     response |-> 0, source |-> source]
<1>3. /\ log' = log \cup {entry} /\ entry.source \notin {"tape", "live"}
      /\ entry.place = call[c].place /\ entry.question = call[c].question
  BY <1>1 DEF Return
<1> HIDE DEF entry
<1>4. Answered' = Answered /\ (log \ Answered)' = (log \ Answered) \cup {entry}
  BY <1>3 DEF Answered
<1>5. Given' = Given
  BY <1>4 DEF Given
<1>6. Refused' = Refused \cup {[call |-> call[c].place, question |-> call[c].question]}
  BY <1>3, <1>4 DEF Refused
<1>7. AllServed(call[c].question)
  BY <1>2 DEF Serving
<1> QED BY <1>2, <1>5, <1>6, <1>7 DEF Replaying, Stock, AllServed

\* Each step of a run is a step of Playback or invisible to it.
LEMMA PlaybackStep ==
    ASSUME NoRepair, WholeInv, WholeInv', [Next]_vars
    PROVE  [Replay!Next]_(Replay!playback)
<1>1. ASSUME NEW m \in OpenModes, Open(m) PROVE Replay!Start \/ UNCHANGED Replay!playback
  <2>1. ~Replaying /\ log' = {}
    BY <1>1 DEF Open, Replaying
  <2>2. Given' = {} /\ Refused' = {}
    BY <2>1 DEF Answered, Given, Refused
  <2>3. Stock' \subseteq Interaction
    BY DEF WholeInv, Inv, TypeOK, Stock
  <2>4. CASE Replaying'
    BY <2>1, <2>2, <2>3, <2>4 DEF Replay!Start, During
  <2>5. CASE ~Replaying'
    BY <2>1, <2>5 DEF Replay!playback, During, Replaying
  <2> QED BY <2>4, <2>5
<1>2. ASSUME ~Replaying, ~(\E m \in OpenModes : Open(m)) PROVE UNCHANGED Replay!playback
  <2>1. ~Replaying'
    <3>1. mode' = mode /\ (phase' = "open" => phase = "open")
      BY <1>2, Endings, RunSteps DEF WholeInv, RunInv, Numbered, AskOff, Ask, ClaimMiss, Perform,
         RecordStored, Finish, Discard, Crash, vars, recorderVars
    <3> QED BY <1>2, <3>1 DEF Replaying
  <2> QED BY <1>2, <2>1 DEF Replay!playback, During, Replaying
<1>3. ASSUME Replaying, ~(\E m \in OpenModes : Open(m))
      PROVE  Replay!Next \/ UNCHANGED Replay!playback
  <2>1. ASSUME NEW c \in Callers, ClaimHit(c) PROVE Replay!Next
    <3>1. PICK interaction \in Stock :
             /\ Stock' = Stock \ {interaction}
             /\ Given' = Given \cup {[call |-> call[c].place,
                                      question |-> interaction.fingerprint,
                                      response |-> interaction.response]}
             /\ Refused' = Refused /\ Replaying'
      BY <1>3, <2>1, ClaimGives
    <3>2. /\ call[c].place \in 1..MaxCalls
          /\ \A entry \in Given \cup Refused : entry.call # call[c].place
      BY <1>3, <2>1, CallIsNew DEF ClaimHit
    <3>3. Replay!Give(call[c].place, interaction)
      BY <1>3, <3>1, <3>2 DEF Replay!Give, Replay!Unanswered, During
    <3>4. interaction \in During(Stock)
      BY <1>3, <3>1 DEF During
    <3> QED BY <3>2, <3>3, <3>4 DEF Replay!Next
  <2>2. ASSUME NEW c \in Callers, RefuseDrift(c) \/ RefuseMiss(c) PROVE Replay!Next
    <3>1. /\ Replaying' /\ Stock' = Stock /\ Given' = Given
          /\ Refused' = Refused \cup {[call |-> call[c].place, question |-> call[c].question]}
          /\ \A interaction \in Stock : interaction.fingerprint # call[c].question
      BY <1>3, <2>2, RefusalRefuses
    <3>2. /\ call[c].place \in 1..MaxCalls /\ call[c].question \in Questions
          /\ \A entry \in Given \cup Refused : entry.call # call[c].place
      BY <1>3, <2>2, CallIsNew DEF RefuseDrift, RefuseMiss
    <3>3. Replay!Refuse(call[c].place, call[c].question)
      BY <1>3, <3>1, <3>2 DEF Replay!Refuse, Replay!Unanswered, During
    <3> QED BY <3>2, <3>3 DEF Replay!Next
  <2>3. ASSUME UNCHANGED <<store, served, log>>
        PROVE  Replay!End \/ UNCHANGED Replay!playback
    <3>1. UNCHANGED <<Stock, Given, Refused>>
      BY <2>3 DEF Stock, Given, Refused, Answered
    <3>2. CASE Replaying'
      BY <1>3, <3>1, <3>2 DEF Replay!playback, During
    <3>3. CASE ~Replaying'
      BY <1>3, <3>3 DEF Replay!End, During
    <3> QED BY <3>2, <3>3
  <2>4. ASSUME NEW c \in Callers, ClaimMiss(c) PROVE UNCHANGED <<store, served, log>>
    BY <2>4 DEF ClaimMiss, recorderVars, historyVars
  <2>5. mode = "replay"
    BY <1>3 DEF Replaying, Strict
  <2> QED BY <1>3, <2>1, <2>2, <2>3, <2>4, <2>5, StrictSteps DEF WholeInv, RunInv, Replay!Next
<1> QED BY <1>1, <1>2, <1>3 DEF Replay!Next

\* A strict run of any number of concurrent callers implements Playback: with its
\* ordinals, caches and look-ups out of sight, each of its steps gives one recording
\* out, refuses a question that no recording left asks, starts, ends, or is invisible.
THEOREM ReplayImplementsPlayback ==
    ASSUME NoRepair
    PROVE  Spec => ImplementsPlayback
<1>1. Init => Replay!Init
  BY DEF Init, Replay!Init, During, Replaying
<1>2. WholeInv /\ WholeInv' /\ [Next]_vars => [Replay!Next]_(Replay!playback)
  BY PlaybackStep
<1> QED BY <1>1, <1>2, RunInvariance, PTL DEF Spec, ImplementsPlayback, Replay!Spec

-----------------------------------------------------------------------------
(* A recording is served once, also when runs repair *)

Contents(tape) == {tape[i] : i \in DOMAIN tape}

\* The interactions on a tape, in memory, about to be restored or recorded.
Recordings ==
    UNION {Contents(store), IF loaded = None THEN {} ELSE Contents(loaded),
           UNION {Contents(call[c].kept) : c \in Callers},
           {NewInteraction(c) : c \in {d \in Callers : InHand(d)}}}

\* Repairs may leave two copies of an interaction, never two versions.
OneVersion == \A x, y \in Recordings : x.response = y.response => x = y

\* What a call was served is consumed, wherever copies of it are.
Spent ==
    \A e \in TapeAnswers, x \in Recordings :
        x.response = e.response => x.ordinal \in served

ServedInv == OneVersion /\ Spent /\ ServedOnce

\* What is on a tape after an append, and after its head is taken away.
LEMMA ContentsOf ==
    ASSUME NEW tape \in Seq(Interaction)
    PROVE  /\ \A x \in Interaction : Contents(Append(tape, x)) = Contents(tape) \cup {x}
           /\ tape # <<>> => /\ Head(tape) \in Contents(tape)
                             /\ Contents(Tail(tape)) \subseteq Contents(tape)
<1>1. ASSUME NEW x \in Interaction
      PROVE  Contents(Append(tape, x)) = Contents(tape) \cup {x}
  <2>1. \A i \in DOMAIN tape : i \in DOMAIN Append(tape, x) /\ Append(tape, x)[i] = tape[i]
    OBVIOUS
  <2>2. /\ Len(tape) + 1 \in DOMAIN Append(tape, x) /\ Append(tape, x)[Len(tape) + 1] = x
        /\ \A i \in DOMAIN Append(tape, x) : i \in DOMAIN tape \/ i = Len(tape) + 1
    OBVIOUS
  <2> QED BY <2>1, <2>2 DEF Contents
<1>2. ASSUME tape # <<>>
      PROVE  Head(tape) \in Contents(tape) /\ Contents(Tail(tape)) \subseteq Contents(tape)
  <2>1. 1 \in DOMAIN tape /\ Head(tape) = tape[1]
    BY <1>2
  <2>2. \A i \in DOMAIN Tail(tape) : i + 1 \in DOMAIN tape /\ Tail(tape)[i] = tape[i + 1]
    BY <1>2
  <2> QED BY <2>1, <2>2 DEF Contents
<1> QED BY <1>1, <1>2

\* A step that puts nothing anywhere but what was around keeps what is around.
LEMMA NothingNew ==
    ASSUME Contents(store') \subseteq Recordings,
           loaded' # None => Contents(loaded') \subseteq Recordings,
           \A c \in Callers : Contents(call'[c].kept) \subseteq Recordings,
           \A c \in Callers : InHand(c)' => NewInteraction(c)' \in Recordings
    PROVE  Recordings' \subseteq Recordings
<1>1. ASSUME NEW x \in Recordings' PROVE x \in Recordings
  <2>1. \/ x \in Contents(store')
        \/ loaded' # None /\ x \in Contents(loaded')
        \/ \E c \in Callers : x \in Contents(call'[c].kept)
        \/ \E c \in Callers : InHand(c)' /\ x = NewInteraction(c)'
    BY DEF Recordings, Contents
  <2> QED BY <2>1
<1> QED BY <1>1

\* What is around, by where it is.
LEMMA WhatIsAround ==
    /\ Contents(store) \subseteq Recordings
    /\ loaded # None => Contents(loaded) \subseteq Recordings
    /\ Contents(Load) \subseteq Recordings
    /\ \A c \in Callers : Contents(call[c].kept) \subseteq Recordings
    /\ \A c \in Callers : InHand(c) => NewInteraction(c) \in Recordings
BY DEF Recordings, Load

\* A caller that moves on to another step keeps the rest of its call.
LEMMA Moved ==
    ASSUME TypeOK, NEW c \in Callers, NEW step \in Steps, Goto(c, step)
    PROVE  /\ call'[c].step = step /\ call'[c].question = call[c].question
           /\ call'[c].place = call[c].place /\ call'[c].reply = call[c].reply
           /\ call'[c].kept = call[c].kept
           /\ \A d \in Callers \ {c} : call'[d] = call[d]
BY DEF TypeOK, CallState, Goto

\* Appending to the tape in memory puts nothing else there.
LEMMA CachedContents ==
    ASSUME TypeOK, NEW x \in Interaction, x \in Recordings, loaded' = Cached(x), loaded' # None
    PROVE  Contents(loaded') \subseteq Recordings
<1>1. loaded # None /\ loaded \in Seq(Interaction) /\ loaded' = Append(loaded, x)
  BY DEF Cached, TypeOK
<1> QED BY <1>1, ContentsOf, WhatIsAround

\* Every step but the answer of the model leaves what is around as it is, or less.
LEMMA AroundStep ==
    ASSUME Inv, [Next]_vars, ~(\E c \in Callers : Perform(c))
    PROVE  Recordings' \subseteq Recordings
<1> USE WhatIsAround DEF Inv
<1>0. /\ \A c \in Callers : CallFits(c)
      /\ store \in Seq(Interaction) /\ Load \in Seq(Interaction)
      /\ \A x : NewInteraction(x)' = [ordinal |-> call'[x].place, fingerprint |-> call'[x].question,
                                      response |-> call'[x].reply]
      /\ Contents(<<>>) = {}
  BY TapesTyped DEF CallsFit, TypeOK, NewInteraction, Contents
<1>1. ASSUME UNCHANGED call, Contents(store') \subseteq Recordings,
             loaded' # None => Contents(loaded') \subseteq Recordings
      PROVE  Recordings' \subseteq Recordings
  BY <1>0, <1>1, NothingNew DEF InHand, NewInteraction
<1>2. ASSUME NEW c \in Callers,
             Contents(store') \subseteq Recordings,
             loaded' # None => Contents(loaded') \subseteq Recordings,
             \A d \in Callers \ {c} : call'[d] = call[d],
             Contents(call'[c].kept) \subseteq Recordings,
             InHand(c)' => NewInteraction(c)' \in Recordings
      PROVE  Recordings' \subseteq Recordings
  BY <1>2, NothingNew DEF InHand, NewInteraction
<1>3. ASSUME NEW m \in OpenModes, Open(m) PROVE Recordings' \subseteq Recordings
  BY <1>0, <1>1, <1>3 DEF Open
<1>4. ASSUME NEW c \in Callers, NEW q \in Questions, AskOff(c, q) \/ Ask(c, q)
      PROVE  Recordings' \subseteq Recordings
  <2>1. PICK step \in {"passing", "deciding", "performing"}, place \in Nat :
           Begin(c, step, q, place)
    BY <1>4 DEF AskOff, Ask, NextOrdinal, TypeOK
  <2>2. /\ call'[c].step = step /\ call'[c].kept = <<>>
        /\ \A d \in Callers \ {c} : call'[d] = call[d]
    BY <2>1 DEF Begin, TypeOK
  <2>3. UNCHANGED <<store, loaded>>
    BY <1>4 DEF AskOff, Ask, tapeVars
  <2> QED BY <1>0, <1>2, <2>2, <2>3 DEF InHand
<1>5. ASSUME NEW c \in Callers, NEW response, NEW source, Return(c, response, source),
             Contents(store') \subseteq Recordings,
             loaded' # None => Contents(loaded') \subseteq Recordings
      PROVE  Recordings' \subseteq Recordings
  <2>1. call'[c].step = "idle" /\ call'[c].kept = <<>> /\ \A d \in Callers \ {c} : call'[d] = call[d]
    BY <1>5, Returned DEF Idle
  <2> QED BY <1>0, <1>2, <1>5, <2>1 DEF InHand
<1>6. ASSUME NEW c \in Callers, NEW step \in Steps \ {"answered", "taped"}, Goto(c, step),
             Contents(store') \subseteq Recordings,
             loaded' # None => Contents(loaded') \subseteq Recordings
      PROVE  Recordings' \subseteq Recordings
  <2>1. /\ call'[c].step = step /\ call'[c].kept = call[c].kept
        /\ \A d \in Callers \ {c} : call'[d] = call[d]
    BY <1>6, Moved
  <2> QED BY <1>0, <1>2, <1>6, <2>1 DEF InHand
<1>7. ASSUME NEW c \in Callers, ClaimHit(c) \/ RefuseDrift(c) \/ RefuseMiss(c)
      PROVE  Recordings' \subseteq Recordings
  BY <1>5, <1>7 DEF ClaimHit, RefuseDrift, RefuseMiss
<1>8. ASSUME NEW c \in Callers, ClaimMiss(c) \/ Extend(c) \/ Drift(c)
      PROVE  Recordings' \subseteq Recordings
  BY <1>6, <1>8 DEF ClaimMiss, Extend, Drift, Steps, Rewinding
<1>9. ASSUME NEW c \in Callers, Keep(c) PROVE Recordings' \subseteq Recordings
  <2>1. /\ call'[c].step = "deleting" /\ call'[c].kept = Load
        /\ \A d \in Callers \ {c} : call'[d] = call[d]
    BY <1>9 DEF Keep, TypeOK, CallState
  <2> QED BY <1>0, <1>2, <1>9, <2>1 DEF InHand, Keep
<1>10. ASSUME NEW c \in Callers, Delete(c) \/ Reset(c) \/ Restored(c)
       PROVE  Recordings' \subseteq Recordings
  BY <1>0, <1>6, <1>10 DEF Delete, Reset, Restored, Steps, Rewinding, tapeVars
<1>11. ASSUME NEW c \in Callers, RestoreStored(c) PROVE Recordings' \subseteq Recordings
  <2>1. call[c].kept \in Seq(Interaction) /\ call[c].kept # <<>>
    BY <1>11 DEF RestoreStored, TypeOK, CallState
  <2>2. Head(call[c].kept) \in Interaction
    BY <2>1
  <2>3. Contents(store') \subseteq Recordings
    BY <1>0, <1>11, <2>1, <2>2, ContentsOf DEF RestoreStored
  <2> QED BY <1>6, <1>11, <2>3 DEF RestoreStored, Steps, Rewinding
<1>12. ASSUME NEW c \in Callers, RestoreCached(c) \/ DropStale(c)
       PROVE  Recordings' \subseteq Recordings
  <2>1. call[c].kept \in Seq(Interaction) /\ call[c].kept # <<>>
    BY <1>0, <1>12 DEF RestoreCached, DropStale, CallFits, TypeOK, CallState
  <2>2. Head(call[c].kept) \in Interaction
    BY <2>1
  <2>3. /\ Head(call[c].kept) \in Recordings
        /\ Contents(Tail(call[c].kept)) \subseteq Recordings
    BY <2>1, ContentsOf
  <2>4. store' = store /\ (loaded' # None => Contents(loaded') \subseteq Recordings)
    BY <1>12, <2>2, <2>3, CachedContents DEF RestoreCached, DropStale, tapeVars
  <2>5. /\ call'[c].step \in {"restoring", "refilling"} /\ call'[c].kept = Tail(call[c].kept)
        /\ \A d \in Callers \ {c} : call'[d] = call[d]
    <3>1. CASE RestoreCached(c)
      BY <3>1 DEF RestoreCached, TypeOK, CallState
    <3>2. CASE DropStale(c)
      BY <3>2 DEF DropStale, TypeOK, CallState
    <3> QED BY <1>12, <3>1, <3>2
  <2> QED BY <1>2, <2>3, <2>4, <2>5 DEF InHand
<1>13. ASSUME NEW c \in Callers, Pass(c) \/ Fails(c)
       PROVE  Recordings' \subseteq Recordings
  BY <1>5, <1>13 DEF Pass, Fails, DriftRaises, DeleteFails, RestoreFails, PerformFails,
     RecordFails, tapeVars
<1>14. ASSUME NEW c \in Callers, RecordStored(c) PROVE Recordings' \subseteq Recordings
  <2>1. NewInteraction(c) \in Interaction /\ NewInteraction(c) \in Recordings
    BY <1>14, NewInteractionTyped DEF RecordStored, InHand
  <2>2. Contents(store') \subseteq Recordings
    BY <1>0, <1>14, <2>1, ContentsOf DEF RecordStored
  <2>3. /\ NewInteraction(c)' = NewInteraction(c) /\ call'[c].kept = call[c].kept
        /\ \A d \in Callers \ {c} : call'[d] = call[d]
    BY <1>0, <1>14, Moved DEF RecordStored, Steps, NewInteraction
  <2> QED BY <1>2, <1>14, <2>1, <2>2, <2>3 DEF RecordStored
<1>15. ASSUME NEW c \in Callers, RecordCounted(c) PROVE Recordings' \subseteq Recordings
  <2>1. NewInteraction(c) \in Interaction /\ NewInteraction(c) \in Recordings
    BY <1>15, NewInteractionTyped DEF RecordCounted, InHand
  <2>2. loaded' # None => Contents(loaded') \subseteq Recordings
    BY <1>15, <2>1, CachedContents DEF RecordCounted
  <2> QED BY <1>5, <1>15, <2>2 DEF RecordCounted
<1>16. ASSUME (\E next \in {"open", "finished"} : Finish(next)) \/ Discard
       PROVE  Recordings' \subseteq Recordings
  BY <1>0, <1>1, <1>16 DEF Finish, Discard
<1>17. ASSUME Crash PROVE Recordings' \subseteq Recordings
  <2>1. /\ UNCHANGED <<store, loaded>>
        /\ \A c \in Callers : call'[c].step = "idle" /\ call'[c].kept = <<>>
    BY <1>17 DEF Crash, tapeVars, Idle
  <2> QED BY <1>0, <2>1, NothingNew DEF InHand
<1>18. ASSUME UNCHANGED vars PROVE Recordings' \subseteq Recordings
  BY <1>1, <1>18 DEF vars, tapeVars
<1> QED BY <1>3, <1>4, <1>7, <1>8, <1>9, <1>10, <1>11, <1>12, <1>13, <1>14, <1>15, <1>16,
           <1>17, <1>18 DEF Next, Proceed

\* The responses around, and those given, are of answers the model gave.
LEMMA Answers ==
    ASSUME Inv, AnswersGenuine
    PROVE  /\ \A x \in Recordings : x.response # Len(live) + 1
           /\ \A e \in TapeAnswers : e.response # Len(live) + 1
<1>1. Len(live) + 1 \notin DOMAIN live
  BY DEF Inv, TypeOK
<1>2. \A x \in Recordings : x.response \in DOMAIN live
  BY DEF AnswersGenuine, AnswersIn, GenuineTape, GenuineCall, Genuine, Recordings, Contents, InHand
<1>3. \A e \in TapeAnswers : e.response \in DOMAIN live
  BY DEF AnswersGenuine, AnswersIn, Genuine, Taped, TapeAnswers, Answered
<1> QED BY <1>1, <1>2, <1>3

\* A new answer adds one interaction to those around.
LEMMA AnswerIsNew ==
    ASSUME Inv, NEW c \in Callers, Perform(c)
    PROVE  \E new : /\ new.response = Len(live) + 1
                    /\ Recordings' \subseteq Recordings \cup {new}
<1>1. call[c].question \in Questions /\ live \in Seq(Questions)
  BY DEF Perform, Inv, CallsFit, CallFits, TypeOK
<1>2. Len(live') = Len(live) + 1
  BY <1>1 DEF Perform
<1>3. /\ UNCHANGED <<store, loaded>>
      /\ call'[c].reply = Len(live) + 1 /\ call'[c].kept = call[c].kept
      /\ \A d \in Callers \ {c} : call'[d] = call[d]
  BY <1>2 DEF Perform, Inv, TypeOK, CallState, tapeVars
<1> DEFINE new == NewInteraction(c)'
<1>4. new.response = Len(live) + 1
  BY <1>3 DEF NewInteraction
<1>5. ASSUME NEW x \in Recordings', x # new PROVE x \in Recordings
  <2>1. \/ x \in Contents(store')
        \/ loaded' # None /\ x \in Contents(loaded')
        \/ \E d \in Callers : x \in Contents(call'[d].kept)
        \/ \E d \in Callers : InHand(d)' /\ x = NewInteraction(d)'
    BY <1>5 DEF Recordings, Contents
  <2>2. \A d \in Callers : call'[d].kept = call[d].kept
    BY <1>3
  <2>3. \A d \in Callers \ {c} : InHand(d)' => InHand(d) /\ NewInteraction(d)' = NewInteraction(d)
    BY <1>3 DEF InHand, NewInteraction
  <2> HIDE DEF new
  <2> QED BY <1>3, <1>5, <2>1, <2>2, <2>3, WhatIsAround DEF new
<1> HIDE DEF new
<1> QED BY <1>4, <1>5

\* A step serves a recording or leaves what was served to stand.
LEMMA ServedSteps ==
    ASSUME Inv, [Next]_vars
    PROVE  \/ TapeAnswers' = {}
           \/ TapeAnswers' = TapeAnswers /\ served' = served
           \/ \E found \in Recordings : \E e :
                 /\ TapeAnswers' = TapeAnswers \cup {e} /\ e.response = found.response
                 /\ found.ordinal \notin served /\ served' = served \cup {found.ordinal}
<1>1. ASSUME NEW m \in OpenModes, Open(m) PROVE TapeAnswers' = {}
  BY <1>1 DEF Open, TapeAnswers
<1>2. ASSUME NEW c \in Callers, ClaimHit(c)
      PROVE  \E found \in Recordings : \E e :
                 /\ TapeAnswers' = TapeAnswers \cup {e} /\ e.response = found.response
                 /\ found.ordinal \notin served /\ served' = served \cup {found.ordinal}
  <2> DEFINE found == Claimed(Load, served, call[c].place, call[c].question)
             e == [place |-> call[c].place, question |-> call[c].question,
                   response |-> found.response, source |-> "tape"]
  <2>1. /\ Answerable(Load, served, call[c].place, call[c].question)
        /\ served' = served \cup {found.ordinal} /\ Return(c, found.response, "tape")
    BY <1>2 DEF ClaimHit
  <2>2. Load \in Seq(Interaction)
    BY TapesTyped DEF Inv
  <2>3. PICK i \in DOMAIN Load : found = Load[i] /\ Load[i].ordinal \notin served
    BY <2>1, <2>2, ClaimedAnswers
  <2>4. found \in Recordings /\ found.ordinal \notin served
    BY <2>3, WhatIsAround DEF Contents
  <2>5. log' = log \cup {e} /\ e.source = "tape" /\ e.response = found.response
    BY <2>1 DEF Return
  <2> HIDE DEF found, e
  <2>6. TapeAnswers' = TapeAnswers \cup {e}
    BY <2>5 DEF TapeAnswers
  <2> QED BY <2>1, <2>4, <2>5, <2>6
<1>3. ASSUME NEW c \in Callers, NEW source \in Sources \ {"tape"}, NEW response,
             Return(c, response, source)
      PROVE  TapeAnswers' = TapeAnswers
  BY <1>3 DEF Return, TapeAnswers
<1>4. ASSUME NEW c \in Callers,
             \/ RefuseDrift(c) \/ RefuseMiss(c) \/ Pass(c) \/ RecordCounted(c) \/ Fails(c)
      PROVE  TapeAnswers' = TapeAnswers /\ served' = served
  BY <1>3, <1>4 DEF RefuseDrift, RefuseMiss, Pass, RecordCounted, Fails, DriftRaises,
     DeleteFails, RestoreFails, PerformFails, RecordFails, Sources, recorderVars
<1>5. ASSUME ~(\E m \in OpenModes : Open(m)), \A c \in Callers : ~ClaimHit(c)
      PROVE  \/ log' = log /\ served' = served
             \/ \E c \in Callers : \/ RefuseDrift(c) \/ RefuseMiss(c) \/ Pass(c)
                                   \/ RecordCounted(c) \/ Fails(c)
  <2>1. ASSUME NEW c \in Callers, NEW q \in Questions, AskOff(c, q) \/ Ask(c, q)
        PROVE  log' = log /\ served' = served
    BY <2>1 DEF AskOff, Ask, recorderVars, historyVars
  <2>2. ASSUME NEW c \in Callers,
               \/ ClaimMiss(c) \/ Extend(c) \/ Drift(c) \/ Keep(c) \/ Delete(c) \/ Reset(c)
        PROVE  log' = log /\ served' = served
    BY <2>2 DEF ClaimMiss, Extend, Drift, Keep, Delete, Reset, recorderVars, historyVars
  <2>3. ASSUME NEW c \in Callers,
               \/ RestoreStored(c) \/ RestoreCached(c) \/ DropStale(c) \/ Restored(c)
               \/ Perform(c) \/ RecordStored(c)
        PROVE  log' = log /\ served' = served
    BY <2>3 DEF RestoreStored, RestoreCached, DropStale, Restored, Perform, RecordStored,
       recorderVars, historyVars
  <2>4. ASSUME (\E next \in {"open", "finished"} : Finish(next)) \/ Discard \/ Crash \/ UNCHANGED vars
        PROVE  log' = log /\ served' = served
    BY <2>4 DEF Finish, Discard, Crash, vars, recorderVars, historyVars
  <2> QED BY <1>5, <2>1, <2>2, <2>3, <2>4 DEF Next, Proceed
<1> QED BY <1>1, <1>2, <1>4, <1>5 DEF TapeAnswers

\* Every step keeps versions and servings apart.
LEMMA ServedStep ==
    ASSUME Inv, AnswersGenuine, ServedInv, [Next]_vars
    PROVE  ServedInv'
<1>1. CASE \A c \in Callers : ~Perform(c)
  <2>1. Recordings' \subseteq Recordings
    BY <1>1, AroundStep
  <2>2. OneVersion'
    BY <2>1 DEF ServedInv, OneVersion
  <2>3. Spent' /\ \A e, f \in TapeAnswers' : e.response = f.response => e = f
    BY <2>1, ServedSteps DEF ServedInv, OneVersion, Spent, ServedOnce, TapeAnswers
  <2> QED BY <2>2, <2>3 DEF ServedInv, ServedOnce, TapeAnswers
<1>2. ASSUME NEW c \in Callers, Perform(c) PROVE ServedInv'
  <2>1. PICK new : /\ new.response = Len(live) + 1
                   /\ Recordings' \subseteq Recordings \cup {new}
    BY <1>2, AnswerIsNew
  <2>2. UNCHANGED <<log, served>>
    BY <1>2 DEF Perform, recorderVars, historyVars
  <2>3. OneVersion'
    BY <2>1, Answers DEF ServedInv, OneVersion
  <2>4. Spent'
    BY <2>1, <2>2, Answers DEF ServedInv, Spent, TapeAnswers
  <2> QED BY <2>2, <2>3, <2>4 DEF ServedInv, ServedOnce
<1> QED BY <1>1, <1>2

\* No recording is served to two calls of a run, in any mode and whatever repairs
\* of several callers do to the tape meanwhile: _served remembers ordinals, and a
\* response stands under one ordinal only, wherever it was copied.
THEOREM RecordingsAreServedOnce == Spec => []ServedOnce
<1>1. Init => AnswersGenuine /\ ServedInv
  BY DEF Init, AnswersGenuine, AnswersIn, GenuineTape, GenuineCall, Idle, Answered, ServedInv,
     OneVersion, Spent, ServedOnce, TapeAnswers, Recordings, Contents, InHand
<1>2. Inv /\ AnswersGenuine /\ ServedInv /\ [Next]_vars => ServedInv'
  BY ServedStep
<1>3. ServedInv => ServedOnce
  BY DEF ServedInv
<1> QED BY <1>1, <1>2, <1>3, GenuineStep, Invariance, PTL DEF Spec

-----------------------------------------------------------------------------
(* No loss without a drift *)

Repairing == mode = "replay_or_record" /\ phase \in {"open", "finished"}

\* A run that has counted no drift truncates nothing and has lost nothing.
Untruncated ==
    Repairing /\ drifted = 0 =>
        /\ \A x \in Contents(prior) : x \in Contents(store)
        /\ \A c \in Callers : call[c].step \notin Rewinding

\* Each step counts a drift, opens or ends a run, or leaves what is on the tape
\* there unless a truncation is under way.
LEMMA UntruncatedStep ==
    ASSUME Inv, Untruncated, [Next]_vars
    PROVE  Untruncated'
<1> USE DEF Inv
<1> SUFFICES ASSUME Repairing', drifted' = 0
             PROVE  /\ \A x \in Contents(prior)' : x \in Contents(store)'
                    /\ \A c \in Callers : call'[c].step \notin Rewinding
  BY DEF Untruncated
<1> DEFINE goal == /\ \A x \in Contents(prior)' : x \in Contents(store)'
                   /\ \A c \in Callers : call'[c].step \notin Rewinding
<1>0. /\ store \in Seq(Interaction) /\ drifted \in Nat
      /\ "idle" \notin Rewinding /\ "passing" \notin Rewinding /\ "missed" \notin Rewinding
      /\ "deciding" \notin Rewinding /\ "performing" \notin Rewinding
      /\ "answered" \notin Rewinding /\ "taped" \notin Rewinding
      /\ {"keeping", "deleting", "resetting", "restoring", "refilling"} \subseteq Rewinding
  BY DEF TypeOK, Rewinding
<1>1. ASSUME NEW m \in OpenModes, Open(m) PROVE goal
  <2>1. prior' = store /\ store' = store /\ call' = call
    BY <1>1 DEF Open, Repairing
  <2> QED BY <1>0, <1>1, <2>1 DEF Open, AllIdle
\* Of a step that is not an Open it is enough to say what it leaves.
<1>2. ASSUME mode' = mode, phase' = phase \/ phase = "open", drifted' = drifted, prior' = prior,
             (\A c \in Callers : call[c].step \notin Rewinding) =>
                 /\ Contents(store) \subseteq Contents(store')
                 /\ \A c \in Callers : call'[c].step \notin Rewinding
      PROVE  goal
  BY <1>2 DEF Untruncated, Repairing, Contents
<1>3. ASSUME NEW c \in Callers, NEW q \in Questions, AskOff(c, q) \/ Ask(c, q) PROVE goal
  <2>1. PICK step \in {"passing", "deciding", "performing"}, place \in Nat :
           Begin(c, step, q, place)
    BY <1>3 DEF AskOff, Ask, NextOrdinal, TypeOK
  <2>2. call'[c].step = step /\ \A d \in Callers \ {c} : call'[d] = call[d]
    BY <2>1 DEF Begin, TypeOK
  <2> QED BY <1>0, <1>2, <1>3, <2>2 DEF AskOff, Ask, recorderVars, tapeVars, historyVars
<1>4. ASSUME NEW c \in Callers,
             \/ ClaimHit(c) \/ RefuseDrift(c) \/ RefuseMiss(c) \/ Pass(c)
             \/ RecordCounted(c) \/ PerformFails(c) \/ RecordFails(c)
      PROVE  goal
  <2>1. /\ drifted' = drifted \/ RefuseDrift(c)
        /\ UNCHANGED <<mode, phase, store>>
        /\ \E response, source : Return(c, response, source)
    BY <1>4, Endings DEF ClaimHit, RefuseMiss, Pass, RecordCounted, PerformFails,
       RecordFails, recorderVars
  <2>2. prior' = prior /\ call'[c] = Idle /\ \A d \in Callers \ {c} : call'[d] = call[d]
    BY <2>1, Returned DEF Return
  <2>3. RefuseDrift(c) => mode' # "replay_or_record"
    BY DEF RefuseDrift, Strict
  <2>4. ~RefuseDrift(c)
    BY <2>3 DEF Repairing
  <2> QED BY <1>0, <1>2, <2>1, <2>2, <2>4 DEF Idle
<1>5. ASSUME NEW c \in Callers, ClaimMiss(c) \/ Extend(c) PROVE goal
  <2>1. call'[c].step \in {"missed", "performing"} /\ \A d \in Callers \ {c} : call'[d] = call[d]
    BY <1>5, Moved DEF ClaimMiss, Extend, Steps, Rewinding
  <2> QED BY <1>0, <1>2, <1>5, <2>1 DEF ClaimMiss, Extend, recorderVars, historyVars
<1>6. ASSUME NEW c \in Callers, Drift(c) \/ DriftRaises(c) PROVE goal
  BY <1>0, <1>6 DEF Drift, DriftRaises
<1>7. ASSUME NEW c \in Callers,
             \/ Keep(c) \/ Delete(c) \/ Reset(c) \/ RestoreStored(c)
             \/ RestoreCached(c) \/ DropStale(c) \/ Restored(c)
             \/ DeleteFails(c) \/ RestoreFails(c)
      PROVE  goal
  <2>1. call[c].step \in Rewinding
    BY <1>0, <1>7 DEF Keep, Delete, Reset, RestoreStored, RestoreCached, DropStale, Restored,
       DeleteFails, RestoreFails
  <2>2. UNCHANGED <<mode, phase, drifted, prior>>
    BY <1>7 DEF Keep, Delete, Reset, RestoreStored, RestoreCached, DropStale, Restored,
       DeleteFails, RestoreFails, Return, recorderVars, historyVars
  <2> QED BY <1>2, <2>1, <2>2
<1>8. ASSUME NEW c \in Callers, Perform(c) \/ RecordStored(c) PROVE goal
  <2>1. call'[c].step \in {"answered", "taped"} /\ \A d \in Callers \ {c} : call'[d] = call[d]
    BY <1>8 DEF Perform, RecordStored, Goto, TypeOK, CallState
  <2>2. Contents(store) \subseteq Contents(store')
    <3>1. CASE Perform(c)
      BY <3>1 DEF Perform, tapeVars
    <3>2. CASE RecordStored(c)
      BY <1>0, <3>2, NewInteractionTyped, ContentsOf DEF RecordStored
    <3> QED BY <1>8, <3>1, <3>2
  <2> QED BY <1>0, <1>2, <1>8, <2>1, <2>2 DEF Perform, RecordStored, recorderVars, historyVars
<1>9. ASSUME (\E next \in {"open", "finished"} : Finish(next)) \/ UNCHANGED vars PROVE goal
  BY <1>2, <1>9 DEF Finish, vars, recorderVars, tapeVars, historyVars
<1>10. ASSUME Discard \/ Crash PROVE goal
  BY <1>10 DEF Discard, Crash, Repairing
<1> HIDE DEF goal
<1>11. goal
  BY <1>1, <1>3, <1>4, <1>5, <1>6, <1>7, <1>8, <1>9, <1>10 DEF Next, Proceed, Fails
<1> QED BY <1>11 DEF goal

\* No recording of an earlier run vanishes unless the run says it drifted, on
\* which the report of the plugin rests (stats.drifted), with any number of
\* callers that miss, repair and record at the same time.
THEOREM LossesAreReported == Spec => []NothingDroppedSilently
<1>1. Init => Untruncated
  BY DEF Init, Untruncated, Repairing
<1>2. Inv /\ Untruncated /\ [Next]_vars => Untruncated'
  BY UntruncatedStep
<1>3. Untruncated => NothingDroppedSilently
  BY DEF Untruncated, Repairing, NothingDroppedSilently, AtRest, OnTape, Contents
<1> QED BY <1>1, <1>2, <1>3, Invariance, PTL DEF Spec

-----------------------------------------------------------------------------
(* Repairs by one caller *)

OneCaller == \E c : Callers = {c}

\* A call in progress is of the open run, and the last that was numbered.
Placed ==
    \A c \in Callers :
        /\ call[c].step # "idle" => phase = "open"
        /\ call[c].step = "passing" => mode = "off"
        /\ call[c].step \notin {"idle", "passing"} => call[c].place = ordinal

Below(tape, n) == \A x \in Contents(tape) : x.ordinal < n

Apart(s, t) == \A x \in Contents(s), y \in Contents(t) : x.ordinal # y.ordinal

Numbering(tape) == \A i, j \in DOMAIN tape : tape[i].ordinal = tape[j].ordinal => i = j

\* What the steps of a truncation have done to the two tapes, and what a
\* recording has; in between the tape in memory is the stored one.
Mirrored ==
    /\ phase # "closed" /\ loaded # None => \A c \in Callers :
          /\ call[c].step = "taped" => store = Append(loaded, NewInteraction(c))
          /\ call[c].step = "refilling" => store = Append(loaded, Head(call[c].kept))
          /\ call[c].step \notin {"resetting", "refilling", "taped"} => loaded = store
    /\ \A c \in Callers :
          /\ call[c].step = "deleting" => call[c].kept = store
          /\ call[c].step = "resetting" => store = <<>>

\* The tapes are numbered without clashes, and have room for the next recording.
Numerals ==
    /\ Numbering(store)
    /\ mode = "record" => Below(store, ordinal + 1)
    /\ \A c \in Callers :
          /\ call[c].step \in {"resetting", "restoring", "refilling"} => Numbering(call[c].kept)
          /\ call[c].step = "restoring" => Apart(store, call[c].kept)
          /\ call[c].step = "refilling" => /\ Head(call[c].kept) \in Contents(store)
                                           /\ Apart(store, Tail(call[c].kept))
          /\ call[c].step \in {"restoring", "refilling"} => Below(store, call[c].place)
          /\ call[c].step \in {"performing", "answered"} => ~Has(store, call[c].place)

SoloInv == Placed /\ Mirrored /\ Numerals

\* Whether a tape has an ordinal depends on what is on it alone.
LEMMA HasContents ==
    ASSUME NEW tape, NEW n
    PROVE  Has(tape, n) <=> \E x \in Contents(tape) : x.ordinal = n
BY DEF Has, Holding, Contents

\* A tape is its head and what is behind it.
LEMMA HeadAndTail ==
    ASSUME NEW tape \in Seq(Interaction), tape # <<>>
    PROVE  /\ Contents(tape) = {Head(tape)} \cup Contents(Tail(tape))
           /\ Numbering(tape) => /\ Numbering(Tail(tape))
                                 /\ \A x \in Contents(Tail(tape)) : x.ordinal # Head(tape).ordinal
<1>1. /\ Len(tape) \in Nat /\ Len(tape) > 0
      /\ DOMAIN tape = 1..Len(tape) /\ DOMAIN Tail(tape) = 1..(Len(tape) - 1)
      /\ Head(tape) = tape[1] /\ \A i \in DOMAIN Tail(tape) : Tail(tape)[i] = tape[i + 1]
  OBVIOUS
<1>2. \A i \in DOMAIN Tail(tape) : i + 1 \in DOMAIN tape /\ i + 1 # 1
  BY <1>1
<1>3. \A i \in DOMAIN tape : i = 1 \/ (i - 1 \in DOMAIN Tail(tape) /\ Tail(tape)[i - 1] = tape[i])
  BY <1>1
<1>4. 1 \in DOMAIN tape
  BY <1>1
<1>5. Contents(tape) = {Head(tape)} \cup Contents(Tail(tape))
  BY <1>1, <1>2, <1>3, <1>4 DEF Contents
<1>6. ASSUME Numbering(tape)
      PROVE  /\ Numbering(Tail(tape))
             /\ \A x \in Contents(Tail(tape)) : x.ordinal # Head(tape).ordinal
  <2>1. \A i \in DOMAIN Tail(tape) : tape[i + 1].ordinal # tape[1].ordinal
    BY <1>2, <1>4, <1>6 DEF Numbering
  <2>2. ASSUME NEW i \in DOMAIN Tail(tape), NEW j \in DOMAIN Tail(tape),
               Tail(tape)[i].ordinal = Tail(tape)[j].ordinal
        PROVE  i = j
    <3>1. i + 1 = j + 1
      BY <1>1, <1>2, <1>6, <2>2 DEF Numbering
    <3> QED BY <1>1, <3>1
  <2> QED BY <1>1, <2>1, <2>2 DEF Numbering, Contents
<1> QED BY <1>5, <1>6

\* A tape stays without clashes if what is appended has an ordinal of its own.
LEMMA NumberingGrows ==
    ASSUME NEW tape \in Seq(Interaction), NEW x \in Interaction,
           Numbering(tape), ~Has(tape, x.ordinal)
    PROVE  Numbering(Append(tape, x))
<1>1. \A i \in DOMAIN tape : tape[i].ordinal # x.ordinal
  BY DEF Has, Holding
<1>2. \A i \in DOMAIN Append(tape, x) :
         \/ i \in DOMAIN tape /\ Append(tape, x)[i] = tape[i]
         \/ i = Len(tape) + 1 /\ Append(tape, x)[i] = x
  BY Appended
<1> QED BY <1>1, <1>2 DEF Numbering

(* What the steps of a caller do to its call and to the tapes. *)

\* A call begins, with the next number unless recording is off.
LEMMA Asking ==
    ASSUME Inv, NEW c \in Callers, NEW q \in Questions, AskOff(c, q) \/ Ask(c, q)
    PROVE  /\ UNCHANGED <<mode, phase, store, loaded, log, prior, live>> /\ phase = "open"
           /\ call[c].step = "idle" /\ call'[c].step \in {"passing", "deciding", "performing"}
           /\ call'[c].step = "passing" => mode = "off" /\ ordinal' = ordinal
           /\ call'[c].step # "passing" => ordinal' = ordinal + 1 /\ call'[c].place = ordinal'
           /\ call'[c].step = "performing" => mode = "record"
<1> USE DEF Inv
<1>1. CASE AskOff(c, q)
  <2>1. call'[c].step = "passing"
    <3>1. Begin(c, "passing", q, 0)
      BY <1>1 DEF AskOff
    <3> QED BY <3>1, Begun DEF Steps
  <2> QED BY <1>1, <2>1 DEF AskOff, recorderVars, tapeVars, historyVars
<1>2. CASE Ask(c, q)
  <2>1. PICK step \in {"deciding", "performing"} :
           /\ Begin(c, step, q, ordinal + 1)
           /\ step = "performing" => ~MayReplay(mode)
    BY <1>2 DEF Ask, NextOrdinal
  <2>2. call'[c].step = step /\ call'[c].place = ordinal + 1
    <3>1. step \in Steps /\ ordinal + 1 \in Nat
      BY DEF Steps, TypeOK
    <3> QED BY <2>1, <3>1, Begun
  <2>3. ~MayReplay(mode) => mode = "record"
    BY <1>2 DEF Ask, MayReplay, TypeOK
  <2> QED BY <1>2, <2>1, <2>2, <2>3 DEF Ask, NextOrdinal, tapeVars, historyVars
<1> QED BY <1>1, <1>2

\* It looks the tape up and loads it.
LEMMA Looking ==
    ASSUME Inv, NEW c \in Callers, ClaimMiss(c) \/ Extend(c) \/ Drift(c)
    PROVE  /\ UNCHANGED <<mode, phase, ordinal, store, log, prior, live>> /\ loaded' = Load
           /\ call'[c].place = call[c].place
           /\ call[c].step \in {"deciding", "missed"}
           /\ call'[c].step \in {"missed", "performing", "keeping"}
           /\ call'[c].step = "performing" <=> Extend(c)
           /\ call'[c].step = "keeping" => Drift(c)
<1> USE DEF Inv
<1>1. "missed" \in Steps /\ "performing" \in Steps /\ "keeping" \in Steps
  BY DEF Steps, Rewinding
<1>2. CASE ClaimMiss(c)
  BY <1>1, <1>2, Moved DEF ClaimMiss, Extend, recorderVars, historyVars
<1>3. CASE Extend(c)
  BY <1>1, <1>3, Moved DEF Extend, recorderVars, historyVars
<1>4. CASE Drift(c)
  BY <1>1, <1>4, Moved DEF Drift, Extend, historyVars
<1> QED BY <1>2, <1>3, <1>4

\* It truncates the tape (Cassette.truncate_from), effect by effect.
LEMMA Cutting ==
    ASSUME Inv, NEW c \in Callers
    PROVE  /\ Keep(c) => /\ call[c].step = "keeping" /\ call'[c].step = "deleting"
                         /\ call'[c].kept = Load /\ store' = store /\ loaded' = Load
           /\ Delete(c) => /\ call[c].step = "deleting" /\ call'[c].step = "resetting"
                           /\ call'[c].kept = call[c].kept /\ store' = <<>> /\ loaded' = loaded
           /\ Reset(c) => /\ call[c].step = "resetting" /\ call'[c].step = "restoring"
                          /\ call'[c].kept = call[c].kept /\ store' = store /\ loaded' = <<>>
           /\ RestoreStored(c) =>
                 /\ call[c].step = "restoring" /\ call'[c].step = "refilling"
                 /\ call[c].kept # <<>> /\ Head(call[c].kept).ordinal < call[c].place
                 /\ call'[c].kept = call[c].kept
                 /\ store' = Append(store, Head(call[c].kept)) /\ loaded' = loaded
           /\ RestoreCached(c) =>
                 /\ call[c].step = "refilling" /\ call'[c].step = "restoring" /\ call[c].kept # <<>>
                 /\ call'[c].kept = Tail(call[c].kept)
                 /\ store' = store /\ loaded' = Cached(Head(call[c].kept))
           /\ DropStale(c) =>
                 /\ call[c].step = "restoring" /\ call'[c].step = "restoring"
                 /\ call[c].kept # <<>> /\ ~(Head(call[c].kept).ordinal < call[c].place)
                 /\ call'[c].kept = Tail(call[c].kept) /\ store' = store /\ loaded' = loaded
           /\ Restored(c) =>
                 /\ call[c].step = "restoring" /\ call'[c].step = "performing"
                 /\ call[c].kept = <<>> /\ store' = store /\ loaded' = loaded
<1> USE DEF Inv
<1>1. {"deleting", "resetting", "restoring", "refilling", "performing"} \subseteq Steps
  BY DEF Steps, Rewinding
<1>2. ASSUME Keep(c) PROVE call'[c].step = "deleting" /\ call'[c].kept = Load
  BY <1>2 DEF Keep, TypeOK, CallState
<1>3. ASSUME RestoreCached(c)
      PROVE  call'[c].step = "restoring" /\ call'[c].kept = Tail(call[c].kept)
  BY <1>3 DEF RestoreCached, TypeOK, CallState
<1>4. ASSUME DropStale(c)
      PROVE  call'[c].step = "restoring" /\ call'[c].kept = Tail(call[c].kept)
  BY <1>4 DEF DropStale, TypeOK, CallState
<1>5. RestoreCached(c) => call[c].kept # <<>>
  BY DEF RestoreCached, CallsFit, CallFits
<1>6. Keep(c) \/ RestoreCached(c) \/ DropStale(c) =>
         /\ Keep(c) => call[c].step = "keeping" /\ store' = store /\ loaded' = Load
         /\ RestoreCached(c) => /\ call[c].step = "refilling"
                                /\ store' = store /\ loaded' = Cached(Head(call[c].kept))
         /\ DropStale(c) =>
               /\ call[c].step = "restoring" /\ call[c].kept # <<>>
               /\ ~(Head(call[c].kept).ordinal < call[c].place)
               /\ store' = store /\ loaded' = loaded
  BY DEF Keep, RestoreCached, DropStale, Before, tapeVars
<1>7. ASSUME Delete(c)
      PROVE  /\ call[c].step = "deleting" /\ call'[c].step = "resetting"
             /\ call'[c].kept = call[c].kept /\ store' = <<>> /\ loaded' = loaded
  BY <1>1, <1>7, Moved DEF Delete
<1>8. ASSUME Reset(c)
      PROVE  /\ call[c].step = "resetting" /\ call'[c].step = "restoring"
             /\ call'[c].kept = call[c].kept /\ store' = store /\ loaded' = <<>>
  BY <1>1, <1>8, Moved DEF Reset
<1>9. ASSUME RestoreStored(c)
      PROVE  /\ call[c].step = "restoring" /\ call'[c].step = "refilling"
             /\ call[c].kept # <<>> /\ Head(call[c].kept).ordinal < call[c].place
             /\ call'[c].kept = call[c].kept
             /\ store' = Append(store, Head(call[c].kept)) /\ loaded' = loaded
  BY <1>1, <1>9, Moved DEF RestoreStored, Before
<1>10. ASSUME Restored(c)
       PROVE  /\ call[c].step = "restoring" /\ call'[c].step = "performing"
              /\ call[c].kept = <<>> /\ store' = store /\ loaded' = loaded
  BY <1>1, <1>10, Moved DEF Restored, tapeVars
<1> QED BY <1>2, <1>3, <1>4, <1>5, <1>6, <1>7, <1>8, <1>9, <1>10

\* The steps of a truncation.
Cuts(c) == \/ Keep(c) \/ Delete(c) \/ Reset(c) \/ RestoreStored(c)
           \/ RestoreCached(c) \/ DropStale(c) \/ Restored(c)

\* They happen in repairs, and leave all but the tapes and what is kept.
LEMMA CutsKeep ==
    ASSUME Inv, NEW c \in Callers, Cuts(c)
    PROVE  /\ UNCHANGED <<mode, phase, ordinal, log, prior, live, drifted>>
           /\ call'[c].place = call[c].place /\ call[c].step \in Rewinding
           /\ call'[c].step \in Rewinding \cup {"performing"}
           /\ mode = "replay_or_record"
<1> USE DEF Inv
<1>1. call'[c].place = call[c].place
  BY DEF Cuts, Keep, Delete, Reset, RestoreStored, RestoreCached, DropStale, Restored, Goto,
     TypeOK, CallState
<1>2. UNCHANGED <<mode, phase, ordinal, log, prior, live, drifted>>
  BY DEF Cuts, Keep, Delete, Reset, RestoreStored, RestoreCached, DropStale, Restored,
     recorderVars, historyVars
<1>3. call[c].step \in Rewinding /\ call'[c].step \in Rewinding \cup {"performing"}
  BY Cutting DEF Cuts, Rewinding
<1>4. mode = "replay_or_record"
  BY <1>3 DEF Rewinding, TypeOK, CallsFit, CallFits
<1> QED BY <1>1, <1>2, <1>3, <1>4

\* It asks the model, and its answer is stored.
LEMMA Recording ==
    ASSUME Inv, NEW c \in Callers
    PROVE  /\ Perform(c) =>
                 /\ call[c].step = "performing" /\ call'[c].step = "answered"
                 /\ call'[c].place = call[c].place /\ call'[c].reply = Len(live) + 1
                 /\ \E q \in Questions : live' = Append(live, q)
                 /\ UNCHANGED <<mode, phase, ordinal, store, loaded, log, prior>>
           /\ RecordStored(c) =>
                 /\ call[c].step = "answered" /\ call'[c].step = "taped"
                 /\ call'[c].place = call[c].place /\ call'[c].question = call[c].question
                 /\ call'[c].reply = call[c].reply
                 /\ NewInteraction(c) \in Interaction
                 /\ store' = Append(store, NewInteraction(c))
                 /\ UNCHANGED <<mode, phase, ordinal, loaded, log, prior, live>>
<1> USE DEF Inv
<1>1. ASSUME Perform(c)
      PROVE  /\ call[c].step = "performing" /\ call'[c].step = "answered"
             /\ call'[c].place = call[c].place /\ call'[c].reply = Len(live) + 1
             /\ \E q \in Questions : live' = Append(live, q)
             /\ UNCHANGED <<mode, phase, ordinal, store, loaded, log, prior>>
  <2>1. call[c].question \in Questions /\ live \in Seq(Questions)
    BY <1>1 DEF Perform, CallsFit, CallFits, TypeOK
  <2>2. Len(live') = Len(live) + 1
    BY <1>1, <2>1 DEF Perform
  <2> QED BY <1>1, <2>1, <2>2 DEF Perform, TypeOK, CallState, recorderVars, tapeVars, historyVars
<1>2. ASSUME RecordStored(c)
      PROVE  /\ call[c].step = "answered" /\ call'[c].step = "taped"
             /\ call'[c].place = call[c].place /\ call'[c].question = call[c].question
             /\ call'[c].reply = call[c].reply
             /\ NewInteraction(c) \in Interaction
             /\ store' = Append(store, NewInteraction(c))
             /\ UNCHANGED <<mode, phase, ordinal, loaded, log, prior, live>>
  BY <1>2, Moved, NewInteractionTyped DEF RecordStored, Steps, recorderVars, historyVars
<1> QED BY <1>1, <1>2

\* The steps that end a call.
Ends(c) == \/ ClaimHit(c) \/ RefuseDrift(c) \/ RefuseMiss(c) \/ Pass(c)
           \/ RecordCounted(c) \/ Fails(c)

\* They leave the stored tape as it is.
LEMMA Ending ==
    ASSUME Inv, NEW c \in Callers, Ends(c)
    PROVE  /\ UNCHANGED <<mode, phase, ordinal, store, prior>>
           /\ call'[c] = Idle
           /\ RecordCounted(c) => call[c].step = "taped" /\ loaded' = Cached(NewInteraction(c))
           /\ ~RecordCounted(c) =>
                 /\ loaded' \in {loaded, Load}
                 /\ call[c].step \in {"deciding", "missed", "deleting", "restoring",
                                      "passing", "performing", "answered"}
           /\ call[c].step = "restoring" => RestoreFails(c)
<1> USE DEF Inv
<1>1. /\ UNCHANGED <<mode, phase, ordinal, store>>
      /\ \E response, source : Return(c, response, source)
  <2>1. CASE Fails(c)
    BY <2>1 DEF Fails, DriftRaises, DeleteFails, RestoreFails, PerformFails, RecordFails,
       recorderVars, tapeVars
  <2> QED BY <2>1, Endings DEF Ends
<1>2. call'[c] = Idle /\ prior' = prior
  BY <1>1, Returned DEF Return
<1>3. RecordCounted(c) => call[c].step = "taped" /\ loaded' = Cached(NewInteraction(c))
  BY DEF RecordCounted
<1>4. /\ ~RecordCounted(c) =>
            /\ loaded' \in {loaded, Load}
            /\ call[c].step \in {"deciding", "missed", "deleting", "restoring",
                                 "passing", "performing", "answered"}
      /\ call[c].step = "restoring" => RestoreFails(c)
  BY DEF Ends, ClaimHit, RefuseDrift, RefuseMiss, Pass, RecordCounted, Fails, DriftRaises,
     DeleteFails, RestoreFails, PerformFails, RecordFails, tapeVars
<1> QED BY <1>1, <1>2, <1>3, <1>4

\* Every step is one of these, or one of a whole run.
LEMMA Sorted ==
    ASSUME [Next]_vars
    PROVE  \/ \E m \in OpenModes : Open(m)
           \/ \E c \in Callers, q \in Questions : AskOff(c, q) \/ Ask(c, q)
           \/ \E c \in Callers : ClaimMiss(c) \/ Extend(c) \/ Drift(c)
           \/ \E c \in Callers : Cuts(c)
           \/ \E c \in Callers : Perform(c) \/ RecordStored(c)
           \/ \E c \in Callers : Ends(c)
           \/ \E next \in {"open", "finished"} : Finish(next)
           \/ Discard \/ Crash \/ UNCHANGED vars
BY DEF Next, Proceed, Cuts, Ends

\* Calls keep to the open run and to the last number.
LEMMA PlacedStep ==
    ASSUME OneCaller, Inv, Placed, [Next]_vars
    PROVE  Placed'
<1>1. ASSUME NEW m \in OpenModes, Open(m) PROVE Placed'
  BY <1>1 DEF Open, AllIdle, Placed
<1>2. ASSUME NEW c \in Callers, call'[c].step # "idle" => phase' = "open",
             call'[c].step = "passing" => mode' = "off",
             call'[c].step \notin {"idle", "passing"} => call'[c].place = ordinal'
      PROVE  Placed'
  BY <1>2 DEF OneCaller, Placed
<1>3. ASSUME NEW c \in Callers, NEW q \in Questions, AskOff(c, q) \/ Ask(c, q) PROVE Placed'
  BY <1>2, <1>3, Asking
<1>4. ASSUME NEW c \in Callers, ClaimMiss(c) \/ Extend(c) \/ Drift(c) PROVE Placed'
  BY <1>2, <1>4, Looking DEF Placed
<1>5. ASSUME NEW c \in Callers, Cuts(c) PROVE Placed'
  BY <1>2, <1>5, CutsKeep DEF Placed, Rewinding
<1>6. ASSUME NEW c \in Callers, Perform(c) \/ RecordStored(c) PROVE Placed'
  BY <1>2, <1>6, Recording DEF Placed
<1>7. ASSUME NEW c \in Callers, Ends(c) PROVE Placed'
  BY <1>2, <1>7, Ending DEF Idle
<1>8. ASSUME (\E next \in {"open", "finished"} : Finish(next)) \/ Discard PROVE Placed'
  BY <1>8 DEF Finish, Discard, AllIdle, Placed
<1>9. ASSUME Crash PROVE Placed'
  BY <1>9 DEF Crash, Idle, Placed
<1>10. ASSUME UNCHANGED vars PROVE Placed'
  BY <1>10 DEF vars, recorderVars, Placed
<1> QED BY <1>1, <1>3, <1>4, <1>5, <1>6, <1>7, <1>8, <1>9, <1>10, Sorted

\* The part of Mirrored about one caller.
MirroredBy(c) ==
    /\ phase # "closed" /\ loaded # None =>
          /\ call[c].step = "taped" => store = Append(loaded, NewInteraction(c))
          /\ call[c].step = "refilling" => store = Append(loaded, Head(call[c].kept))
          /\ call[c].step \notin {"resetting", "refilling", "taped"} => loaded = store
    /\ call[c].step = "deleting" => call[c].kept = store
    /\ call[c].step = "resetting" => store = <<>>

\* Every step of one caller keeps account of how the two tapes differ.
LEMMA MirroredStep ==
    ASSUME OneCaller, Inv, Placed, Mirrored, [Next]_vars
    PROVE  Mirrored'
<1>0. \A c \in Callers : MirroredBy(c)
  BY DEF Mirrored, MirroredBy
<1>1. ASSUME NEW c \in Callers, MirroredBy(c)' PROVE Mirrored'
  BY <1>1 DEF OneCaller, Mirrored, MirroredBy
<1>2. ASSUME NEW c \in Callers, call[c].step \notin {"resetting", "refilling", "taped"},
             call[c].step # "idle"
      PROVE  Load = store
  BY <1>0, <1>2 DEF MirroredBy, Load, Placed
<1>3. ASSUME NEW m \in OpenModes, Open(m) PROVE Mirrored'
  BY <1>3 DEF Open, AllIdle, Mirrored
<1>4. ASSUME NEW c \in Callers, NEW q \in Questions, AskOff(c, q) \/ Ask(c, q) PROVE Mirrored'
  <2>1. MirroredBy(c)'
    BY <1>0, <1>4, Asking DEF MirroredBy
  <2> QED BY <1>1, <2>1
<1>5. ASSUME NEW c \in Callers, ClaimMiss(c) \/ Extend(c) \/ Drift(c) PROVE Mirrored'
  <2>1. Load = store
    BY <1>2, <1>5, Looking
  <2>2. MirroredBy(c)'
    BY <1>5, <2>1, Looking DEF MirroredBy
  <2> QED BY <1>1, <2>2
<1>6. ASSUME NEW c \in Callers, Cuts(c) PROVE Mirrored'
  <2>1. phase' = phase /\ phase = "open"
    BY <1>6, CutsKeep DEF Placed, Rewinding
  <2>2. CASE Keep(c)
    <3>1. Load = store
      BY <1>2, <2>2, Cutting
    <3>2. MirroredBy(c)'
      BY <2>2, <3>1, Cutting DEF MirroredBy
    <3> QED BY <1>1, <3>2
  <2>3. CASE Delete(c)
    <3>1. MirroredBy(c)'
      BY <2>3, Cutting DEF MirroredBy
    <3> QED BY <1>1, <3>1
  <2>4. CASE Reset(c)
    <3>1. store' = <<>> /\ loaded' = <<>> /\ call'[c].step = "restoring"
      BY <1>0, <2>4, Cutting DEF MirroredBy
    <3>2. MirroredBy(c)'
      BY <3>1 DEF MirroredBy
    <3> QED BY <1>1, <3>2
  <2>5. CASE RestoreStored(c)
    <3>1. MirroredBy(c)'
      BY <1>0, <2>1, <2>5, Cutting DEF MirroredBy
    <3> QED BY <1>1, <3>1
  <2>6. CASE RestoreCached(c)
    <3>1. loaded = None \/ store = Append(loaded, Head(call[c].kept))
      BY <1>0, <2>1, <2>6, Cutting DEF MirroredBy
    <3>2. loaded' = IF loaded = None THEN None ELSE Append(loaded, Head(call[c].kept))
      BY <2>6, Cutting DEF Cached
    <3>3. MirroredBy(c)'
      BY <2>6, <3>1, <3>2, Cutting DEF MirroredBy
    <3> QED BY <1>1, <3>3
  <2>7. CASE DropStale(c) \/ Restored(c)
    <3>1. MirroredBy(c)'
      BY <1>0, <2>1, <2>7, Cutting DEF MirroredBy
    <3> QED BY <1>1, <3>1
  <2> QED BY <1>6, <2>2, <2>3, <2>4, <2>5, <2>6, <2>7 DEF Cuts
<1>7. ASSUME NEW c \in Callers, Perform(c) PROVE Mirrored'
  <2>1. MirroredBy(c)'
    BY <1>0, <1>7, Recording DEF MirroredBy
  <2> QED BY <1>1, <2>1
<1>8. ASSUME NEW c \in Callers, RecordStored(c) PROVE Mirrored'
  <2>1. NewInteraction(c)' = NewInteraction(c)
    BY <1>8, Recording DEF NewInteraction
  <2>2. MirroredBy(c)'
    BY <1>0, <1>8, <2>1, Recording DEF MirroredBy
  <2> QED BY <1>1, <2>2
<1>9. ASSUME NEW c \in Callers, Ends(c) PROVE Mirrored'
  <2>1. phase' = phase /\ store' = store /\ call'[c].step = "idle"
    BY <1>9, Ending DEF Idle
  <2>2. phase # "closed" /\ loaded' # None => loaded' = store
    <3>1. CASE RecordCounted(c)
      BY <1>0, <1>9, <3>1, Ending DEF MirroredBy, Cached
    <3>2. CASE ~RecordCounted(c)
      <4>1. Load = store
        BY <1>2, <1>9, <3>2, Ending
      <4>2. loaded = None \/ loaded = store
        BY <4>1 DEF Load
      <4> QED BY <1>9, <3>2, <4>1, <4>2, Ending
    <3> QED BY <3>1, <3>2
  <2>3. MirroredBy(c)'
    BY <2>1, <2>2 DEF MirroredBy
  <2> QED BY <1>1, <2>3
<1>10. ASSUME NEW next \in {"open", "finished"}, Finish(next) PROVE Mirrored'
  <2>1. /\ call' = call /\ store' = store /\ phase = "open" /\ phase' # "closed"
        /\ \A c \in Callers : call[c].step = "idle"
        /\ loaded' \in {loaded, Load}
    BY <1>10 DEF Finish, AllIdle
  <2> QED BY <2>1 DEF Mirrored, Load
<1>11. ASSUME Discard PROVE Mirrored'
  BY <1>11 DEF Discard, AllIdle, Mirrored
<1>12. ASSUME Crash PROVE Mirrored'
  BY <1>12 DEF Crash, Idle, Mirrored
<1>13. ASSUME UNCHANGED vars PROVE Mirrored'
  BY <1>13 DEF vars, recorderVars, tapeVars, Mirrored, NewInteraction
<1> QED BY <1>3, <1>4, <1>5, <1>6, <1>7, <1>8, <1>9, <1>10, <1>11, <1>12, <1>13, Sorted

\* The part of Numerals about one caller.
NumeralsBy(c) ==
    /\ call[c].step \in {"resetting", "restoring", "refilling"} => Numbering(call[c].kept)
    /\ call[c].step = "restoring" => Apart(store, call[c].kept)
    /\ call[c].step = "refilling" => /\ Head(call[c].kept) \in Contents(store)
                                     /\ Apart(store, Tail(call[c].kept))
    /\ call[c].step \in {"restoring", "refilling"} => Below(store, call[c].place)
    /\ call[c].step \in {"performing", "answered"} => ~Has(store, call[c].place)

\* No step of one caller makes two ordinals of a tape meet.
LEMMA NumeralsStep ==
    ASSUME OneCaller, Inv, SoloInv, [Next]_vars
    PROVE  Numerals'
<1> USE DEF Inv, SoloInv
<1>0. /\ \A c \in Callers : NumeralsBy(c) /\ call[c].kept \in Seq(Interaction) /\ call[c].place \in Nat
      /\ store \in Seq(Interaction) /\ ordinal \in Nat
      /\ \A tape \in Seq(Interaction) : \A x \in Contents(tape) : x \in Interaction /\ x.ordinal \in Nat
      /\ Numbering(store)
      /\ mode = "record" => Below(store, ordinal + 1)
      /\ Contents(<<>>) = {} /\ Numbering(<<>>)
  <2>1. /\ \A c \in Callers : NumeralsBy(c)
        /\ Numbering(store)
        /\ mode = "record" => Below(store, ordinal + 1)
    BY DEF Numerals, NumeralsBy
  <2>2. /\ \A c \in Callers : call[c].kept \in Seq(Interaction) /\ call[c].place \in Nat
        /\ store \in Seq(Interaction) /\ ordinal \in Nat
    BY DEF TypeOK, CallState
  <2>3. \A tape \in Seq(Interaction) : \A x \in Contents(tape) : x \in Interaction /\ x.ordinal \in Nat
    <3>1. ASSUME NEW tape \in Seq(Interaction), NEW i \in DOMAIN tape PROVE tape[i] \in Interaction
      OBVIOUS
    <3> QED BY <3>1 DEF Contents, Interaction
  <2>4. Contents(<<>>) = {} /\ Numbering(<<>>)
    BY DEF Contents, Numbering
  <2> QED BY <2>1, <2>2, <2>3, <2>4
<1>1. ASSUME NEW c \in Callers, Numbering(store'), mode' = "record" => Below(store', ordinal' + 1),
             NumeralsBy(c)'
      PROVE  Numerals'
  BY <1>1 DEF OneCaller, Numerals, NumeralsBy
\* A step that leaves the caller out of a truncation and of a live call.
<1>2. ASSUME \A c \in Callers : call'[c].step \in {"idle", "passing", "deciding", "missed",
                                                   "keeping", "deleting", "taped"},
             Numbering(store'), mode' = "record" => Below(store', ordinal' + 1)
      PROVE  Numerals'
  BY <1>2 DEF Numerals
<1>3. ASSUME NEW m \in OpenModes, Open(m) PROVE Numerals'
  <2>1. /\ store' \in {<<>>, store}
        /\ mode' = "record" => store' = <<>>
    BY <1>3 DEF Open
  <2>2. /\ Numbering(store')
        /\ mode' = "record" => Below(store', ordinal' + 1)
    BY <1>0, <2>1 DEF Below
  <2> QED BY <1>2, <1>3, <2>2 DEF Open, AllIdle
<1>4. ASSUME NEW c \in Callers, NEW q \in Questions, AskOff(c, q) \/ Ask(c, q) PROVE Numerals'
  <2>1. mode = "record" => Below(store, ordinal + 2)
    BY <1>0 DEF Below
  <2>2. mode' = "record" => Below(store', ordinal' + 1)
    BY <1>0, <1>4, <2>1, Asking
  <2>3. call'[c].step = "performing" => ~Has(store', call'[c].place)
    <3>1. SUFFICES ASSUME call'[c].step = "performing" PROVE ~Has(store, ordinal + 1)
      BY <1>4, Asking
    <3>2. Below(store, ordinal + 1)
      BY <1>0, <1>4, <3>1, Asking
    <3> QED BY <1>0, <3>2, HasContents DEF Below
  <2>4. NumeralsBy(c)'
    BY <1>4, <2>3, Asking DEF NumeralsBy
  <2> QED BY <1>0, <1>1, <1>4, <2>2, <2>4, Asking
<1>5. ASSUME NEW c \in Callers, ClaimMiss(c) \/ Extend(c) \/ Drift(c) PROVE Numerals'
  <2>1. Load = store
    BY <1>5, Looking DEF Mirrored, Placed, Load
  <2>2. Extend(c) => ~Has(store, call[c].place)
    BY <2>1 DEF Extend
  <2>3. NumeralsBy(c)'
    BY <1>5, <2>2, Looking DEF NumeralsBy
  <2> QED BY <1>0, <1>1, <1>5, <2>3, Looking
<1>6. ASSUME NEW c \in Callers, Cuts(c) PROVE Numerals'
  <2>0. mode' # "record" /\ call'[c].place = call[c].place
    BY <1>6, CutsKeep
  <2>1. CASE Keep(c)
    <3>1. NumeralsBy(c)'
      BY <2>1, Cutting DEF NumeralsBy
    <3> QED BY <1>0, <1>1, <2>0, <2>1, <3>1, Cutting
  <2>2. CASE Delete(c)
    <3>1. call'[c].kept = store /\ store' = <<>> /\ call'[c].step = "resetting"
      BY <2>2, Cutting DEF Mirrored
    <3>2. NumeralsBy(c)'
      BY <1>0, <3>1 DEF NumeralsBy
    <3> QED BY <1>0, <1>1, <2>0, <3>1, <3>2
  <2>3. CASE Reset(c)
    <3>1. store' = <<>> /\ call'[c].kept = call[c].kept /\ call'[c].step = "restoring"
          /\ Numbering(call[c].kept)
      BY <1>0, <2>3, Cutting DEF Mirrored, NumeralsBy
    <3>2. NumeralsBy(c)'
      BY <1>0, <3>1 DEF NumeralsBy, Apart, Below
    <3> QED BY <1>0, <1>1, <2>0, <3>1, <3>2
  <2>4. CASE RestoreStored(c)
    <3> DEFINE head == Head(call[c].kept)
    <3>1. /\ Numbering(call[c].kept) /\ Apart(store, call[c].kept) /\ Below(store, call[c].place)
          /\ call[c].kept # <<>> /\ head.ordinal < call[c].place
          /\ call'[c].step = "refilling" /\ call'[c].kept = call[c].kept
          /\ store' = Append(store, head)
      BY <1>0, <2>4, Cutting DEF NumeralsBy
    <3>2. /\ Contents(call[c].kept) = {head} \cup Contents(Tail(call[c].kept))
          /\ \A x \in Contents(Tail(call[c].kept)) : x.ordinal # head.ordinal
      BY <1>0, <3>1, HeadAndTail
    <3>3. head \in Interaction /\ Contents(store') = Contents(store) \cup {head}
      BY <1>0, <3>1, <3>2, ContentsOf
    <3>4. Numbering(store')
      <4>1. ~Has(store, head.ordinal)
        BY <3>1, <3>2, HasContents DEF Apart
      <4> QED BY <1>0, <3>1, <3>3, <4>1, NumberingGrows
    <3>5. Apart(store', Tail(call[c].kept)) /\ Below(store', call[c].place)
      BY <3>1, <3>2, <3>3 DEF Apart, Below
    <3>6. NumeralsBy(c)'
      BY <2>0, <3>1, <3>3, <3>5 DEF NumeralsBy
    <3> QED BY <1>1, <2>0, <3>4, <3>6
  <2>5. CASE RestoreCached(c)
    <3>1. /\ Numbering(call[c].kept) /\ Apart(store, Tail(call[c].kept)) /\ Below(store, call[c].place)
          /\ call[c].kept # <<>> /\ call'[c].step = "restoring"
          /\ call'[c].kept = Tail(call[c].kept) /\ store' = store
      BY <1>0, <2>5, Cutting DEF NumeralsBy
    <3>2. Numbering(Tail(call[c].kept))
      BY <1>0, <3>1, HeadAndTail
    <3>3. NumeralsBy(c)'
      BY <2>0, <3>1, <3>2 DEF NumeralsBy
    <3> QED BY <1>0, <1>1, <2>0, <3>1, <3>3
  <2>6. CASE DropStale(c)
    <3>1. /\ Numbering(call[c].kept) /\ Apart(store, call[c].kept) /\ Below(store, call[c].place)
          /\ call[c].kept # <<>> /\ call'[c].step = "restoring"
          /\ call'[c].kept = Tail(call[c].kept) /\ store' = store
      BY <1>0, <2>6, Cutting DEF NumeralsBy
    <3>2. Numbering(Tail(call[c].kept)) /\ Contents(Tail(call[c].kept)) \subseteq Contents(call[c].kept)
      BY <1>0, <3>1, HeadAndTail
    <3>3. NumeralsBy(c)'
      BY <2>0, <3>1, <3>2 DEF NumeralsBy, Apart
    <3> QED BY <1>0, <1>1, <2>0, <3>1, <3>3
  <2>7. CASE Restored(c)
    <3>1. Below(store, call[c].place) /\ store' = store /\ call'[c].step = "performing"
      BY <1>0, <2>7, Cutting DEF NumeralsBy
    <3>2. ~Has(store, call[c].place)
      BY <1>0, <3>1, HasContents DEF Below
    <3>3. NumeralsBy(c)'
      BY <2>0, <3>1, <3>2 DEF NumeralsBy
    <3> QED BY <1>0, <1>1, <2>0, <3>1, <3>3
  <2> QED BY <1>6, <2>1, <2>2, <2>3, <2>4, <2>5, <2>6, <2>7 DEF Cuts
<1>7. ASSUME NEW c \in Callers, Perform(c) PROVE Numerals'
  <2>1. NumeralsBy(c)'
    BY <1>0, <1>7, Recording DEF NumeralsBy
  <2> QED BY <1>0, <1>1, <1>7, <2>1, Recording
<1>8. ASSUME NEW c \in Callers, RecordStored(c) PROVE Numerals'
  <2>1. /\ ~Has(store, call[c].place) /\ call[c].place = ordinal
        /\ store' = Append(store, NewInteraction(c)) /\ NewInteraction(c) \in Interaction
        /\ NewInteraction(c).ordinal = ordinal /\ call'[c].step = "taped"
        /\ mode' = mode /\ ordinal' = ordinal
    BY <1>0, <1>8, Recording DEF NumeralsBy, Placed, NewInteraction
  <2>2. Numbering(store')
    BY <1>0, <2>1, NumberingGrows
  <2>3. mode' = "record" => Below(store', ordinal' + 1)
    BY <1>0, <2>1, ContentsOf DEF Below
  <2>4. NumeralsBy(c)'
    BY <2>1 DEF NumeralsBy
  <2> QED BY <1>1, <2>2, <2>3, <2>4
<1>9. ASSUME NEW c \in Callers, Ends(c) PROVE Numerals'
  <2>1. call'[c].step = "idle" /\ store' = store /\ mode' = mode /\ ordinal' = ordinal
    BY <1>9, Ending DEF Idle
  <2>2. NumeralsBy(c)'
    BY <2>1 DEF NumeralsBy
  <2> QED BY <1>0, <1>1, <2>1, <2>2
<1>10. ASSUME (\E next \in {"open", "finished"} : Finish(next)) \/ Discard \/ Crash PROVE Numerals'
  <2>1. store' \in {<<>>, store} /\ mode' = mode /\ ordinal' = ordinal
    BY <1>10 DEF Finish, Discard, Crash, tapeVars
  <2>2. \A c \in Callers : call'[c].step = "idle"
    BY <1>10 DEF Finish, Discard, Crash, AllIdle, Idle
  <2> QED BY <1>0, <1>2, <2>1, <2>2 DEF Below
<1>11. ASSUME UNCHANGED vars PROVE Numerals'
  BY <1>11 DEF vars, recorderVars, tapeVars, Numerals
<1> QED BY <1>3, <1>4, <1>5, <1>6, <1>7, <1>8, <1>9, <1>10, <1>11, Sorted

-----------------------------------------------------------------------------
(* What a repair by one caller keeps and drops *)

\* What a caller will record has an ordinal of this run, and what is on the
\* tape was there when the run began or has an ordinal the run has used up.
Origin ==
    Repairing =>
        \A c \in Callers, x \in Contents(store) :
            \/ x \in Contents(prior)
            \/ x.ordinal < ordinal
            \/ x.ordinal = ordinal /\ call[c].step \in {"idle", "taped"}

\* A truncation begins at a recording that was there when the run began.
StaleHere ==
    Repairing => \A c \in Callers :
        call[c].step \in Rewinding => Has(prior, call[c].place)

\* No answer that waits to be recorded is on the tape of an earlier run.
OldPrior ==
    /\ \A x \in Contents(prior) : x.response \in DOMAIN live
    /\ \A c \in Callers : call[c].step = "answered" =>
          \A x \in Contents(prior) : x.response # call[c].reply

BeforeRepairs(x) == \A m \in RepairedPlaces : x.ordinal < m

\* A repair that failed halfway, at a place before the next, began at a recording too.
Halfway == {e \in log : e.source = "halfway"}

HalfDone ==
    Repairing => \A e \in Halfway : Has(prior, e.place) /\ e.place <= ordinal

\* Until it is restored, what precedes every repair is about to be, as long as
\* no repair of the run has failed halfway.
Heads ==
    Repairing /\ Halfway = {} => \A c \in Callers, x \in Contents(prior) : BeforeRepairs(x) =>
        /\ call[c].step = "resetting" => x \in Contents(call[c].kept)
        /\ call[c].step \in {"restoring", "refilling"} /\ x.ordinal < call[c].place =>
              x \in Contents(store) \cup Contents(call[c].kept)
        /\ call[c].step \notin {"resetting", "restoring", "refilling"} => x \in Contents(store)

\* What a repair drops is not kept by a later one either.
Tails ==
    Repairing => \A c \in Callers, x \in Contents(prior) : ~BeforeRepairs(x) =>
        /\ x \notin Contents(store)
        /\ call[c].step \in Rewinding \ {"keeping"} => x \notin Contents(call[c].kept)

\* One recording comes before another on the tape the run was opened on.
Earlier(x, y) == \E i, j \in DOMAIN prior : i < j /\ prior[i] = x /\ prior[j] = y

\* Wherever a tape has the second it has the first, before it.
InOrder(x, y, tape) ==
    \A k \in DOMAIN tape : tape[k] = y => \E l \in 1..(k - 1) : tape[l] = x

\* When the second is to be restored the first is back, or to be restored sooner.
InTurn(x, y, kept, tape) ==
    \A k \in DOMAIN kept : kept[k] = y =>
        x \in Contents(tape) \/ \E l \in 1..(k - 1) : kept[l] = x

\* Repairs keep the order of what precedes them.
InOrderBy(c, x, y) ==
    /\ call[c].step = "resetting" => InOrder(x, y, call[c].kept)
    /\ call[c].step \in {"restoring", "refilling"}
          /\ x.ordinal < call[c].place /\ y.ordinal < call[c].place =>
             InOrder(x, y, store) /\ InTurn(x, y, call[c].kept, store)
    /\ call[c].step \notin {"resetting", "restoring", "refilling"} => InOrder(x, y, store)

Order ==
    Repairing => \A c \in Callers, x, y \in Contents(prior) :
        Earlier(x, y) /\ BeforeRepairs(x) /\ BeforeRepairs(y) => InOrderBy(c, x, y)

RepairInv == Origin /\ StaleHere /\ HalfDone /\ OldPrior /\ Heads /\ Tails /\ Order

\* A run begins with the tape it finds.
LEMMA Begins ==
    ASSUME NEW m \in OpenModes, Open(m)
    PROVE  /\ prior' = store /\ log' = {} /\ ordinal' = 0 /\ call' = call /\ live' = live
           /\ \A c \in Callers : call[c].step = "idle"
           /\ mode' = "replay_or_record" => store' = store
BY DEF Open, AllIdle

\* The steps of a run that repairs, but for the one that opened it.
LEMMA RepairSteps ==
    ASSUME Inv, SoloInv, [Next]_vars, Repairing', ~(\E m \in OpenModes : Open(m))
    PROVE  /\ Repairing /\ prior' = prior
           /\ \/ \E c \in Callers, q \in Questions :
                    (AskOff(c, q) \/ Ask(c, q)) /\ call'[c].step = "deciding"
              \/ \E c \in Callers : ClaimMiss(c) \/ Extend(c) \/ Drift(c)
              \/ \E c \in Callers : Cuts(c)
              \/ \E c \in Callers : Perform(c) \/ RecordStored(c)
              \/ \E c \in Callers : Ends(c)
              \/ UNCHANGED <<store, call, log, ordinal, live>>
<1> USE DEF Inv
<1>1. ASSUME NEW c \in Callers, NEW q \in Questions, AskOff(c, q) \/ Ask(c, q)
      PROVE  Repairing /\ prior' = prior /\ call'[c].step = "deciding"
  BY <1>1, Asking DEF Repairing
<1>2. ASSUME NEW c \in Callers, ClaimMiss(c) \/ Extend(c) \/ Drift(c) PROVE Repairing /\ prior' = prior
  BY <1>2, Looking DEF Repairing
<1>3. ASSUME NEW c \in Callers, Cuts(c) PROVE Repairing /\ prior' = prior
  BY <1>3, CutsKeep DEF Repairing
<1>4. ASSUME NEW c \in Callers, Perform(c) \/ RecordStored(c) PROVE Repairing /\ prior' = prior
  BY <1>4, Recording DEF Repairing
<1>5. ASSUME NEW c \in Callers, Ends(c) PROVE Repairing /\ prior' = prior
  BY <1>5, Ending DEF Repairing
<1>6. ASSUME (\E next \in {"open", "finished"} : Finish(next)) \/ UNCHANGED vars
      PROVE  Repairing /\ prior' = prior /\ UNCHANGED <<store, call, log, ordinal, live>>
  BY <1>6 DEF Finish, vars, recorderVars, tapeVars, historyVars, Repairing
<1>7. ~Discard /\ ~Crash
  BY DEF Discard, Crash, Repairing
<1> QED BY <1>1, <1>2, <1>3, <1>4, <1>5, <1>6, <1>7, Sorted

\* What a run adds to its tape has an ordinal the run has given out.
LEMMA OriginStep ==
    ASSUME OneCaller, Inv, SoloInv, Origin, [Next]_vars
    PROVE  Origin'
<1> USE DEF Inv, SoloInv
<1> SUFFICES ASSUME Repairing' PROVE Origin'
  BY DEF Origin
<1>1. ASSUME NEW m \in OpenModes, Open(m) PROVE Origin'
  BY <1>1, Begins DEF Origin, Repairing
<1>2. ASSUME ~(\E m \in OpenModes : Open(m)) PROVE Origin'
  <2>0. /\ Repairing /\ prior' = prior /\ store \in Seq(Interaction) /\ ordinal \in Nat
        /\ \A x \in Contents(store) : x.ordinal \in Nat
    <3>1. \A i \in DOMAIN store : store[i] \in Interaction
      BY DEF TypeOK
    <3> QED BY <1>2, <3>1, RepairSteps DEF TypeOK, Contents, Interaction
  <2>1. ASSUME NEW c \in Callers,
               \A x \in Contents(store') :
                   \/ x \in Contents(prior)
                   \/ x.ordinal < ordinal'
                   \/ x.ordinal = ordinal' /\ call'[c].step \in {"idle", "taped"}
        PROVE  Origin'
    BY <2>0, <2>1 DEF OneCaller, Origin
  <2>2. ASSUME NEW c \in Callers, NEW q \in Questions, AskOff(c, q) \/ Ask(c, q),
               call'[c].step = "deciding"
        PROVE  Origin'
    BY <2>0, <2>1, <2>2, Asking DEF Origin
  <2>3. ASSUME NEW c \in Callers, ClaimMiss(c) \/ Extend(c) \/ Drift(c) PROVE Origin'
    BY <2>0, <2>1, <2>3, Looking DEF Origin
  <2>4. ASSUME NEW c \in Callers, Cuts(c) PROVE Origin'
    <3>1. /\ ordinal' = ordinal /\ call[c].step \notin {"idle", "taped"}
          /\ call[c].place = ordinal
      BY <2>4, CutsKeep DEF Rewinding, Placed
    <3>2. CASE RestoreStored(c)
      <4>1. /\ store' = Append(store, Head(call[c].kept)) /\ call[c].kept # <<>>
            /\ Head(call[c].kept).ordinal < ordinal
        BY <3>1, <3>2, Cutting
      <4>2. Contents(store') = Contents(store) \cup {Head(call[c].kept)}
        BY <2>0, <4>1, ContentsOf DEF TypeOK, CallState
      <4> QED BY <2>0, <2>1, <3>1, <4>1, <4>2 DEF Origin
    <3>3. CASE ~RestoreStored(c)
      <4>1. store' \in {<<>>, store}
        BY <2>4, <3>3, Cutting DEF Cuts
      <4> QED BY <2>0, <2>1, <3>1, <4>1 DEF Origin, Contents
    <3> QED BY <3>2, <3>3
  <2>5. ASSUME NEW c \in Callers, Perform(c) PROVE Origin'
    BY <2>0, <2>1, <2>5, Recording DEF Origin
  <2>6. ASSUME NEW c \in Callers, RecordStored(c) PROVE Origin'
    <3>1. /\ Contents(store') = Contents(store) \cup {NewInteraction(c)}
          /\ NewInteraction(c).ordinal = ordinal
          /\ call[c].step = "answered" /\ call'[c].step = "taped" /\ ordinal' = ordinal
      <4>1. /\ call[c].step = "answered" /\ call'[c].step = "taped" /\ ordinal' = ordinal
            /\ NewInteraction(c) \in Interaction /\ store' = Append(store, NewInteraction(c))
        BY <2>6, Recording
      <4>2. NewInteraction(c).ordinal = ordinal
        BY <4>1 DEF Placed, NewInteraction
      <4> QED BY <2>0, <4>1, <4>2, ContentsOf
    <3> QED BY <2>0, <2>1, <3>1 DEF Origin
  <2>7. ASSUME NEW c \in Callers, Ends(c) PROVE Origin'
    BY <2>0, <2>1, <2>7, Ending DEF Origin, Idle
  <2>8. ASSUME UNCHANGED <<store, call, log, ordinal, live>> PROVE Origin'
    BY <2>0, <2>8 DEF Origin
  <2> QED BY <1>2, <2>2, <2>3, <2>4, <2>5, <2>6, <2>7, <2>8, RepairSteps
<1> QED BY <1>1, <1>2

\* A caller takes to truncating only when the tape has its ordinal, which the
\* run itself has not used yet.
LEMMA StaleStep ==
    ASSUME OneCaller, Inv, SoloInv, Origin, StaleHere, [Next]_vars
    PROVE  StaleHere'
<1> USE DEF Inv, SoloInv
<1>0. {"idle", "passing", "deciding", "missed", "performing", "answered", "taped"} \cap Rewinding = {}
  BY DEF Rewinding
<1> SUFFICES ASSUME Repairing' PROVE StaleHere'
  BY DEF StaleHere
<1>1. ASSUME NEW m \in OpenModes, Open(m) PROVE StaleHere'
  BY <1>0, <1>1, Begins DEF StaleHere
<1>2. ASSUME ~(\E m \in OpenModes : Open(m)) PROVE StaleHere'
  <2>0. Repairing /\ prior' = prior
    BY <1>2, RepairSteps
  <2>1. ASSUME NEW c \in Callers, call'[c].step \in Rewinding => Has(prior, call'[c].place)
        PROVE  StaleHere'
    BY <2>0, <2>1 DEF OneCaller, StaleHere
  <2>2. ASSUME NEW c \in Callers, call'[c].step \notin Rewinding PROVE StaleHere'
    BY <2>1, <2>2
  <2>3. ASSUME NEW c \in Callers, Drift(c) PROVE StaleHere'
    <3>1. /\ call'[c].place = call[c].place /\ call[c].place = ordinal
          /\ call[c].step = "missed" /\ Has(store, ordinal) /\ ordinal \in Nat
      BY <2>3 DEF Drift, Mirrored, Load, Placed, Goto, TypeOK, CallState
    <3>2. PICK x \in Contents(store) : x.ordinal = ordinal
      BY <3>1, HasContents
    <3>3. x \in Contents(prior)
      BY <2>0, <3>1, <3>2 DEF Origin
    <3> QED BY <2>1, <3>1, <3>2, <3>3, HasContents
  <2>4. ASSUME NEW c \in Callers, Cuts(c) PROVE StaleHere'
    BY <2>0, <2>1, <2>4, CutsKeep DEF StaleHere
  <2>5. ASSUME NEW c \in Callers,
               \/ call'[c].step = "deciding" \/ ClaimMiss(c) \/ Extend(c)
               \/ Perform(c) \/ RecordStored(c) \/ Ends(c)
        PROVE  StaleHere'
    <3>1. ~Drift(c) \/ call'[c].step = "deciding"
      <4>1. Drift(c) => call[c].step = "missed" /\ call'[c].step = "keeping"
        BY Moved DEF Drift, Steps, Rewinding
      <4> QED BY <2>5, <4>1, Looking, Recording, Ending DEF Idle, Extend, ClaimMiss
    <3> QED BY <1>0, <2>2, <2>5, <3>1, Looking, Recording, Ending DEF Idle
  <2>6. ASSUME UNCHANGED <<store, call, log, ordinal, live>> PROVE StaleHere'
    BY <2>0, <2>6 DEF StaleHere
  <2> QED BY <1>2, <2>3, <2>4, <2>5, <2>6, RepairSteps
<1> QED BY <1>1, <1>2

\* A live answer is newer than every tape an earlier run has left.
LEMMA OldPriorStep ==
    ASSUME OneCaller, Inv, AnswersGenuine, OldPrior, [Next]_vars
    PROVE  OldPrior'
<1> USE DEF Inv
<1>0. live \in Seq(Questions)
  BY DEF TypeOK
<1>1. ASSUME NEW m \in OpenModes, Open(m) PROVE OldPrior'
  <2>1. \A x \in Contents(store) : x.response \in DOMAIN live
    BY DEF AnswersGenuine, AnswersIn, GenuineTape, Genuine, Contents
  <2> QED BY <1>1, <2>1, Begins DEF OldPrior
<1>2. ASSUME NEW c \in Callers, UNCHANGED <<prior, live>>, call'[c].step # "answered" PROVE OldPrior'
  BY <1>2 DEF OneCaller, OldPrior
<1>3. ASSUME NEW c \in Callers, NEW q \in Questions, AskOff(c, q) \/ Ask(c, q) PROVE OldPrior'
  BY <1>2, <1>3, Asking
<1>4. ASSUME NEW c \in Callers, ClaimMiss(c) \/ Extend(c) \/ Drift(c) PROVE OldPrior'
  BY <1>2, <1>4, Looking
<1>5. ASSUME NEW c \in Callers, Cuts(c) PROVE OldPrior'
  BY <1>2, <1>5, CutsKeep DEF Rewinding
<1>6. ASSUME NEW c \in Callers, Perform(c) PROVE OldPrior'
  <2>1. /\ call'[c].reply = Len(live) + 1 /\ prior' = prior
        /\ \E q \in Questions : live' = Append(live, q)
    BY <1>6, Recording
  <2>2. DOMAIN live \subseteq DOMAIN live' /\ Len(live) + 1 \notin DOMAIN live
    BY <1>0, <2>1
  <2> QED BY <2>1, <2>2 DEF OneCaller, OldPrior
<1>7. ASSUME NEW c \in Callers, RecordStored(c) PROVE OldPrior'
  BY <1>2, <1>7, Recording
<1>8. ASSUME NEW c \in Callers, Ends(c) PROVE OldPrior'
  <2>1. prior' = prior /\ call'[c].step = "idle"
    BY <1>8, Ending DEF Idle
  <2>2. DOMAIN live \subseteq DOMAIN live'
    <3>1. live' = live \/ (Pass(c) /\ live' = Append(live, call[c].question))
      BY <1>8 DEF Ends, ClaimHit, RefuseDrift, RefuseMiss, Pass, RecordCounted, Fails,
         DriftRaises, DeleteFails, RestoreFails, PerformFails, RecordFails
    <3>2. Pass(c) => call[c].question \in Questions
      BY DEF Pass, CallsFit, CallFits
    <3> QED BY <1>0, <3>1, <3>2
  <2> QED BY <2>1, <2>2 DEF OneCaller, OldPrior
<1>9. ASSUME \/ \E next \in {"open", "finished"} : Finish(next)
             \/ Discard \/ Crash \/ UNCHANGED vars
      PROVE  OldPrior'
  <2>1. UNCHANGED <<prior, live>> /\ (call' = call \/ \A c \in Callers : call'[c].step = "idle")
    BY <1>9 DEF Finish, Discard, Crash, Idle, vars, historyVars
  <2> QED BY <2>1 DEF OldPrior
<1> QED BY <1>1, <1>3, <1>4, <1>5, <1>6, <1>7, <1>8, <1>9, Sorted

\* A repair that failed halfway leaves its place, where the tape had a recording.
LEMMA HalfDoneStep ==
    ASSUME OneCaller, Inv, SoloInv, StaleHere, HalfDone, [Next]_vars
    PROVE  HalfDone'
<1> USE DEF Inv, SoloInv
<1> SUFFICES ASSUME Repairing' PROVE HalfDone'
  BY DEF HalfDone
<1>1. ASSUME NEW m \in OpenModes, Open(m) PROVE HalfDone'
  BY <1>1, Begins DEF HalfDone, Halfway
<1>2. ASSUME ~(\E m \in OpenModes : Open(m)) PROVE HalfDone'
  <2>0. /\ Repairing /\ prior' = prior /\ ordinal \in Nat
        /\ \A e \in Halfway : e.place \in Nat
    BY <1>2, RepairSteps DEF TypeOK, Halfway
  <2>1. ASSUME log' = log, ordinal' \in {ordinal, ordinal + 1} PROVE HalfDone'
    BY <2>0, <2>1 DEF HalfDone, Halfway
  <2>2. ASSUME NEW c \in Callers, NEW q \in Questions, AskOff(c, q) \/ Ask(c, q) PROVE HalfDone'
    BY <2>1, <2>2, Asking
  <2>3. ASSUME NEW c \in Callers, ClaimMiss(c) \/ Extend(c) \/ Drift(c) PROVE HalfDone'
    BY <2>1, <2>3, Looking
  <2>4. ASSUME NEW c \in Callers, Cuts(c) PROVE HalfDone'
    BY <2>1, <2>4, CutsKeep
  <2>5. ASSUME NEW c \in Callers, Perform(c) \/ RecordStored(c) PROVE HalfDone'
    BY <2>1, <2>5, Recording
  <2>6. ASSUME NEW c \in Callers, RestoreFails(c) PROVE HalfDone'
    <3>1. /\ Halfway' \subseteq Halfway \cup {[place |-> call[c].place,
                 question |-> call[c].question, response |-> 0, source |-> "halfway"]}
          /\ ordinal' = ordinal
      BY <2>6 DEF RestoreFails, Return, recorderVars, Halfway
    <3>2. Has(prior, call[c].place) /\ call[c].place = ordinal
      BY <2>0, <2>6 DEF RestoreFails, StaleHere, Rewinding, Placed
    <3> QED BY <2>0, <3>1, <3>2 DEF HalfDone
  <2>7. ASSUME NEW c \in Callers, Ends(c), ~RestoreFails(c) PROVE HalfDone'
    <3>1. \E source \in Sources \ {"halfway"} : \E response : Return(c, response, source)
      BY <2>7 DEF Ends, ClaimHit, RefuseDrift, RefuseMiss, Pass, RecordCounted, Fails,
         DriftRaises, DeleteFails, PerformFails, RecordFails, Sources
    <3>2. Halfway' = Halfway
      BY <3>1 DEF Return, Halfway
    <3> QED BY <2>0, <2>7, <3>2, Ending DEF HalfDone
  <2>8. ASSUME UNCHANGED <<store, call, log, ordinal, live>> PROVE HalfDone'
    BY <2>1, <2>8
  <2> QED BY <1>2, <2>2, <2>3, <2>4, <2>5, <2>6, <2>7, <2>8, RepairSteps
<1> QED BY <1>1, <1>2

\* Where the run was answered, or tried to be, with a recording there before.
DriftedAt(m) ==
    \E e \in log : /\ e.source \in {"live", "failed", "halfway"}
                   /\ e.place = m /\ Has(prior, m)

AskingAt(c, m) ==
    /\ call[c].step \in {"performing", "answered", "taped"}
    /\ call[c].place = m /\ Has(prior, m)

\* The places one caller has repaired: those it has done with, and its own.
LEMMA PlacesOf ==
    ASSUME OneCaller, NEW c \in Callers, NEW m
    PROVE  /\ m \in RepairedPlaces <=> DriftedAt(m) \/ AskingAt(c, m)
           /\ m \in RepairedPlaces' <=> DriftedAt(m)' \/ AskingAt(c, m)'
<1> DEFINE here == {call[d].place : d \in {b \in Callers :
                       /\ call[b].step \in {"performing", "answered", "taped"}
                       /\ Has(prior, call[b].place)}}
<1>1. /\ m \in DriftPlaces <=> DriftedAt(m)
      /\ m \in DriftPlaces' <=> DriftedAt(m)'
  BY DEF DriftPlaces, DriftedAt
<1>2. /\ m \in here <=> AskingAt(c, m)
      /\ m \in here' <=> AskingAt(c, m)'
  BY DEF OneCaller, AskingAt
<1>3. RepairedPlaces = DriftPlaces \cup here /\ RepairedPlaces' = DriftPlaces' \cup here'
  BY DEF RepairedPlaces
<1> QED BY <1>1, <1>2, <1>3

\* A place joins them when the caller goes to the model in spite of what the
\* tape had there, or fails on the way, and stays, however the call ends.
Joins(c) == Extend(c) \/ Restored(c) \/ RestoreFails(c)

LEMMA Joining ==
    ASSUME Inv, NEW c \in Callers, Joins(c)
    PROVE  /\ call[c].step \in {"missed", "restoring"}
           /\ Extend(c) \/ Restored(c) =>
                 /\ call'[c].step = "performing" /\ log' = log
                 /\ call'[c].place = call[c].place
           /\ RestoreFails(c) => call'[c].step = "idle" /\ call[c].step = "restoring"
<1> USE DEF Inv
<1>1. ASSUME Extend(c) \/ Restored(c)
      PROVE  /\ call[c].step \in {"missed", "restoring"} /\ log' = log
             /\ call'[c].step = "performing" /\ call'[c].place = call[c].place
  BY <1>1, Moved DEF Extend, Restored, Steps, historyVars
<1>2. RestoreFails(c) => call'[c].step = "idle" /\ call[c].step = "restoring"
  BY Returned DEF RestoreFails, Idle
<1> QED BY <1>1, <1>2 DEF Joins

LEMMA PlacesGrow ==
    ASSUME OneCaller, Inv, SoloInv, [Next]_vars, Repairing', ~(\E m \in OpenModes : Open(m)),
           NEW c \in Callers, NEW m
    PROVE  m \in RepairedPlaces' <=>
              \/ m \in RepairedPlaces
              \/ Joins(c) /\ Has(prior, m) /\ m = call[c].place
<1> USE DEF Inv, SoloInv
<1> DEFINE P == {"performing", "answered", "taped"}
           goal == m \in RepairedPlaces' <=>
                      \/ m \in RepairedPlaces
                      \/ Joins(c) /\ Has(prior, m) /\ m = call[c].place
<1>0. /\ Repairing /\ prior' = prior
      /\ m \in RepairedPlaces <=> DriftedAt(m) \/ AskingAt(c, m)
      /\ m \in RepairedPlaces' <=> DriftedAt(m)' \/ AskingAt(c, m)'
      /\ log' = log => (DriftedAt(m)' <=> DriftedAt(m))
      /\ P \cap Rewinding = {} /\ \A d \in Callers : d = c
  BY RepairSteps, PlacesOf DEF DriftedAt, Rewinding, OneCaller
\* A step of the caller that goes neither to the model nor back to the test.
<1>1. ASSUME log' = log, call[c].step \notin P, call'[c].step \notin P \cup {"idle"} PROVE goal
  <2>1. ~Joins(c)
    BY <1>1, Joining DEF Joins
  <2> QED BY <1>0, <1>1, <2>1 DEF AskingAt
\* A step that goes on with the live call.
<1>2. ASSUME log' = log, call[c].step \in P, call'[c].step \in P, call'[c].place = call[c].place
      PROVE  goal
  <2>1. ~Joins(c)
    BY <1>2, Joining DEF Joins
  <2> QED BY <1>0, <1>2, <2>1 DEF AskingAt
<1>3. ASSUME NEW q \in Questions, AskOff(c, q) \/ Ask(c, q), call'[c].step = "deciding" PROVE goal
  BY <1>1, <1>3, Asking
<1>4. ASSUME ClaimMiss(c) \/ Drift(c), ~Extend(c) PROVE goal
  BY <1>1, <1>4, Looking
<1>5. ASSUME Cuts(c), ~Restored(c) PROVE goal
  <2>1. call'[c].step \notin P \cup {"idle"}
    BY <1>5, Cutting DEF Cuts
  <2> QED BY <1>0, <1>1, <1>5, <2>1, CutsKeep
<1>6. ASSUME Extend(c) \/ Restored(c) PROVE goal
  <2>1. /\ Joins(c) /\ log' = log /\ call[c].step \notin P
        /\ call'[c].step = "performing" /\ call'[c].place = call[c].place
    BY <1>6, Moved DEF Joins, Extend, Restored, Steps, historyVars
  <2> QED BY <1>0, <2>1 DEF AskingAt
<1>7. ASSUME Perform(c) \/ RecordStored(c) PROVE goal
  BY <1>2, <1>7, Recording
<1>8. ASSUME Ends(c) PROVE goal
  <2>1. call'[c].step = "idle" /\ call[c].step # "passing" /\ (Joins(c) <=> RestoreFails(c))
    <3>1. call[c].step # "passing"
      BY <1>0 DEF Placed, Repairing
    <3>2. call'[c].step = "idle"
      BY <1>8, Ending DEF Idle
    <3> QED BY <3>1, <3>2, Joining DEF Joins
  <2>2. PICK response, source :
           /\ Return(c, response, source)
           /\ source \in {"live", "failed", "halfway"} <=> call[c].step \in P \/ RestoreFails(c)
    <3>1. ~RefuseDrift(c) /\ ~RefuseMiss(c) /\ ~Pass(c)
      BY <1>0, <2>1 DEF RefuseDrift, RefuseMiss, Pass, Strict, Repairing
    <3>2. ClaimHit(c) => call[c].step = "deciding" /\ \E r : Return(c, r, "tape")
      BY DEF ClaimHit
    <3>3. RecordCounted(c) => call[c].step = "taped" /\ \E r : Return(c, r, "live")
      BY DEF RecordCounted
    <3>4. PerformFails(c) \/ RecordFails(c) =>
             call[c].step \in P \cup {"passing"} /\ \E r : Return(c, r, "failed")
      BY DEF PerformFails, RecordFails
    <3>5. DriftRaises(c) \/ DeleteFails(c) =>
             call[c].step \in {"missed", "deleting"} /\ \E r : Return(c, r, "unrepaired")
      BY DEF DriftRaises, DeleteFails
    <3>6. RestoreFails(c) => call[c].step = "restoring" /\ \E r : Return(c, r, "halfway")
      BY DEF RestoreFails
    <3> QED BY <1>8, <2>1, <3>1, <3>2, <3>3, <3>4, <3>5, <3>6 DEF Ends, Fails
  <2>3. log' = log \cup {[place |-> call[c].place, question |-> call[c].question,
                          response |-> response, source |-> source]}
    BY <2>2, Returned
  <2>4. DriftedAt(m)' <=>
           \/ DriftedAt(m)
           \/ source \in {"live", "failed", "halfway"} /\ call[c].place = m /\ Has(prior, m)
    <3> DEFINE entry == [place |-> call[c].place, question |-> call[c].question,
                         response |-> response, source |-> source]
    <3>1. entry.source = source /\ entry.place = call[c].place /\ log' = log \cup {entry}
      BY <2>3
    <3> HIDE DEF entry
    <3>2. DriftedAt(m)' <=> \E e \in log' : /\ e.source \in {"live", "failed", "halfway"}
                                            /\ e.place = m /\ Has(prior, m)
      BY <1>0 DEF DriftedAt
    <3> QED BY <3>1, <3>2 DEF DriftedAt
  <2>5. RestoreFails(c) => call[c].step \notin P
    BY DEF RestoreFails
  <2> QED BY <1>0, <2>1, <2>2, <2>4, <2>5 DEF AskingAt
<1>9. ASSUME UNCHANGED <<store, call, log, ordinal, live>> PROVE goal
  <2>1. ~Joins(c)
    BY <1>9, Joining DEF Joins
  <2>2. AskingAt(c, m)' <=> AskingAt(c, m)
    BY <1>0, <1>9 DEF AskingAt
  <2> QED BY <1>0, <1>9, <2>1, <2>2
<1> HIDE DEF goal
<1>10. goal
  <2>1. \/ \E q \in Questions : (AskOff(c, q) \/ Ask(c, q)) /\ call'[c].step = "deciding"
        \/ ClaimMiss(c) \/ Extend(c) \/ Drift(c) \/ Cuts(c)
        \/ Perform(c) \/ RecordStored(c) \/ Ends(c)
        \/ UNCHANGED <<store, call, log, ordinal, live>>
    BY <1>0, RepairSteps
  <2> QED BY <1>3, <1>4, <1>5, <1>6, <1>7, <1>8, <1>9, <2>1
<1> QED BY <1>10 DEF goal

\* The places are numbers, so that they compare with ordinals.
LEMMA PlacesTyped ==
    ASSUME TypeOK
    PROVE  RepairedPlaces \subseteq Nat
BY DEF TypeOK, CallState, RepairedPlaces, DriftPlaces

\* The part of Heads about one interaction.
HeadBy(c, x) ==
    /\ call[c].step = "resetting" => x \in Contents(call[c].kept)
    /\ call[c].step \in {"restoring", "refilling"} /\ x.ordinal < call[c].place =>
          x \in Contents(store) \cup Contents(call[c].kept)
    /\ call[c].step \notin {"resetting", "restoring", "refilling"} => x \in Contents(store)

\* A truncation brings back all it took from before the call's place.
LEMMA HeadsStep ==
    ASSUME OneCaller, Inv, SoloInv, StaleHere, Heads, [Next]_vars
    PROVE  Heads'
<1> USE DEF Inv, SoloInv
<1> SUFFICES ASSUME Repairing', Halfway' = {} PROVE Heads'
  BY DEF Heads
<1>1. ASSUME NEW m \in OpenModes, Open(m) PROVE Heads'
  BY <1>1, Begins DEF Heads, Repairing
<1>2. ASSUME ~(\E m \in OpenModes : Open(m)) PROVE Heads'
  <2>0. /\ Repairing /\ prior' = prior /\ store \in Seq(Interaction)
        /\ \A c \in Callers : call[c].kept \in Seq(Interaction)
        /\ Halfway = {}
    <3>1. log \subseteq log'
      <4>1. ASSUME NEW c \in Callers, Ends(c) PROVE log \subseteq log'
        BY <4>1 DEF Ends, ClaimHit, RefuseDrift, RefuseMiss, Pass, RecordCounted, Fails,
           DriftRaises, DeleteFails, RestoreFails, PerformFails, RecordFails, Return
      <4> QED BY <1>2, <4>1, RepairSteps, Asking, Looking, CutsKeep, Recording
    <3>2. Halfway = {}
      BY <3>1 DEF Halfway
    <3> QED BY <1>2, <3>2, RepairSteps DEF TypeOK, CallState
  <2> SUFFICES ASSUME NEW c \in Callers, NEW x \in Contents(prior), BeforeRepairs(x)'
               PROVE  HeadBy(c, x)'
    BY <2>0 DEF Heads, HeadBy
  <2>1. /\ BeforeRepairs(x)
        /\ Joins(c) /\ Has(prior, call[c].place) => x.ordinal < call[c].place
    BY <1>2, PlacesGrow DEF BeforeRepairs
  <2>2. HeadBy(c, x)
    BY <2>0, <2>1 DEF Heads, HeadBy
  <2>3. ASSUME NEW q \in Questions, AskOff(c, q) \/ Ask(c, q), call'[c].step = "deciding"
        PROVE  HeadBy(c, x)'
    BY <2>2, <2>3, Asking DEF HeadBy
  <2>4. ASSUME ClaimMiss(c) \/ Extend(c) \/ Drift(c) PROVE HeadBy(c, x)'
    BY <2>2, <2>4, Looking DEF HeadBy
  <2>5. ASSUME Keep(c) PROVE HeadBy(c, x)'
    BY <2>2, <2>5, Cutting DEF HeadBy
  <2>6. ASSUME Delete(c) PROVE HeadBy(c, x)'
    BY <2>2, <2>6, Cutting DEF HeadBy, Mirrored
  <2>7. ASSUME Reset(c) PROVE HeadBy(c, x)'
    BY <2>2, <2>7, Cutting DEF HeadBy
  <2>8. ASSUME RestoreStored(c) PROVE HeadBy(c, x)'
    <3>1. /\ store' = Append(store, Head(call[c].kept)) /\ call[c].kept # <<>>
          /\ call'[c].step = "refilling" /\ call'[c].kept = call[c].kept
          /\ call[c].step = "restoring" /\ call'[c].place = call[c].place
      BY <2>8, Cutting, CutsKeep DEF Cuts
    <3>2. Contents(store) \subseteq Contents(store')
      BY <2>0, <3>1, HeadAndTail, ContentsOf
    <3> QED BY <2>2, <3>1, <3>2 DEF HeadBy
  <2>9. ASSUME RestoreCached(c) PROVE HeadBy(c, x)'
    <3>1. /\ store' = store /\ call[c].kept # <<>>
          /\ call'[c].step = "restoring" /\ call'[c].kept = Tail(call[c].kept)
          /\ call[c].step = "refilling" /\ call'[c].place = call[c].place
      BY <2>9, Cutting, CutsKeep DEF Cuts
    <3>2. /\ Contents(call[c].kept) = {Head(call[c].kept)} \cup Contents(Tail(call[c].kept))
          /\ Head(call[c].kept) \in Contents(store)
      BY <2>0, <3>1, HeadAndTail DEF Numerals
    <3> QED BY <2>2, <3>1, <3>2 DEF HeadBy
  <2>10. ASSUME DropStale(c) PROVE HeadBy(c, x)'
    <3>1. /\ store' = store /\ call[c].kept # <<>> /\ ~(Head(call[c].kept).ordinal < call[c].place)
          /\ call'[c].step = "restoring" /\ call'[c].kept = Tail(call[c].kept)
          /\ call[c].step = "restoring" /\ call'[c].place = call[c].place
      BY <2>10, Cutting, CutsKeep DEF Cuts
    <3>2. Contents(call[c].kept) = {Head(call[c].kept)} \cup Contents(Tail(call[c].kept))
      BY <2>0, <3>1, HeadAndTail
    <3> QED BY <2>2, <3>1, <3>2 DEF HeadBy
  <2>11. ASSUME Restored(c) PROVE HeadBy(c, x)'
    <3>1. /\ store' = store /\ call[c].kept = <<>>
          /\ call[c].step = "restoring" /\ call'[c].step = "performing"
      BY <2>11, Cutting
    <3>2. x.ordinal < call[c].place
      BY <2>0, <2>1, <2>11, <3>1 DEF StaleHere, Rewinding, Joins
    <3> QED BY <2>2, <3>1, <3>2 DEF HeadBy, Contents
  <2>12. ASSUME Perform(c) PROVE HeadBy(c, x)'
    BY <2>2, <2>12, Recording DEF HeadBy
  <2>13. ASSUME RecordStored(c) PROVE HeadBy(c, x)'
    <3>1. /\ NewInteraction(c) \in Interaction /\ store' = Append(store, NewInteraction(c))
          /\ call[c].step = "answered" /\ call'[c].step = "taped"
      BY <2>13, Recording
    <3>2. Contents(store) \subseteq Contents(store')
      BY <2>0, <3>1, ContentsOf
    <3> QED BY <2>2, <3>1, <3>2 DEF HeadBy
  <2>14. ASSUME Ends(c) PROVE HeadBy(c, x)'
    <3>1. ~RestoreFails(c)
      <4>1. RestoreFails(c) => \E e \in log' : e.source = "halfway"
        <5> DEFINE entry == [place |-> call[c].place, question |-> call[c].question,
                             response |-> 0, source |-> "halfway"]
        <5>1. RestoreFails(c) => entry \in log'
          BY DEF RestoreFails, Return
        <5> QED BY <5>1
      <4> QED BY <4>1 DEF Halfway
    <3> QED BY <2>2, <2>14, <3>1, Ending DEF HeadBy, Idle
  <2>15. ASSUME UNCHANGED <<store, call, log, ordinal, live>> PROVE HeadBy(c, x)'
    BY <2>2, <2>15 DEF HeadBy
  <2>16. \A d \in Callers : d = c
    BY DEF OneCaller
  <2> QED BY <1>2, <2>3, <2>4, <2>5, <2>6, <2>7, <2>8, <2>9, <2>10, <2>11, <2>12, <2>13, <2>14,
             <2>15, <2>16, RepairSteps DEF Cuts
<1> QED BY <1>1, <1>2

\* The part of Tails about one interaction.
TailBy(c, x) ==
    /\ x \notin Contents(store)
    /\ call[c].step \in Rewinding \ {"keeping"} => x \notin Contents(call[c].kept)

\* What a truncation has dropped, no later step of the run brings back.
LEMMA TailsStep ==
    ASSUME OneCaller, Inv, SoloInv, RepairInv, [Next]_vars
    PROVE  Tails'
<1> USE DEF Inv, SoloInv, RepairInv
<1> SUFFICES ASSUME Repairing' PROVE Tails'
  BY DEF Tails
<1>1. ASSUME NEW m \in OpenModes, Open(m) PROVE Tails'
  <2>1. RepairedPlaces' = {}
    BY <1>1, Begins DEF RepairedPlaces, DriftPlaces
  <2> QED BY <2>1 DEF Tails, BeforeRepairs
<1>2. ASSUME ~(\E m \in OpenModes : Open(m)) PROVE Tails'
  <2>0. /\ Repairing /\ prior' = prior /\ store \in Seq(Interaction)
        /\ \A y \in Contents(prior) : y.ordinal \in Nat
        /\ \A d \in Callers : call[d].kept \in Seq(Interaction) /\ call[d].place \in Nat
    <3>1. \A i \in DOMAIN prior : prior[i] \in Interaction
      BY DEF TypeOK
    <3> QED BY <1>2, <3>1, RepairSteps DEF TypeOK, CallState, Contents, Interaction
  <2> SUFFICES ASSUME NEW c \in Callers, NEW x \in Contents(prior), ~BeforeRepairs(x)'
               PROVE  TailBy(c, x)'
    BY <2>0 DEF Tails, TailBy
  <2>1. ASSUME ~Joins(c) PROVE TailBy(c, x)
    <3>1. ~BeforeRepairs(x)
      BY <1>2, <2>1, PlacesGrow DEF BeforeRepairs
    <3> QED BY <2>0, <3>1 DEF Tails, TailBy
  <2>2. ASSUME Joins(c), BeforeRepairs(x)
        PROVE  Has(prior, call[c].place) /\ ~(x.ordinal < call[c].place)
    BY <1>2, <2>2, PlacesGrow DEF BeforeRepairs
  <2>3. BeforeRepairs(x) \/ TailBy(c, x)
    BY <2>0 DEF Tails, TailBy
  <2>4. ASSUME NEW q \in Questions, AskOff(c, q) \/ Ask(c, q), call'[c].step = "deciding"
        PROVE  TailBy(c, x)'
    <3>1. ~Joins(c)
      BY <2>4, Asking, Joining
    <3> QED BY <2>1, <2>4, <3>1, Asking DEF TailBy, Rewinding
  <2>5. ASSUME Extend(c) PROVE TailBy(c, x)'
    <3>1. store' = store /\ call'[c].step \notin Rewinding \ {"keeping"} /\ call[c].step = "missed"
      BY <2>5, Looking DEF Extend, Rewinding
    <3>2. x \notin Contents(store)
      <4>1. CASE TailBy(c, x)
        BY <4>1 DEF TailBy
      <4>2. CASE BeforeRepairs(x) /\ Halfway = {}
        <5>1. PICK y \in Contents(prior) : y.ordinal = call[c].place
          BY <2>2, <2>5, <4>2, HasContents DEF Joins
        <5>2. Load = store
          BY <3>1 DEF Mirrored, Placed, Load
        <5>3. y \notin Contents(store)
          BY <2>5, <5>1, <5>2, HasContents DEF Extend
        <5>4. ~BeforeRepairs(y)
          BY <2>0, <3>1, <4>2, <5>3 DEF Heads
        <5>5. PICK m \in RepairedPlaces : ~(y.ordinal < m)
          BY <5>4 DEF BeforeRepairs
        <5>6. m \in Nat
          BY PlacesTyped
        <5>7. ~(x.ordinal < m)
          BY <2>0, <2>2, <2>5, <4>2, <5>1, <5>5, <5>6 DEF Joins
        <5> QED BY <4>2, <5>7 DEF BeforeRepairs
      <4>3. CASE BeforeRepairs(x) /\ Halfway # {}
        <5>1. PICK e \in Halfway : Has(prior, e.place) /\ e.place <= ordinal /\ e.place \in Nat
          BY <2>0, <4>3 DEF HalfDone, TypeOK, Halfway
        <5>2. e.place \in RepairedPlaces
          BY <5>1 DEF RepairedPlaces, DriftPlaces, Halfway
        <5>3. call[c].place = ordinal /\ ~(x.ordinal < call[c].place) /\ x.ordinal < e.place
          BY <2>2, <2>5, <3>1, <4>3, <5>2 DEF Placed, BeforeRepairs, Joins
        <5> QED BY <2>0, <5>1, <5>3
      <4> QED BY <2>3, <4>1, <4>2, <4>3
    <3> QED BY <3>1, <3>2 DEF TailBy
  <2>6. ASSUME ClaimMiss(c) \/ Drift(c), ~Extend(c) PROVE TailBy(c, x)'
    <3>1. ~Joins(c)
      BY <2>6, Looking, Cutting, Joining DEF Joins, ClaimMiss, Drift, Restored, RestoreFails
    <3> QED BY <2>1, <2>6, <3>1, Looking DEF TailBy, Rewinding
  <2>7. ASSUME Restored(c) PROVE TailBy(c, x)'
    <3>1. /\ store' = store /\ call[c].step = "restoring" /\ call'[c].step = "performing"
          /\ Below(store, call[c].place)
      BY <2>7, Cutting DEF Numerals
    <3>2. x \notin Contents(store)
      BY <2>2, <2>3, <2>7, <3>1 DEF Below, TailBy, Joins
    <3> QED BY <3>1, <3>2 DEF TailBy, Rewinding
  <2>8. ASSUME Cuts(c), ~Restored(c) PROVE TailBy(c, x)'
    <3>0. TailBy(c, x) /\ call[c].kept \in Seq(Interaction)
      <4>1. ~Joins(c)
        BY <2>8, CutsKeep, Joining DEF Joins, Extend, Rewinding
      <4> QED BY <2>0, <2>1, <2>8, <4>1
    <3>1. CASE Keep(c)
      BY <3>0, <3>1, Cutting DEF TailBy, Mirrored, Placed, Load
    <3>2. CASE Delete(c)
      BY <3>0, <3>2, Cutting DEF TailBy, Rewinding, Contents
    <3>3. CASE Reset(c)
      BY <3>0, <3>3, Cutting DEF TailBy, Rewinding
    <3>4. CASE RestoreStored(c)
      <4>1. /\ store' = Append(store, Head(call[c].kept)) /\ call[c].kept # <<>>
            /\ call'[c].kept = call[c].kept /\ call[c].step = "restoring"
        BY <3>4, Cutting
      <4>2. /\ Head(call[c].kept) \in Contents(call[c].kept)
            /\ Contents(store') = Contents(store) \cup {Head(call[c].kept)}
        BY <2>0, <3>0, <4>1, HeadAndTail, ContentsOf
      <4> QED BY <3>0, <4>1, <4>2 DEF TailBy, Rewinding
    <3>5. CASE RestoreCached(c) \/ DropStale(c)
      <4>1. /\ store' = store /\ call[c].kept # <<>> /\ call'[c].kept = Tail(call[c].kept)
            /\ call[c].step \in {"refilling", "restoring"}
        BY <3>5, Cutting
      <4> QED BY <3>0, <4>1, HeadAndTail DEF TailBy, Rewinding
    <3> QED BY <2>8, <3>1, <3>2, <3>3, <3>4, <3>5 DEF Cuts
  <2>9. ASSUME Perform(c) \/ RecordStored(c) PROVE TailBy(c, x)'
    <3>0. TailBy(c, x) /\ call'[c].step \in {"answered", "taped"}
      <4>1. ~Joins(c)
        BY <2>9, Recording, Joining
      <4> QED BY <2>1, <2>9, <4>1, Recording
    <3>1. CASE Perform(c)
      BY <3>0, <3>1, Recording DEF TailBy, Rewinding
    <3>2. CASE RecordStored(c)
      <4>1. /\ Contents(store') = Contents(store) \cup {NewInteraction(c)}
            /\ call[c].step = "answered"
        <5>1. /\ NewInteraction(c) \in Interaction /\ store' = Append(store, NewInteraction(c))
              /\ call[c].step = "answered"
          BY <3>2, Recording
        <5> QED BY <2>0, <5>1, ContentsOf
      <4>2. NewInteraction(c).response = call[c].reply
        BY DEF NewInteraction
      <4>3. x # NewInteraction(c)
        BY <4>1, <4>2 DEF OldPrior
      <4> QED BY <3>0, <4>1, <4>3 DEF TailBy, Rewinding
    <3> QED BY <2>9, <3>1, <3>2
  <2>10. ASSUME Ends(c) PROVE TailBy(c, x)'
    <3>1. store' = store /\ call'[c].step = "idle"
      BY <2>10, Ending DEF Idle
    <3>2. CASE RestoreFails(c)
      <4>1. Below(store, call[c].place)
        BY <3>2 DEF RestoreFails, Numerals
      <4>2. x \notin Contents(store)
        BY <2>2, <2>3, <3>2, <4>1 DEF Below, TailBy, Joins
      <4> QED BY <3>1, <4>2 DEF TailBy, Rewinding
    <3>3. CASE ~RestoreFails(c)
      <4>1. ~Joins(c)
        BY <3>1, <3>3, Joining DEF Joins
      <4> QED BY <2>1, <3>1, <4>1 DEF TailBy, Rewinding
    <3> QED BY <3>2, <3>3
  <2>11. ASSUME UNCHANGED <<store, call, log, ordinal, live>> PROVE TailBy(c, x)'
    <3>1. ~Joins(c)
      BY <2>11, Joining DEF Joins
    <3> QED BY <2>1, <2>11, <3>1 DEF TailBy
  <2>12. \A d \in Callers : d = c
    BY DEF OneCaller
  <2> QED BY <1>2, <2>4, <2>5, <2>6, <2>7, <2>8, <2>9, <2>10, <2>11, <2>12, RepairSteps DEF Cuts
<1> QED BY <1>1, <1>2

\* A tape is in order after an append unless the append is of the second.
LEMMA OrderGrows ==
    ASSUME NEW tape \in Seq(Interaction), NEW new \in Interaction, NEW x, NEW y,
           InOrder(x, y, tape), new = y => x \in Contents(tape)
    PROVE  InOrder(x, y, Append(tape, new))
<1> SUFFICES ASSUME NEW k \in DOMAIN Append(tape, new), Append(tape, new)[k] = y
             PROVE  \E l \in 1..(k - 1) : Append(tape, new)[l] = x
  BY DEF InOrder
<1>1. \A l \in DOMAIN tape : Append(tape, new)[l] = tape[l] /\ l \in 1..Len(tape)
  OBVIOUS
<1>2. CASE k \in DOMAIN tape
  <2>1. PICK l \in 1..(k - 1) : tape[l] = x
    BY <1>1, <1>2 DEF InOrder
  <2> QED BY <1>1, <1>2, <2>1
<1>3. CASE k = Len(tape) + 1
  <2>1. PICK l \in DOMAIN tape : tape[l] = x
    BY <1>3 DEF Contents
  <2> QED BY <1>1, <1>3, <2>1
<1> QED BY <1>2, <1>3

\* What is to be restored stays in turn when its head is taken off.
LEMMA TurnShrinks ==
    ASSUME NEW kept \in Seq(Interaction), kept # <<>>, NEW tape, NEW x, NEW y,
           InTurn(x, y, kept, tape), Head(kept) = x => x \in Contents(tape)
    PROVE  InTurn(x, y, Tail(kept), tape)
<1> SUFFICES ASSUME NEW k \in DOMAIN Tail(kept), Tail(kept)[k] = y, x \notin Contents(tape)
             PROVE  \E l \in 1..(k - 1) : Tail(kept)[l] = x
  BY DEF InTurn
<1>1. /\ k + 1 \in DOMAIN kept /\ kept[k + 1] = y /\ k \in 1..(Len(kept) - 1)
      /\ \A l \in 1..(Len(kept) - 1) : Tail(kept)[l] = kept[l + 1]
  OBVIOUS
<1>2. PICK l \in 1..((k + 1) - 1) : kept[l] = x
  BY <1>1 DEF InTurn
<1>3. l # 1
  BY <1>2
<1>4. l - 1 \in 1..(k - 1) /\ Tail(kept)[l - 1] = x
  BY <1>1, <1>2, <1>3
<1> QED BY <1>4

\* No step of a repair turns two recordings round that precede it.
LEMMA OrderStep ==
    ASSUME OneCaller, Inv, SoloInv, RepairInv, [Next]_vars
    PROVE  Order'
<1> USE DEF Inv, SoloInv, RepairInv
<1> SUFFICES ASSUME Repairing' PROVE Order'
  BY DEF Order
<1>1. ASSUME NEW m \in OpenModes, Open(m) PROVE Order'
  <2>1. /\ prior' = store /\ store' = store /\ Numbering(store)
        /\ \A c \in Callers : call'[c].step = "idle"
    BY <1>1, Begins DEF Repairing, Numerals
  <2>2. ASSUME NEW x, NEW y, Earlier(x, y)' PROVE InOrder(x, y, store)
    <3>1. PICK i, j \in DOMAIN store : i < j /\ store[i] = x /\ store[j] = y
      BY <2>1, <2>2 DEF Earlier
    <3>2. \A k \in DOMAIN store : store[k] = y => k = j
      BY <2>1, <3>1 DEF Numbering
    <3>3. i \in 1..(j - 1)
      BY <3>1 DEF TypeOK
    <3> QED BY <3>1, <3>2, <3>3 DEF InOrder
  <2> QED BY <2>1, <2>2 DEF Order, InOrderBy
<1>2. ASSUME ~(\E m \in OpenModes : Open(m)) PROVE Order'
  <2>0. /\ Repairing /\ prior' = prior /\ store \in Seq(Interaction)
        /\ \A d \in Callers : call[d].kept \in Seq(Interaction) /\ call[d].place \in Nat
    BY <1>2, RepairSteps DEF TypeOK, CallState
  <2> SUFFICES ASSUME NEW c \in Callers, NEW x \in Contents(prior), NEW y \in Contents(prior),
                      Earlier(x, y)', BeforeRepairs(x)', BeforeRepairs(y)'
               PROVE  InOrderBy(c, x, y)'
    BY <2>0 DEF Order
  <2>1. /\ BeforeRepairs(x) /\ BeforeRepairs(y)
        /\ Joins(c) /\ Has(prior, call[c].place) =>
              x.ordinal < call[c].place /\ y.ordinal < call[c].place
    BY <1>2, PlacesGrow DEF BeforeRepairs
  <2>2. InOrderBy(c, x, y)
    BY <2>0, <2>1 DEF Order, Earlier
  <2>3. ASSUME NEW q \in Questions, AskOff(c, q) \/ Ask(c, q), call'[c].step = "deciding"
        PROVE  InOrderBy(c, x, y)'
    BY <2>2, <2>3, Asking DEF InOrderBy
  <2>4. ASSUME ClaimMiss(c) \/ Extend(c) \/ Drift(c) PROVE InOrderBy(c, x, y)'
    BY <2>2, <2>4, Looking DEF InOrderBy
  <2>5. ASSUME Keep(c) PROVE InOrderBy(c, x, y)'
    BY <2>2, <2>5, Cutting DEF InOrderBy
  <2>6. ASSUME Delete(c) PROVE InOrderBy(c, x, y)'
    BY <2>2, <2>6, Cutting DEF InOrderBy, Mirrored
  <2>7. ASSUME Reset(c) PROVE InOrderBy(c, x, y)'
    <3>1. /\ store' = <<>> /\ call'[c].step = "restoring" /\ call'[c].kept = call[c].kept
          /\ call[c].step = "resetting"
      BY <2>7, Cutting DEF Mirrored
    <3>2. InOrder(x, y, <<>>)
      BY DEF InOrder
    <3>3. InTurn(x, y, call[c].kept, <<>>)
      BY <2>2, <3>1 DEF InOrderBy, InOrder, InTurn
    <3> QED BY <3>1, <3>2, <3>3 DEF InOrderBy
  <2>8. ASSUME RestoreStored(c) PROVE InOrderBy(c, x, y)'
    <3>1. /\ store' = Append(store, Head(call[c].kept)) /\ call[c].kept # <<>>
          /\ call'[c].step = "refilling" /\ call'[c].kept = call[c].kept
          /\ call[c].step = "restoring" /\ call'[c].place = call[c].place
      BY <2>8, Cutting, CutsKeep DEF Cuts
    <3> SUFFICES ASSUME InOrder(x, y, store), InTurn(x, y, call[c].kept, store)
                 PROVE  InOrder(x, y, store') /\ InTurn(x, y, call[c].kept, store')
      BY <2>2, <3>1 DEF InOrderBy
    <3>2. /\ Head(call[c].kept) \in Interaction /\ 1 \in DOMAIN call[c].kept
          /\ Head(call[c].kept) = call[c].kept[1]
      BY <2>0, <3>1
    <3>3. Head(call[c].kept) = y => x \in Contents(store)
      BY <3>2 DEF InTurn
    <3>4. InOrder(x, y, store')
      BY <2>0, <3>1, <3>2, <3>3, OrderGrows
    <3>5. Contents(store) \subseteq Contents(store')
      BY <2>0, <3>1, <3>2, ContentsOf
    <3> QED BY <3>4, <3>5 DEF InTurn
  <2>9. ASSUME RestoreCached(c) PROVE InOrderBy(c, x, y)'
    <3>1. /\ store' = store /\ call[c].kept # <<>>
          /\ call'[c].step = "restoring" /\ call'[c].kept = Tail(call[c].kept)
          /\ call[c].step = "refilling" /\ call'[c].place = call[c].place
      BY <2>9, Cutting, CutsKeep DEF Cuts
    <3>2. Head(call[c].kept) \in Contents(store)
      BY <3>1 DEF Numerals
    <3> QED BY <2>0, <2>2, <3>1, <3>2, TurnShrinks DEF InOrderBy
  <2>10. ASSUME DropStale(c) PROVE InOrderBy(c, x, y)'
    <3>1. /\ store' = store /\ call[c].kept # <<>> /\ ~(Head(call[c].kept).ordinal < call[c].place)
          /\ call'[c].step = "restoring" /\ call'[c].kept = Tail(call[c].kept)
          /\ call[c].step = "restoring" /\ call'[c].place = call[c].place
      BY <2>10, Cutting, CutsKeep DEF Cuts
    <3> QED BY <2>0, <2>2, <3>1, TurnShrinks DEF InOrderBy
  <2>11. ASSUME Restored(c) PROVE InOrderBy(c, x, y)'
    <3>1. /\ store' = store /\ call[c].step = "restoring" /\ call'[c].step = "performing"
      BY <2>11, Cutting
    <3>2. x.ordinal < call[c].place /\ y.ordinal < call[c].place
      BY <2>0, <2>1, <2>11, <3>1 DEF StaleHere, Rewinding, Joins
    <3> QED BY <2>2, <3>1, <3>2 DEF InOrderBy
  <2>12. ASSUME Perform(c) PROVE InOrderBy(c, x, y)'
    BY <2>2, <2>12, Recording DEF InOrderBy
  <2>13. ASSUME RecordStored(c) PROVE InOrderBy(c, x, y)'
    <3>1. /\ NewInteraction(c) \in Interaction /\ store' = Append(store, NewInteraction(c))
          /\ call[c].step = "answered" /\ call'[c].step = "taped"
      BY <2>13, Recording
    <3>2. NewInteraction(c) # y
      BY <3>1 DEF OldPrior, NewInteraction
    <3>3. InOrder(x, y, store')
      BY <2>0, <2>2, <3>1, <3>2, OrderGrows DEF InOrderBy
    <3> QED BY <3>1, <3>3 DEF InOrderBy
  <2>14. ASSUME Ends(c) PROVE InOrderBy(c, x, y)'
    <3>1. store' = store /\ call'[c].step = "idle"
      BY <2>14, Ending DEF Idle
    <3>2. InOrder(x, y, store)
      <4>1. CASE RestoreFails(c)
        <5>1. call[c].step = "restoring" /\ Has(prior, call[c].place)
          BY <2>0, <4>1 DEF RestoreFails, StaleHere, Rewinding
        <5> QED BY <2>1, <2>2, <4>1, <5>1 DEF InOrderBy, Joins
      <4>2. CASE ~RestoreFails(c)
        <5>1. call[c].step \notin {"resetting", "restoring", "refilling"}
          BY <2>14, <4>2, Ending
        <5> QED BY <2>2, <5>1 DEF InOrderBy
      <4> QED BY <4>1, <4>2
    <3> QED BY <3>1, <3>2 DEF InOrderBy
  <2>15. ASSUME UNCHANGED <<store, call, log, ordinal, live>> PROVE InOrderBy(c, x, y)'
    BY <2>2, <2>15 DEF InOrderBy
  <2>16. \A d \in Callers : d = c
    BY DEF OneCaller
  <2> QED BY <1>2, <2>3, <2>4, <2>5, <2>6, <2>7, <2>8, <2>9, <2>10, <2>11, <2>12, <2>13, <2>14,
             <2>15, <2>16, RepairSteps DEF Cuts
<1> QED BY <1>1, <1>2

\* The invariant of repairs, with what it rests on.
OneInv == Inv /\ AnswersGenuine /\ SoloInv /\ RepairInv

\* Every step keeps it, when no two calls are under way at a time.
LEMMA OneStep ==
    ASSUME OneCaller, OneInv, [Next]_vars
    PROVE  OneInv'
<1> USE DEF OneInv
<1>1. Inv' /\ AnswersGenuine'
  BY InvStep, GenuineStep
<1>2. SoloInv'
  BY PlacedStep, MirroredStep, NumeralsStep DEF SoloInv
<1>3. RepairInv'
  BY OriginStep, StaleStep, HalfDoneStep, OldPriorStep, HeadsStep, TailsStep,
     OrderStep DEF RepairInv
<1> QED BY <1>1, <1>2, <1>3

\* It holds throughout every run.
LEMMA OneInvariance ==
    ASSUME OneCaller
    PROVE  Spec => []OneInv
<1>1. ASSUME Init PROVE OneInv
  <2>1. Inv /\ AnswersGenuine
    BY <1>1, InvInit DEF Init, AnswersGenuine, AnswersIn, GenuineTape, GenuineCall, Idle, Answered
  <2>2. SoloInv
    BY <1>1 DEF Init, Idle, SoloInv, Placed, Mirrored, Numerals, Numbering, Contents
  <2>3. RepairInv
    BY <1>1 DEF Init, RepairInv, Origin, StaleHere, HalfDone, OldPrior, Heads, Tails, Order,
       Repairing, Contents, Idle
  <2> QED BY <2>1, <2>2, <2>3 DEF OneInv
<1>2. OneInv /\ [Next]_vars => OneInv'
  BY OneStep
<1> QED BY <1>1, <1>2, PTL DEF Spec

\* A repair costs no recording before the first stale one, at any time but
\* between the delete of the tape and its last append, so that a crash outside
\* truncate_from costs none either; nor does a callback or a delete that fails,
\* but only an append that does, of which the caller was told.
THEOREM HeadsAreKept ==
    ASSUME OneCaller
    PROVE  Spec => []HeadIsKept
<1>1. ASSUME OneInv PROVE HeadIsKept
  <2> SUFFICES ASSUME Repairing,
                      \A c \in Callers : call[c].step \notin {"resetting", "restoring", "refilling"},
                      NEW i \in DOMAIN prior, \A m \in RepairedPlaces : prior[i].ordinal < m,
                      Halfway = {}
               PROVE  OnTape(prior[i])
    BY DEF HeadIsKept, Repairing, Halfway
  <2>1. prior[i] \in Contents(prior) /\ BeforeRepairs(prior[i])
    BY DEF Contents, BeforeRepairs
  <2>2. prior[i] \in Contents(store)
    BY <1>1, <2>1 DEF OneCaller, OneInv, RepairInv, Heads
  <2> QED BY <2>2 DEF Contents, OnTape
<1> QED BY <1>1, OneInvariance, PTL

\* What a repair that fails halfway leaves of the recordings before the first
\* stale one is a first part of them, also after later repairs of the run.
THEOREM HeadsAreCutOnce ==
    ASSUME OneCaller
    PROVE  Spec => []HeadIsCutOnce
<1>1. ASSUME OneInv PROVE HeadIsCutOnce
  <2> SUFFICES ASSUME AllIdle, Repairing, NEW i \in DOMAIN prior, NEW j \in DOMAIN prior, i < j,
                      \A m \in DriftPlaces : prior[i].ordinal < m,
                      \A m \in DriftPlaces : prior[j].ordinal < m,
                      OnTape(prior[j])
               PROVE  OnTape(prior[i])
    BY DEF HeadIsCutOnce, AtRest, Repairing
  <2>1. RepairedPlaces = DriftPlaces
    BY DEF RepairedPlaces, AllIdle
  <2>2. /\ prior[i] \in Contents(prior) /\ prior[j] \in Contents(prior)
        /\ Earlier(prior[i], prior[j]) /\ BeforeRepairs(prior[i]) /\ BeforeRepairs(prior[j])
    BY <2>1 DEF Contents, Earlier, BeforeRepairs
  <2>3. InOrder(prior[i], prior[j], store) /\ store \in Seq(Interaction)
    BY <1>1, <2>2 DEF OneCaller, OneInv, RepairInv, Order, InOrderBy, AllIdle, Inv, TypeOK
  <2>4. PICK k \in DOMAIN store : store[k] = prior[j]
    BY DEF OnTape
  <2>5. PICK l \in 1..(k - 1) : store[l] = prior[i]
    BY <2>3, <2>4 DEF InOrder
  <2>6. l \in DOMAIN store
    BY <2>3, <2>4, <2>5
  <2> QED BY <2>5, <2>6 DEF OnTape
<1> QED BY <1>1, OneInvariance, PTL

\* Nothing from the first stale recording on is left when a repair is over: a
\* later run replays no answer from the branch this one has abandoned.
THEOREM StaleTailsAreGone ==
    ASSUME OneCaller
    PROVE  Spec => []StaleTailIsGone
<1>1. ASSUME OneInv PROVE StaleTailIsGone
  <2> SUFFICES ASSUME Repairing, NEW i \in DOMAIN prior,
                      NEW m \in DriftPlaces, prior[i].ordinal >= m
               PROVE  ~OnTape(prior[i])
    BY DEF StaleTailIsGone, AtRest, Repairing
  <2>1. prior[i] \in Contents(prior) /\ prior[i].ordinal \in Nat
    <3>1. prior[i] \in Interaction
      BY <1>1 DEF OneInv, Inv, TypeOK
    <3> QED BY <3>1 DEF Contents, Interaction
  <2>2. m \in RepairedPlaces /\ m \in Nat
    BY <1>1, PlacesTyped DEF RepairedPlaces, OneInv, Inv
  <2>3. ~BeforeRepairs(prior[i])
    BY <2>1, <2>2 DEF BeforeRepairs
  <2>4. prior[i] \notin Contents(store)
    BY <1>1, <2>1, <2>3 DEF OneCaller, OneInv, RepairInv, Tails
  <2> QED BY <2>4 DEF Contents, OnTape
<1> QED BY <1>1, OneInvariance, PTL

\* A run of one caller leaves a tape without clashes also when it repairs: what
\* it restores and what it records beside it have different ordinals.
THEOREM RepairsKeepOrdinalsDistinct ==
    ASSUME OneCaller
    PROVE  Spec => []DistinctOrdinals
<1>1. OneInv => DistinctOrdinals
  BY DEF OneInv, SoloInv, Numerals, Numbering, DistinctOrdinals
<1> QED BY <1>1, OneInvariance, PTL

-----------------------------------------------------------------------------
(* The tape in memory *)

\* Without repairs a recording run loads no tape, and a strict one the stored
\* tape, which it does not change.
Followed ==
    mode # "replay_or_record" /\ phase # "closed" =>
        /\ loaded \in {None, store}
        /\ mode \in {"record", "off"} => loaded = None

\* Every step keeps it, with any number of callers.
LEMMA FollowedStep ==
    ASSUME Inv, Followed, [Next]_vars
    PROVE  Followed'
<1> USE DEF Inv
<1> SUFFICES ASSUME mode' # "replay_or_record", phase' # "closed" PROVE Followed'
  BY DEF Followed
<1>1. ASSUME NEW m \in OpenModes, Open(m) PROVE Followed'
  BY <1>1 DEF Open, Followed
<1>2. ASSUME mode' = mode, phase # "closed", store' = store,
             loaded' = loaded \/ (loaded' = Load /\ MayReplay(mode))
      PROVE  Followed'
  BY <1>2 DEF Followed, Load, MayReplay
<1>3. ASSUME NEW c \in Callers, NEW q \in Questions, AskOff(c, q) \/ Ask(c, q) PROVE Followed'
  BY <1>2, <1>3, Asking
<1>4. ASSUME NEW c \in Callers, ClaimMiss(c) \/ Extend(c) \/ Drift(c) PROVE Followed'
  <2>1. mode \in {"replay", "replay_or_record"} /\ phase' = phase
    BY <1>4, Looking DEF TypeOK, CallsFit, CallFits
  <2> QED BY <1>2, <1>4, <2>1, Looking DEF MayReplay
<1>5. ASSUME NEW c \in Callers, Cuts(c) PROVE Followed'
  BY <1>5, CutsKeep
<1>6. ASSUME NEW c \in Callers, Perform(c) PROVE Followed'
  BY <1>2, <1>6, Recording
<1>7. ASSUME NEW c \in Callers, RecordStored(c) PROVE Followed'
  <2>1. mode = "record" /\ phase' = phase
    BY <1>7, Recording DEF TypeOK, CallsFit, CallFits
  <2> QED BY <1>7, <2>1, Recording DEF Followed
<1>8. ASSUME NEW c \in Callers, Ends(c) PROVE Followed'
  <2>1. CASE RecordCounted(c)
    <3>1. loaded = None => loaded' = None
      BY <1>8, <2>1, Ending DEF Cached
    <3>2. mode = "record"
      BY <1>8, <2>1, Ending DEF TypeOK, CallsFit, CallFits
    <3> QED BY <1>8, <3>1, <3>2, Ending DEF Followed
  <2>2. CASE ~RecordCounted(c)
    <3>1. loaded' = loaded \/ (loaded' = Load /\ call[c].step \in {"deciding", "missed"})
      BY <1>8, <2>2 DEF Ends, ClaimHit, RefuseDrift, RefuseMiss, Pass, Fails, DriftRaises,
         DeleteFails, RestoreFails, PerformFails, RecordFails, tapeVars
    <3>2. call[c].step \in {"deciding", "missed"} => MayReplay(mode)
      BY DEF TypeOK, CallsFit, CallFits, MayReplay
    <3> QED BY <1>2, <1>8, <3>1, <3>2, Ending
  <2> QED BY <2>1, <2>2
<1>9. ASSUME NEW next \in {"open", "finished"}, Finish(next) PROVE Followed'
  BY <1>2, <1>9 DEF Finish
<1>10. ASSUME Discard PROVE Followed'
  BY <1>10 DEF Discard, Followed
<1>11. ASSUME UNCHANGED vars PROVE Followed'
  BY <1>11 DEF vars, recorderVars, tapeVars, Followed
<1> QED BY <1>1, <1>3, <1>4, <1>5, <1>6, <1>7, <1>8, <1>9, <1>10, <1>11, Sorted DEF Crash

\* Between calls the tape in memory is the stored one, whatever was claimed,
\* recorded, truncated or has failed.
THEOREM CacheFollowsStore ==
    ASSUME NoRepair \/ OneCaller
    PROVE  Spec => []CacheMirrorsStore
<1>1. ASSUME OneCaller PROVE Spec => []CacheMirrorsStore
  <2>1. OneInv => CacheMirrorsStore
    BY <1>1 DEF OneCaller, OneInv, SoloInv, Mirrored, CacheMirrorsStore, AtRest, AllIdle
  <2> QED BY <1>1, <2>1, OneInvariance, PTL
<1>2. ASSUME NoRepair PROVE Spec => []CacheMirrorsStore
  <2>1. Init => Followed
    BY DEF Init, Followed
  <2>2. WholeInv /\ Followed /\ [Next]_vars => Followed'
    BY FollowedStep DEF WholeInv
  <2>3. WholeInv /\ Followed => CacheMirrorsStore
    <3>1. Numbered => mode # "replay_or_record" \/ phase = "closed"
      BY DEF Numbered
    <3> QED BY <3>1 DEF WholeInv, RunInv, Followed, CacheMirrorsStore, AtRest
  <2> QED BY <1>2, <2>1, <2>2, <2>3, RunInvariance, PTL DEF Spec
<1> QED BY <1>1, <1>2

=============================================================================
