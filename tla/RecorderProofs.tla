--------------------------- MODULE RecorderProofs ---------------------------
(* Theorems about Recorder, for any callers, questions, modes and bounds.   *)
EXTENDS Recorder, PositionsProofs, FiniteSetTheorems

-----------------------------------------------------------------------------
(* The look-ups of Cassette, for tapes of any length *)

\* A recording that Recorder._claim serves answers the question asked and was
\* not served before.
LEMMA ClaimedAnswers ==
    ASSUME NEW I, NEW tape \in Seq(I), NEW spent, NEW n, NEW q,
           Answerable(tape, spent, n, q)
    PROVE  \E i \in DOMAIN tape :
              /\ Claimed(tape, spent, n, q) = tape[i]
              /\ tape[i].fingerprint = q
              /\ tape[i].ordinal \notin spent
<1> DEFINE unserved == Unserved(tape, spent, q)
           at == First(Holding(tape, n))
<1>1. DOMAIN tape \subseteq Nat
  OBVIOUS
<1>2. unserved \in SUBSET Nat /\ unserved # {}
  BY <1>1 DEF Unserved, Answerable
<1>3. First(unserved) \in unserved
  BY <1>2, FirstIsLeast
<1>4. \E i \in unserved : Claimed(tape, spent, n, q) = tape[i]
  <2>1. CASE Has(tape, n) /\ at \in unserved
    BY <2>1 DEF Claimed
  <2>2. CASE ~(Has(tape, n) /\ at \in unserved)
    BY <2>2, <1>3 DEF Claimed
  <2> QED BY <2>1, <2>2
<1> QED BY <1>4 DEF Unserved

-----------------------------------------------------------------------------
(* The inductive invariant *)

(* What each caller's step says of the recorder, the part of the inductive   *)
(* invariant that type correctness and the offline promise rest on: which    *)
(* steps a mode leads to, and which fields of a call are set by then.        *)
CallFits(c) ==
    /\ call[c].step # "idle" => call[c].question \in Questions
    /\ call[c].step \notin {"idle", "passing"} => call[c].place # 0
    /\ call[c].step = "refilling" => call[c].kept # <<>>
    /\ mode = "off" => call[c].step \in {"idle", "passing"}
    /\ mode = "replay" => call[c].step \in {"idle", "deciding", "missed"}
    /\ mode = "record" => call[c].step \in {"idle", "performing", "answered", "taped"}

CallsFit == \A c \in Callers : CallFits(c)

ReplayRecordsNothing == mode = "replay" => recorded = 0

Inv == TypeOK /\ CallsFit /\ ReplayRecordsNothing

-----------------------------------------------------------------------------
(* Type correctness *)

\* Loading a tape, and keeping the copy in memory up to date, yields a tape.
LEMMA TapesTyped ==
    ASSUME TypeOK
    PROVE  /\ Load \in Seq(Interaction)
           /\ \A i \in Interaction : Cached(i) \in Seq(Interaction) \cup {None}
BY DEF TypeOK, Load, Cached

\* What a claim serves is an interaction of the tape, and answers the call.
LEMMA ClaimedTyped ==
    ASSUME TypeOK, NEW n, NEW q, Answerable(Load, served, n, q)
    PROVE  /\ Claimed(Load, served, n, q) \in Interaction
           /\ Claimed(Load, served, n, q).fingerprint = q
<1>1. Load \in Seq(Interaction)
  BY TapesTyped
<1>2. PICK i \in DOMAIN Load : /\ Claimed(Load, served, n, q) = Load[i]
                               /\ Load[i].fingerprint = q
  BY <1>1, ClaimedAnswers
<1> QED BY <1>1, <1>2

\* The number reported as unplayed (Recorder.unplayed) is never negative.
LEMMA UnplayedTyped ==
    ASSUME TypeOK
    PROVE  Unplayed \in Nat
<1>1. Cardinality(served) \in Nat
  BY FS_CardinalityType DEF TypeOK
<1>2. Len(Load) \in Nat
  BY TapesTyped
<1> QED BY <1>1, <1>2 DEF Unplayed

\* A caller between two calls is in a legal state.
LEMMA IdleTyped == Idle \in CallState
BY DEF Idle, CallState, Steps

\* Moving a caller to another step keeps the calls well formed.
LEMMA GotoTyped ==
    ASSUME TypeOK, NEW c \in Callers, NEW step \in Steps, Goto(c, step)
    PROVE  call' \in [Callers -> CallState]
BY DEF TypeOK, Goto, CallState

\* So does beginning a call.
LEMMA BeginTyped ==
    ASSUME TypeOK, NEW c \in Callers, NEW step \in Steps, NEW q \in Questions,
           NEW place \in Nat, Begin(c, step, q, place)
    PROVE  call' \in [Callers -> CallState]
<1> DEFINE begun == [step |-> step, question |-> q, place |-> place,
                      reply |-> 0, kept |-> <<>>]
<1>1. begun \in CallState
  BY DEF CallState
<1>2. call' = [call EXCEPT ![c] = begun]
  BY DEF Begin
<1> HIDE DEF begun
<1> QED BY <1>1, <1>2 DEF TypeOK

\* And so does returning, which adds one well formed entry to the history.
LEMMA ReturnTyped ==
    ASSUME TypeOK, NEW c \in Callers, call[c].question \in Questions,
           NEW response \in Nat, NEW source \in Sources, Return(c, response, source)
    PROVE  /\ call' \in [Callers -> CallState]
           /\ log' \subseteq [place : Nat, question : Questions,
                              response : Nat, source : Sources]
           /\ prior' = prior /\ runs' = runs
<1>1. call' \in [Callers -> CallState]
  BY IdleTyped DEF TypeOK, Return
<1>2. call[c].place \in Nat
  BY DEF TypeOK, CallState
<1> QED BY <1>1, <1>2 DEF TypeOK, Return

\* The interaction a caller records is well formed.
LEMMA NewInteractionTyped ==
    ASSUME TypeOK, CallsFit, NEW c \in Callers, call[c].step \in {"answered", "taped"}
    PROVE  NewInteraction(c) \in Interaction
BY DEF TypeOK, CallState, CallsFit, CallFits, NewInteraction, Interaction

\* The initial state satisfies the inductive invariant.
LEMMA InvInit == Init => Inv
<1> SUFFICES ASSUME Init PROVE Inv
  OBVIOUS
<1>1. IsFiniteSet(served)
  BY FS_EmptySet DEF Init
<1>2. TypeOK
  BY <1>1, IdleTyped DEF Init, TypeOK
<1>3. CallsFit /\ ReplayRecordsNothing
  BY DEF Init, CallsFit, CallFits, ReplayRecordsNothing, Idle
<1> QED BY <1>2, <1>3 DEF Inv

\* Every step preserves the inductive invariant.
LEMMA InvStep == Inv /\ [Next]_vars => Inv'
<1> SUFFICES ASSUME Inv, [Next]_vars PROVE Inv'
  OBVIOUS
<1> USE DEF Inv
<1> DEFINE all == TypeOK' /\ CallsFit' /\ ReplayRecordsNothing'
<1>1. ASSUME NEW m \in OpenModes, Open(m) PROVE all
  <2>1. IsFiniteSet({})
    BY FS_EmptySet
  <2>2. mode' \in {"record", "replay", "replay_or_record", "off"}
    BY <1>1, ModesAssumption DEF Open, Resolve, Modes
  <2>3. TypeOK'
    BY <1>1, <2>1, <2>2 DEF Open, TypeOK
  <2>4. CallsFit' /\ ReplayRecordsNothing'
    BY <1>1 DEF Open, AllIdle, CallsFit, CallFits, ReplayRecordsNothing
  <2> QED BY <2>3, <2>4
<1>2. ASSUME NEW c \in Callers, NEW q \in Questions, AskOff(c, q) PROVE all
  <2>1. call' \in [Callers -> CallState]
    BY <1>2, BeginTyped DEF AskOff, Steps
  <2>2. TypeOK'
    BY <1>2, <2>1 DEF AskOff, recorderVars, tapeVars, historyVars, TypeOK
  <2>3. CallsFit'
    BY <1>2 DEF AskOff, Begin, Idle, recorderVars, TypeOK, CallsFit, CallFits
  <2>4. ReplayRecordsNothing'
    BY <1>2 DEF AskOff, recorderVars, tapeVars, historyVars, ReplayRecordsNothing
  <2> QED BY <2>2, <2>3, <2>4
<1>3. ASSUME NEW c \in Callers, NEW q \in Questions, Ask(c, q) PROVE all
  <2>1. call' \in [Callers -> CallState]
    <3>1. (IF MayReplay(mode) THEN "deciding" ELSE "performing") \in Steps
      BY DEF Steps
    <3>2. NextOrdinal \in Nat
      BY DEF NextOrdinal, TypeOK
    <3> QED BY <1>3, <3>1, <3>2, BeginTyped DEF Ask
  <2>2. TypeOK'
    BY <1>3, <2>1 DEF Ask, NextOrdinal, tapeVars, historyVars, TypeOK
  <2>3. CallsFit'
    BY <1>3 DEF Ask, NextOrdinal, MayReplay, Begin, Idle, TypeOK, CallsFit, CallFits
  <2>4. ReplayRecordsNothing'
    BY <1>3 DEF Ask, NextOrdinal, tapeVars, historyVars, ReplayRecordsNothing
  <2> QED BY <2>2, <2>3, <2>4
<1>4. ASSUME NEW c \in Callers, ClaimHit(c) PROVE all
  <2> DEFINE found == Claimed(Load, served, call[c].place, call[c].question)
  <2>1. found \in Interaction
    BY <1>4, ClaimedTyped DEF ClaimHit
  <2>2. /\ served' = served \cup {found.ordinal}
        /\ Return(c, found.response, "tape")
        /\ loaded' = Load
        /\ UNCHANGED <<mode, phase, ordinal, recorded, drifted, unplayed,
                       store, lock, live, faults>>
    BY <1>4 DEF ClaimHit
  <2>3. call[c].question \in Questions
    BY <1>4 DEF ClaimHit, CallsFit, CallFits
  <2> HIDE DEF found
  <2>4. found.ordinal \in Nat \ {0} /\ found.response \in Nat
    BY <2>1 DEF Interaction
  <2>5. /\ call' \in [Callers -> CallState]
        /\ log' \subseteq [place : Nat, question : Questions,
                           response : Nat, source : Sources]
        /\ prior' = prior /\ runs' = runs
    BY <2>2, <2>3, <2>4, ReturnTyped DEF Sources
  <2>6. IsFiniteSet(served')
    BY <2>2, FS_AddElement DEF TypeOK
  <2>7. TypeOK'
    BY <2>2, <2>4, <2>5, <2>6, TapesTyped DEF TypeOK
  <2>8. CallsFit' /\ ReplayRecordsNothing'
    BY <2>2 DEF Return, Idle, TypeOK, CallsFit, CallFits, ReplayRecordsNothing
  <2> QED BY <2>7, <2>8
<1>5. ASSUME NEW c \in Callers, ClaimMiss(c) PROVE all
  <2>1. call' \in [Callers -> CallState]
    BY <1>5, GotoTyped DEF ClaimMiss, Steps, Rewinding
  <2>2. TypeOK'
    BY <1>5, <2>1, TapesTyped DEF ClaimMiss, recorderVars, historyVars, TypeOK
  <2>3. CallsFit'
    BY <1>5 DEF ClaimMiss, Goto, recorderVars, TypeOK, CallsFit, CallFits
  <2>4. ReplayRecordsNothing'
    BY <1>5 DEF ClaimMiss, recorderVars, historyVars, ReplayRecordsNothing
  <2> QED BY <2>2, <2>3, <2>4
<1>6. ASSUME NEW c \in Callers, RefuseDrift(c) PROVE all
  <2>1. call[c].question \in Questions
    BY <1>6 DEF RefuseDrift, CallsFit, CallFits
  <2>2. /\ call' \in [Callers -> CallState]
        /\ log' \subseteq [place : Nat, question : Questions,
                           response : Nat, source : Sources]
        /\ prior' = prior /\ runs' = runs
    BY <1>6, <2>1, ReturnTyped DEF RefuseDrift, Sources
  <2>3. TypeOK'
    BY <1>6, <2>2, TapesTyped DEF RefuseDrift, TypeOK
  <2>4. CallsFit'
    BY <1>6 DEF RefuseDrift, Return, Idle, TypeOK, CallsFit, CallFits
  <2>5. ReplayRecordsNothing'
    BY <1>6 DEF RefuseDrift, ReplayRecordsNothing
  <2> QED BY <2>3, <2>4, <2>5
<1>7. ASSUME NEW c \in Callers, RefuseMiss(c) PROVE all
  <2>1. call[c].question \in Questions
    BY <1>7 DEF RefuseMiss, CallsFit, CallFits
  <2>2. /\ call' \in [Callers -> CallState]
        /\ log' \subseteq [place : Nat, question : Questions,
                           response : Nat, source : Sources]
        /\ prior' = prior /\ runs' = runs
    BY <1>7, <2>1, ReturnTyped DEF RefuseMiss, Sources
  <2>3. TypeOK'
    BY <1>7, <2>2, TapesTyped DEF RefuseMiss, recorderVars, TypeOK
  <2>4. CallsFit'
    BY <1>7 DEF RefuseMiss, Return, Idle, recorderVars, TypeOK, CallsFit, CallFits
  <2>5. ReplayRecordsNothing'
    BY <1>7 DEF RefuseMiss, recorderVars, ReplayRecordsNothing
  <2> QED BY <2>3, <2>4, <2>5
<1>8. ASSUME NEW c \in Callers, Extend(c) PROVE all
  <2>1. call' \in [Callers -> CallState]
    BY <1>8, GotoTyped DEF Extend, Steps, Rewinding
  <2>2. TypeOK'
    BY <1>8, <2>1, TapesTyped DEF Extend, recorderVars, historyVars, TypeOK
  <2>3. CallsFit'
    BY <1>8 DEF Extend, Goto, Strict, recorderVars, TypeOK, CallsFit, CallFits
  <2>4. ReplayRecordsNothing'
    BY <1>8 DEF Extend, recorderVars, historyVars, ReplayRecordsNothing
  <2> QED BY <2>2, <2>3, <2>4
<1>9. ASSUME NEW c \in Callers, Drift(c) PROVE all
  <2>1. call' \in [Callers -> CallState]
    BY <1>9, GotoTyped DEF Drift, Steps, Rewinding
  <2>2. TypeOK'
    BY <1>9, <2>1, TapesTyped DEF Drift, historyVars, TypeOK
  <2>3. CallsFit'
    <3>1. /\ call'[c].step = "keeping" /\ call'[c].question = call[c].question
          /\ call'[c].place = call[c].place /\ mode' = mode /\ call[c].step = "missed" /\ mode # "replay"
          /\ \A d \in Callers \ {c} : call'[d] = call[d]
      BY <1>9 DEF Drift, Goto, Strict, TypeOK, CallState
    <3>2. CallFits(c)'
      BY <3>1 DEF CallsFit, CallFits
    <3>3. ASSUME NEW d \in Callers \ {c} PROVE CallFits(d)'
      BY <3>1 DEF CallsFit, CallFits
    <3> QED BY <3>2, <3>3 DEF CallsFit
  <2>4. ReplayRecordsNothing'
    BY <1>9 DEF Drift, historyVars, ReplayRecordsNothing
  <2> QED BY <2>2, <2>3, <2>4
<1>10. ASSUME NEW c \in Callers, Keep(c) PROVE all
  <2>1. call' \in [Callers -> CallState]
    <3> DEFINE moved == [call[c] EXCEPT !.step = "deleting", !.kept = Load]
    <3>1. call[c] \in CallState
      BY DEF TypeOK
    <3>2. moved \in CallState
      BY <3>1, TapesTyped DEF CallState, Steps, Rewinding
    <3>3. call' = [call EXCEPT ![c] = moved]
      BY <1>10, <3>1 DEF Keep, TypeOK, CallState
    <3> HIDE DEF moved
    <3> QED BY <3>2, <3>3 DEF TypeOK
  <2>2. TypeOK'
    BY <1>10, <2>1, TapesTyped DEF Keep, recorderVars, historyVars, TypeOK
  <2>3. CallsFit'
    <3>1. /\ call'[c].step = "deleting" /\ call'[c].question = call[c].question
          /\ call'[c].place = call[c].place /\ mode' = mode /\ call[c].step = "keeping"
          /\ \A d \in Callers \ {c} : call'[d] = call[d]
      BY <1>10 DEF Keep, recorderVars, TypeOK, CallState
    <3>2. CallFits(c)'
      BY <3>1 DEF CallsFit, CallFits
    <3>3. ASSUME NEW d \in Callers \ {c} PROVE CallFits(d)'
      BY <3>1 DEF CallsFit, CallFits
    <3> QED BY <3>2, <3>3 DEF CallsFit
  <2>4. ReplayRecordsNothing'
    BY <1>10 DEF Keep, recorderVars, historyVars, ReplayRecordsNothing
  <2> QED BY <2>2, <2>3, <2>4
<1>11. ASSUME NEW c \in Callers, Delete(c) PROVE all
  <2>1. call' \in [Callers -> CallState]
    BY <1>11, GotoTyped DEF Delete, Steps, Rewinding
  <2>2. TypeOK'
    BY <1>11, <2>1 DEF Delete, recorderVars, historyVars, TypeOK
  <2>3. CallsFit'
    BY <1>11 DEF Delete, Goto, recorderVars, TypeOK, CallsFit, CallFits
  <2>4. ReplayRecordsNothing'
    BY <1>11 DEF Delete, recorderVars, historyVars, ReplayRecordsNothing
  <2> QED BY <2>2, <2>3, <2>4
<1>12. ASSUME NEW c \in Callers, Reset(c) PROVE all
  <2>1. call' \in [Callers -> CallState]
    BY <1>12, GotoTyped DEF Reset, Steps, Rewinding
  <2>2. TypeOK'
    BY <1>12, <2>1 DEF Reset, recorderVars, historyVars, TypeOK
  <2>3. CallsFit'
    BY <1>12 DEF Reset, Goto, recorderVars, TypeOK, CallsFit, CallFits
  <2>4. ReplayRecordsNothing'
    BY <1>12 DEF Reset, recorderVars, historyVars, ReplayRecordsNothing
  <2> QED BY <2>2, <2>3, <2>4
<1>13. ASSUME NEW c \in Callers, RestoreStored(c) PROVE all
  <2>1. call[c].kept \in Seq(Interaction) /\ call[c].kept # <<>>
    BY <1>13 DEF RestoreStored, TypeOK, CallState, CallsFit, CallFits
  <2>2. call' \in [Callers -> CallState]
    BY <1>13, GotoTyped DEF RestoreStored, Steps, Rewinding
  <2>3. TypeOK'
    <3>1. Head(call[c].kept) \in Interaction
      BY <2>1
    <3>2. store' \in Seq(Interaction)
      BY <1>13, <3>1 DEF RestoreStored, TypeOK
    <3> QED BY <1>13, <2>2, <3>2 DEF RestoreStored, recorderVars, historyVars, TypeOK
  <2>4. CallsFit'
    BY <1>13 DEF RestoreStored, Goto, recorderVars, TypeOK, CallsFit, CallFits
  <2>5. ReplayRecordsNothing'
    BY <1>13 DEF RestoreStored, recorderVars, historyVars, ReplayRecordsNothing
  <2> QED BY <2>3, <2>4, <2>5
<1>14. ASSUME NEW c \in Callers, RestoreCached(c) PROVE all
  <2>1. call[c].kept \in Seq(Interaction) /\ call[c].kept # <<>>
    BY <1>14 DEF RestoreCached, TypeOK, CallState, CallsFit, CallFits
  <2>2. call' \in [Callers -> CallState]
    <3> DEFINE moved == [call[c] EXCEPT !.step = "restoring", !.kept = Tail(call[c].kept)]
    <3>1. call[c] \in CallState
      BY DEF TypeOK
    <3>2. Tail(call[c].kept) \in Seq(Interaction)
      BY <2>1
    <3>3. moved \in CallState
      BY <3>1, <3>2 DEF CallState, Steps, Rewinding
    <3>4. call' = [call EXCEPT ![c] = moved]
      BY <1>14, <3>1 DEF RestoreCached, TypeOK, CallState
    <3> HIDE DEF moved
    <3> QED BY <3>3, <3>4 DEF TypeOK
  <2>3. TypeOK'
    <3>1. Head(call[c].kept) \in Interaction
      BY <2>1
    <3>2. loaded' \in Seq(Interaction) \cup {None}
      BY <1>14, <3>1, TapesTyped DEF RestoreCached
    <3> QED BY <1>14, <2>2, <3>2 DEF RestoreCached, recorderVars, historyVars, TypeOK
  <2>4. CallsFit'
    <3>1. /\ call'[c].step = "restoring" /\ call'[c].question = call[c].question
          /\ call'[c].place = call[c].place /\ mode' = mode /\ call[c].step = "refilling"
          /\ \A d \in Callers \ {c} : call'[d] = call[d]
      BY <1>14 DEF RestoreCached, recorderVars, TypeOK, CallState
    <3>2. CallFits(c)'
      BY <3>1 DEF CallsFit, CallFits
    <3>3. ASSUME NEW d \in Callers \ {c} PROVE CallFits(d)'
      BY <3>1 DEF CallsFit, CallFits
    <3> QED BY <3>2, <3>3 DEF CallsFit
  <2>5. ReplayRecordsNothing'
    BY <1>14 DEF RestoreCached, recorderVars, historyVars, ReplayRecordsNothing
  <2> QED BY <2>3, <2>4, <2>5
<1>15. ASSUME NEW c \in Callers, DropStale(c) PROVE all
  <2>1. call[c].kept \in Seq(Interaction) /\ call[c].kept # <<>>
    BY <1>15 DEF DropStale, TypeOK, CallState, CallsFit, CallFits
  <2>2. call' \in [Callers -> CallState]
    <3> DEFINE moved == [call[c] EXCEPT !.kept = Tail(call[c].kept)]
    <3>1. call[c] \in CallState
      BY DEF TypeOK
    <3>2. Tail(call[c].kept) \in Seq(Interaction)
      BY <2>1
    <3>3. moved \in CallState
      BY <3>1, <3>2 DEF CallState, Steps, Rewinding
    <3>4. call' = [call EXCEPT ![c] = moved]
      BY <1>15, <3>1 DEF DropStale, TypeOK, CallState
    <3> HIDE DEF moved
    <3> QED BY <3>3, <3>4 DEF TypeOK
  <2>3. TypeOK'
    BY <1>15, <2>2 DEF DropStale, recorderVars, tapeVars, historyVars, TypeOK
  <2>4. CallsFit'
    BY <1>15 DEF DropStale, recorderVars, TypeOK, CallsFit, CallFits
  <2>5. ReplayRecordsNothing'
    BY <1>15 DEF DropStale, recorderVars, tapeVars, historyVars, ReplayRecordsNothing
  <2> QED BY <2>3, <2>4, <2>5
<1>16. ASSUME NEW c \in Callers, Restored(c) PROVE all
  <2>1. call' \in [Callers -> CallState]
    BY <1>16, GotoTyped DEF Restored, Steps, Rewinding
  <2>2. TypeOK'
    BY <1>16, <2>1 DEF Restored, recorderVars, tapeVars, historyVars, TypeOK
  <2>3. CallsFit'
    BY <1>16 DEF Restored, Goto, recorderVars, TypeOK, CallsFit, CallFits
  <2>4. ReplayRecordsNothing'
    BY <1>16 DEF Restored, recorderVars, tapeVars, historyVars, ReplayRecordsNothing
  <2> QED BY <2>2, <2>3, <2>4
<1>17. ASSUME NEW c \in Callers, Perform(c) PROVE all
  <2>1. call[c].question \in Questions
    BY <1>17 DEF Perform, CallsFit, CallFits
  <2>2. live' \in Seq(Questions) /\ Len(live') \in Nat
    BY <1>17, <2>1 DEF Perform, TypeOK
  <2>3. call' \in [Callers -> CallState]
    <3> DEFINE moved == [call[c] EXCEPT !.step = "answered", !.reply = Len(live')]
    <3>1. call[c] \in CallState
      BY DEF TypeOK
    <3>2. moved \in CallState
      BY <3>1, <2>2 DEF CallState, Steps, Rewinding
    <3>3. call' = [call EXCEPT ![c] = moved]
      BY <1>17, <3>1 DEF Perform, TypeOK, CallState
    <3> HIDE DEF moved
    <3> QED BY <3>2, <3>3 DEF TypeOK
  <2>4. TypeOK'
    BY <1>17, <2>3, <2>2 DEF Perform, recorderVars, tapeVars, historyVars, TypeOK
  <2>5. CallsFit'
    BY <1>17 DEF Perform, recorderVars, TypeOK, CallsFit, CallFits
  <2>6. ReplayRecordsNothing'
    BY <1>17 DEF Perform, recorderVars, tapeVars, historyVars, ReplayRecordsNothing
  <2> QED BY <2>4, <2>5, <2>6
<1>18. ASSUME NEW c \in Callers, Pass(c) PROVE all
  <2>1. call[c].question \in Questions
    BY <1>18 DEF Pass, CallsFit, CallFits
  <2>2. live' \in Seq(Questions) /\ Len(live') \in Nat
    BY <1>18, <2>1 DEF Pass, TypeOK
  <2>3. /\ call' \in [Callers -> CallState]
        /\ log' \subseteq [place : Nat, question : Questions,
                           response : Nat, source : Sources]
        /\ prior' = prior /\ runs' = runs
    BY <1>18, <2>1, <2>2, ReturnTyped DEF Pass, Sources
  <2>4. TypeOK'
    BY <1>18, <2>3, <2>2 DEF Pass, recorderVars, tapeVars, TypeOK
  <2>5. CallsFit'
    BY <1>18 DEF Pass, Return, Idle, recorderVars, TypeOK, CallsFit, CallFits
  <2>6. ReplayRecordsNothing'
    BY <1>18 DEF Pass, recorderVars, tapeVars, ReplayRecordsNothing
  <2> QED BY <2>4, <2>5, <2>6
<1>19. ASSUME NEW c \in Callers, RecordStored(c) PROVE all
  <2>1. call' \in [Callers -> CallState]
    BY <1>19, GotoTyped DEF RecordStored, Steps
  <2>2. TypeOK'
    BY <1>19, <2>1, NewInteractionTyped DEF RecordStored, recorderVars, historyVars, TypeOK
  <2>3. CallsFit'
    BY <1>19 DEF RecordStored, Goto, recorderVars, TypeOK, CallsFit, CallFits
  <2>4. ReplayRecordsNothing'
    BY <1>19 DEF RecordStored, recorderVars, historyVars, ReplayRecordsNothing
  <2> QED BY <2>2, <2>3, <2>4
<1>20. ASSUME NEW c \in Callers, RecordCounted(c) PROVE all
  <2>1. call[c].question \in Questions
    BY <1>20 DEF RecordCounted, CallsFit, CallFits
  <2>2. call[c].reply \in Nat
    BY DEF TypeOK, CallState
  <2>3. /\ call' \in [Callers -> CallState]
        /\ log' \subseteq [place : Nat, question : Questions,
                           response : Nat, source : Sources]
        /\ prior' = prior /\ runs' = runs
    BY <1>20, <2>1, <2>2, ReturnTyped DEF RecordCounted, Sources
  <2>4. TypeOK'
    BY <1>20, <2>3, TapesTyped, NewInteractionTyped DEF RecordCounted, TypeOK
  <2>5. CallsFit'
    BY <1>20 DEF RecordCounted, Return, Idle, TypeOK, CallsFit, CallFits
  <2>6. ReplayRecordsNothing'
    BY <1>20 DEF RecordCounted, CallsFit, CallFits, ReplayRecordsNothing
  <2> QED BY <2>4, <2>5, <2>6
<1>21. ASSUME NEW c \in Callers, Fails(c) PROVE all
  <2>1. PICK source \in {"failed", "unrepaired", "halfway"} : Return(c, 0, source)
    BY <1>21 DEF Fails, DriftRaises, DeleteFails, RestoreFails, PerformFails, RecordFails
  <2>2. /\ mode' = mode /\ phase' = phase /\ ordinal' = ordinal /\ served' = served
        /\ recorded' = recorded /\ unplayed' = unplayed /\ drifted' \in Nat
        /\ store' = store /\ loaded' \in {loaded, Load}
        /\ lock' = lock /\ live' = live /\ faults' = faults + 1
    BY <1>21 DEF Fails, DriftRaises, DeleteFails, RestoreFails, PerformFails, RecordFails,
       recorderVars, tapeVars, TypeOK
  <2>3. call[c].question \in Questions
    BY <1>21 DEF Fails, DriftRaises, DeleteFails, RestoreFails, PerformFails, RecordFails,
       CallsFit, CallFits
  <2>4. /\ call' \in [Callers -> CallState]
        /\ log' \subseteq [place : Nat, question : Questions,
                           response : Nat, source : Sources]
        /\ prior' = prior /\ runs' = runs
    BY <2>1, <2>3, ReturnTyped DEF Sources
  <2>5. TypeOK'
    BY <2>2, <2>4, TapesTyped DEF TypeOK
  <2>6. CallsFit'
    BY <2>1, <2>2 DEF Return, Idle, TypeOK, CallsFit, CallFits
  <2>7. ReplayRecordsNothing'
    BY <2>2 DEF ReplayRecordsNothing
  <2> QED BY <2>5, <2>6, <2>7
<1>22. ASSUME NEW next \in {"open", "finished"}, Finish(next) PROVE all
  <2>1. TypeOK'
    BY <1>22, TapesTyped, UnplayedTyped DEF Finish, historyVars, TypeOK
  <2>2. CallsFit' /\ ReplayRecordsNothing'
    BY <1>22 DEF Finish, CallsFit, CallFits, ReplayRecordsNothing
  <2> QED BY <2>1, <2>2
<1>23. ASSUME Discard PROVE all
  <2>1. TypeOK'
    BY <1>23 DEF Discard, historyVars, TypeOK
  <2>2. CallsFit' /\ ReplayRecordsNothing'
    BY <1>23 DEF Discard, CallsFit, CallFits, ReplayRecordsNothing
  <2> QED BY <2>1, <2>2
<1>24. ASSUME Crash PROVE all
  <2>1. TypeOK'
    BY <1>24, IdleTyped DEF Crash, tapeVars, historyVars, TypeOK
  <2>2. CallsFit' /\ ReplayRecordsNothing'
    BY <1>24 DEF Crash, Idle, CallsFit, CallFits, ReplayRecordsNothing
  <2> QED BY <2>1, <2>2
<1>25. ASSUME UNCHANGED vars PROVE all
  <2>1. TypeOK'
    BY <1>25 DEF vars, recorderVars, tapeVars, historyVars, TypeOK
  <2>2. CallsFit' /\ ReplayRecordsNothing'
    BY <1>25 DEF vars, recorderVars, CallsFit, CallFits, ReplayRecordsNothing
  <2> QED BY <2>1, <2>2
<1> HIDE DEF all
<1>26. all
  BY <1>1, <1>2, <1>3, <1>4, <1>5, <1>6, <1>7, <1>8, <1>9, <1>10, <1>11, <1>12, <1>13,
     <1>14, <1>15, <1>16, <1>17, <1>18, <1>19, <1>20, <1>21, <1>22, <1>23, <1>24, <1>25
     DEF Next, Proceed
<1> QED BY <1>26 DEF all

\* The inductive invariant holds throughout.
LEMMA Invariance == Spec => []Inv
BY InvInit, InvStep, PTL DEF Spec

\* Type correctness, of every field of the recorder, the tapes and the calls.
THEOREM TypeCorrectness == Spec => []TypeOK
<1>1. Inv => TypeOK
  BY DEF Inv
<1> QED BY <1>1, Invariance, PTL

-----------------------------------------------------------------------------
(* The offline promise *)

\* No step of an open strict run reaches the model or touches the stored tape.
LEMMA OfflineStep ==
    Inv /\ [Next]_vars => (Strict(mode) /\ phase = "open" => live' = live /\ store' = store)
<1> SUFFICES ASSUME Inv, [Next]_vars, Strict(mode), phase = "open"
             PROVE  live' = live /\ store' = store
  OBVIOUS
<1>1. \A c \in Callers : call[c].step \in {"idle", "deciding", "missed"}
  BY DEF Inv, CallsFit, CallFits, Strict
<1>2. recorded = 0 /\ mode = "replay"
  BY DEF Inv, ReplayRecordsNothing, Strict
<1>3. ASSUME NEW m \in OpenModes, Open(m) PROVE FALSE
  BY <1>3 DEF Open
<1>4. ASSUME NEW c \in Callers, NEW q \in Questions, AskOff(c, q) \/ Ask(c, q)
      PROVE  live' = live /\ store' = store
  BY <1>4 DEF AskOff, Ask, tapeVars
<1>5. ASSUME NEW c \in Callers, Proceed(c) PROVE live' = live /\ store' = store
  <2>1. CASE ClaimHit(c) \/ ClaimMiss(c) \/ RefuseDrift(c) \/ RefuseMiss(c)
    BY <2>1 DEF ClaimHit, ClaimMiss, RefuseDrift, RefuseMiss
  <2>2. CASE Extend(c) \/ Drift(c) \/ Keep(c) \/ Delete(c) \/ Reset(c)
    BY <2>2, <1>1 DEF Extend, Drift, Keep, Delete, Reset, Strict
  <2>3. CASE RestoreStored(c) \/ RestoreCached(c) \/ DropStale(c) \/ Restored(c)
    BY <2>3, <1>1 DEF RestoreStored, RestoreCached, DropStale, Restored
  <2>4. CASE Perform(c) \/ Pass(c) \/ RecordStored(c) \/ RecordCounted(c)
    BY <2>4, <1>1 DEF Perform, Pass, RecordStored, RecordCounted
  <2> QED BY <1>5, <2>1, <2>2, <2>3, <2>4 DEF Proceed
<1>6. ASSUME NEW c \in Callers, Fails(c) PROVE live' = live /\ store' = store
  BY <1>6 DEF Fails, DriftRaises, DeleteFails, RestoreFails, PerformFails, RecordFails,
     tapeVars
<1>7. ASSUME NEW next \in {"open", "finished"}, Finish(next)
      PROVE  live' = live /\ store' = store
  BY <1>7 DEF Finish
<1>8. CASE Discard
  BY <1>8, <1>2 DEF Discard
<1>9. CASE Crash \/ UNCHANGED vars
  BY <1>9 DEF Crash, vars, tapeVars
<1> QED BY <1>3, <1>4, <1>5, <1>6, <1>7, <1>8, <1>9 DEF Next

\* REPLAY never reaches the network and never damages a committed cassette.
THEOREM OfflineReplay == Spec => ReplayIsOffline
<1>1. Inv /\ [Next]_vars => [Strict(mode) /\ phase = "open" => live' = live /\ store' = store]_vars
  BY OfflineStep
<1> QED BY <1>1, Invariance, PTL DEF Spec, ReplayIsOffline

-----------------------------------------------------------------------------
(* Answers are genuine *)

(* An interaction is genuine when its response is the model's answer to the  *)
(* question of its fingerprint.  That answers are genuine is inductive only  *)
(* together with the genuineness of everything an answer can come from: both *)
(* tapes, what a truncation keeps, and the replies about to be recorded.     *)
Genuine(interaction, answers) ==
    /\ interaction.response \in DOMAIN answers
    /\ answers[interaction.response] = interaction.fingerprint

GenuineTape(tape, answers) == \A i \in DOMAIN tape : Genuine(tape[i], answers)

GenuineCall(c, answers) ==
    /\ GenuineTape(call[c].kept, answers)
    /\ call[c].step \in {"answered", "taped"} => Genuine(NewInteraction(c), answers)

AnswersIn(answers) ==
    /\ GenuineTape(store, answers)
    /\ loaded # None => GenuineTape(loaded, answers)
    /\ \A c \in Callers : GenuineCall(c, answers)
    /\ \A e \in Answered : Genuine(Taped(e), answers)

AnswersGenuine == AnswersIn(live)

\* What is genuine stays so when the model answers another call.
LEMMA GenuineGrows ==
    ASSUME NEW q \in Questions, NEW answers \in Seq(Questions)
    PROVE  /\ \A i \in Interaction :
                Genuine(i, answers) => Genuine(i, Append(answers, q))
           /\ \A tape \in Seq(Interaction) :
                GenuineTape(tape, answers) => GenuineTape(tape, Append(answers, q))
<1>1. ASSUME NEW i, Genuine(i, answers) PROVE Genuine(i, Append(answers, q))
  BY <1>1 DEF Genuine
<1> QED BY <1>1 DEF GenuineTape

\* Tapes are extended with, and shortened to, genuine interactions.
LEMMA GenuineTapes ==
    ASSUME NEW answers, NEW tape \in Seq(Interaction), GenuineTape(tape, answers)
    PROVE  /\ \A i \in Interaction :
                Genuine(i, answers) => GenuineTape(Append(tape, i), answers)
           /\ tape # <<>> => /\ Genuine(Head(tape), answers)
                             /\ GenuineTape(Tail(tape), answers)
<1>1. ASSUME NEW i \in Interaction, Genuine(i, answers)
      PROVE  GenuineTape(Append(tape, i), answers)
  <2> SUFFICES ASSUME NEW k \in DOMAIN Append(tape, i)
               PROVE  Genuine(Append(tape, i)[k], answers)
    BY DEF GenuineTape
  <2>1. \/ k \in DOMAIN tape /\ Append(tape, i)[k] = tape[k]
        \/ Append(tape, i)[k] = i
    OBVIOUS
  <2> QED BY <1>1, <2>1 DEF GenuineTape
<1>2. ASSUME tape # <<>> PROVE Genuine(Head(tape), answers)
  <2>1. 1 \in DOMAIN tape /\ Head(tape) = tape[1]
    BY <1>2
  <2> QED BY <2>1 DEF GenuineTape
<1>3. ASSUME tape # <<>> PROVE GenuineTape(Tail(tape), answers)
  <2> SUFFICES ASSUME NEW k \in DOMAIN Tail(tape)
               PROVE  Genuine(Tail(tape)[k], answers)
    BY DEF GenuineTape
  <2>1. k + 1 \in DOMAIN tape /\ Tail(tape)[k] = tape[k + 1]
    BY <1>3
  <2> QED BY <2>1 DEF GenuineTape
<1> QED BY <1>1, <1>2, <1>3

\* The tape in memory, and what is added to it, is genuine.
LEMMA GenuineLoad ==
    ASSUME TypeOK, NEW answers, AnswersIn(answers)
    PROVE  /\ GenuineTape(Load, answers)
           /\ \A i \in Interaction : Genuine(i, answers) /\ Cached(i) # None
                => GenuineTape(Cached(i), answers)
<1>1. GenuineTape(Load, answers)
  BY DEF Load, AnswersIn
<1>2. ASSUME NEW i \in Interaction, Genuine(i, answers), Cached(i) # None
      PROVE  GenuineTape(Cached(i), answers)
  <2>1. loaded # None /\ Cached(i) = Append(loaded, i)
    BY <1>2 DEF Cached
  <2>2. loaded \in Seq(Interaction)
    BY <2>1 DEF TypeOK
  <2> QED BY <1>2, <2>1, <2>2, GenuineTapes DEF AnswersIn
<1> QED BY <1>1, <1>2

\* What was genuine before a step is so for the model's answers after it.
LEMMA GenuineLater ==
    ASSUME Inv, AnswersGenuine,
           live' = live \/ \E q \in Questions : live' = Append(live, q)
    PROVE  AnswersIn(live')
<1>1. CASE live' = live
  BY <1>1 DEF AnswersGenuine
<1>2. ASSUME NEW q \in Questions, live' = Append(live, q)
      PROVE  AnswersIn(live')
  <2>1. live \in Seq(Questions) /\ store \in Seq(Interaction)
    BY DEF Inv, TypeOK
  <2>2. GenuineTape(store, live')
    BY <1>2, <2>1, GenuineGrows DEF AnswersGenuine, AnswersIn
  <2>3. loaded # None => GenuineTape(loaded, live')
    BY <1>2, <2>1, GenuineGrows DEF AnswersGenuine, AnswersIn, Inv, TypeOK
  <2>4. ASSUME NEW c \in Callers PROVE GenuineCall(c, live')
    <3>1. call[c].kept \in Seq(Interaction)
      BY DEF Inv, TypeOK, CallState
    <3>2. GenuineTape(call[c].kept, live')
      BY <1>2, <2>1, <3>1, GenuineGrows DEF AnswersGenuine, AnswersIn, GenuineCall
    <3>3. call[c].step \in {"answered", "taped"} => Genuine(NewInteraction(c), live')
      BY <1>2, <2>1, GenuineGrows, NewInteractionTyped
         DEF AnswersGenuine, AnswersIn, GenuineCall, Inv
    <3> QED BY <3>2, <3>3 DEF GenuineCall
  <2>5. ASSUME NEW e \in Answered PROVE Genuine(Taped(e), live')
    <3>1. Genuine(Taped(e), live)
      BY DEF AnswersGenuine, AnswersIn
    <3> QED BY <1>2, <2>1, <3>1 DEF Genuine
  <2> QED BY <2>2, <2>3, <2>4, <2>5 DEF AnswersIn
<1> QED BY <1>1, <1>2

\* A caller that moves on leaves the other calls as they were.
LEMMA GenuineMove ==
    ASSUME TypeOK, AnswersIn(live'), NEW c \in Callers, NEW moved \in CallState,
           call' = [call EXCEPT ![c] = moved],
           GenuineTape(moved.kept, live'),
           moved.step \in {"answered", "taped"} =>
               Genuine([ordinal |-> moved.place, fingerprint |-> moved.question,
                        response |-> moved.reply], live')
    PROVE  \A d \in Callers : GenuineCall(d, live)'
<1> SUFFICES ASSUME NEW d \in Callers PROVE GenuineCall(d, live)'
  OBVIOUS
<1>1. CASE d = c
  <2>1. call'[d] = moved
    BY <1>1 DEF TypeOK
  <2> QED BY <2>1 DEF GenuineCall, NewInteraction
<1>2. CASE d # c
  <2>1. call'[d] = call[d]
    BY <1>2 DEF TypeOK
  <2> QED BY <2>1 DEF AnswersIn, GenuineCall, NewInteraction
<1> QED BY <1>1, <1>2

\* Going to a step other than those that hold a reply, or from one of them to
\* the other, carries nothing new.
LEMMA GenuineGoto ==
    ASSUME TypeOK, AnswersIn(live'), NEW c \in Callers, NEW step \in Steps,
           Goto(c, step),
           step \in {"answered", "taped"} => call[c].step \in {"answered", "taped"}
    PROVE  \A d \in Callers : GenuineCall(d, live)'
<1> DEFINE moved == [call[c] EXCEPT !.step = step]
<1>1. call[c] \in CallState
  BY DEF TypeOK
<1>2. /\ moved \in CallState
      /\ moved.kept = call[c].kept /\ moved.step = step /\ moved.place = call[c].place
      /\ moved.question = call[c].question /\ moved.reply = call[c].reply
  BY <1>1 DEF CallState
<1>3. call' = [call EXCEPT ![c] = moved]
  BY <1>1 DEF Goto, TypeOK, CallState
<1>4. GenuineTape(call[c].kept, live')
  BY DEF AnswersIn, GenuineCall
<1>5. step \in {"answered", "taped"} => Genuine(NewInteraction(c), live')
  BY DEF AnswersIn, GenuineCall
<1> HIDE DEF moved
<1> QED BY <1>2, <1>3, <1>4, <1>5, GenuineMove DEF NewInteraction

\* A caller that returns hands out a genuine answer, or none.
LEMMA GenuineReturn ==
    ASSUME TypeOK, AnswersIn(live'), NEW c \in Callers,
           NEW response, NEW source, Return(c, response, source),
           source \in {"tape", "live"} =>
               Genuine([ordinal |-> call[c].place, fingerprint |-> call[c].question,
                        response |-> response], live')
    PROVE  /\ \A d \in Callers : GenuineCall(d, live)'
           /\ \A e \in Answered' : Genuine(Taped(e), live)'
<1>1. \A d \in Callers : GenuineCall(d, live)'
  <2>1. call' = [call EXCEPT ![c] = Idle]
    BY DEF Return
  <2>2. GenuineTape(Idle.kept, live') /\ Idle.step = "idle"
    BY DEF Idle, GenuineTape
  <2> QED BY <2>1, <2>2, IdleTyped, GenuineMove
<1>2. ASSUME NEW e \in Answered' PROVE Genuine(Taped(e), live)'
  <2>1. CASE e \in log
    BY <2>1, <1>2 DEF Answered, AnswersIn, Taped
  <2>2. CASE e \notin log
    <3>1. e = [place |-> call[c].place, question |-> call[c].question,
               response |-> response, source |-> source]
      BY <2>2, <1>2 DEF Return, Answered
    <3>2. e.source \in {"tape", "live"}
      BY <1>2 DEF Answered
    <3> QED BY <3>1, <3>2 DEF Taped
  <2> QED BY <2>1, <2>2
<1> QED BY <1>1, <1>2

\* An empty tape holds nothing that could fail to be genuine.
LEMMA GenuineEmpty == \A answers : GenuineTape(<<>>, answers)
BY DEF GenuineTape

\* The model is asked one question at a time, and never forgets an answer.
LEMMA LiveGrows ==
    ASSUME Inv, Next
    PROVE  live' = live \/ \E q \in Questions : live' = Append(live, q)
<1>1. ASSUME NEW c \in Callers, Perform(c) \/ Pass(c)
      PROVE  \E q \in Questions : live' = Append(live, q)
  BY <1>1 DEF Perform, Pass, Inv, CallsFit, CallFits
<1>2. ASSUME NEW c \in Callers, Proceed(c), ~Perform(c), ~Pass(c)
      PROVE  live' = live
  BY <1>2 DEF Proceed, ClaimHit, ClaimMiss, RefuseDrift, RefuseMiss, Extend, Drift,
     Keep, Delete, Reset, RestoreStored, RestoreCached, DropStale, Restored,
     RecordStored, RecordCounted
<1>3. CASE \E m \in OpenModes : Open(m)
  BY <1>3 DEF Open
<1>4. CASE \E c \in Callers, q \in Questions : AskOff(c, q) \/ Ask(c, q)
  BY <1>4 DEF AskOff, Ask
<1>5. CASE \E c \in Callers : Fails(c)
  BY <1>5 DEF Fails, DriftRaises, DeleteFails, RestoreFails, PerformFails, RecordFails
<1>6. CASE (\E next \in {"open", "finished"} : Finish(next)) \/ Discard \/ Crash
  BY <1>6 DEF Finish, Discard, Crash
<1> QED BY <1>1, <1>2, <1>3, <1>4, <1>5, <1>6 DEF Next

\* Every step keeps every answer genuine.
LEMMA GenuineStep == Inv /\ Inv' /\ AnswersGenuine /\ [Next]_vars => AnswersGenuine'
<1> SUFFICES ASSUME Inv, Inv', AnswersGenuine, [Next]_vars PROVE AnswersIn(live)'
  BY DEF AnswersGenuine
<1> DEFINE all == /\ GenuineTape(store, live)'
                  /\ (loaded # None => GenuineTape(loaded, live))'
                  /\ \A d \in Callers : GenuineCall(d, live)'
                  /\ \A e \in Answered' : Genuine(Taped(e), live)'
<1>1. CASE UNCHANGED vars
  BY <1>1 DEF vars, tapeVars, historyVars, AnswersGenuine, AnswersIn, GenuineCall,
     NewInteraction, Answered, Taped
<1>2. CASE Next
  <2>1. TypeOK /\ AnswersIn(live')
    BY <1>2, LiveGrows, GenuineLater DEF Inv
  <2>2. GenuineTape(<<>>, live') /\ GenuineTape(Load, live')
    BY <2>1, GenuineEmpty, GenuineLoad
  <2>3. \A c \in Callers : GenuineCall(c, live')
    BY <2>1 DEF AnswersIn
  <2>4. ASSUME NEW m \in OpenModes, Open(m) PROVE all
    BY <2>1, <2>2, <2>4 DEF Open, AnswersIn, GenuineCall, NewInteraction, Answered
  <2>5. ASSUME NEW c \in Callers, NEW q \in Questions, AskOff(c, q) \/ Ask(c, q) PROVE all
    <3>1. \A d \in Callers : GenuineCall(d, live)'
      <4> DEFINE begun(step, place) == [step |-> step, question |-> q, place |-> place,
                                        reply |-> 0, kept |-> <<>>]
      <4>1. PICK step \in {"passing", "deciding", "performing"}, place \in Nat :
              call' = [call EXCEPT ![c] = begun(step, place)]
        BY <2>5, <2>1 DEF AskOff, Ask, Begin, NextOrdinal, TypeOK
      <4>2. begun(step, place) \in CallState
        BY DEF CallState, Steps
      <4> QED BY <2>1, <2>2, <4>1, <4>2, GenuineMove
    <3>2. UNCHANGED <<store, loaded, log>>
      BY <2>5 DEF AskOff, Ask, tapeVars, historyVars
    <3> QED BY <2>1, <3>1, <3>2 DEF AnswersIn, Answered, Taped
  <2>6. ASSUME NEW c \in Callers, ClaimHit(c) PROVE all
    <3> DEFINE found == Claimed(Load, served, call[c].place, call[c].question)
    <3>1. /\ Return(c, found.response, "tape") /\ loaded' = Load /\ store' = store
          /\ Answerable(Load, served, call[c].place, call[c].question)
      BY <2>6 DEF ClaimHit
    <3>2. PICK i \in DOMAIN Load : found = Load[i] /\ Load[i].fingerprint = call[c].question
      BY <2>1, <3>1, TapesTyped, ClaimedAnswers
    <3>3. Genuine([ordinal |-> call[c].place, fingerprint |-> call[c].question,
                   response |-> found.response], live')
      BY <2>2, <3>2 DEF GenuineTape, Genuine
    <3> HIDE DEF found
    <3>4. /\ \A d \in Callers : GenuineCall(d, live)'
          /\ \A e \in Answered' : Genuine(Taped(e), live)'
      BY <2>1, <3>1, <3>3, GenuineReturn
    <3> QED BY <2>1, <2>2, <3>1, <3>4 DEF AnswersIn
  <2>7. ASSUME NEW c \in Callers, ClaimMiss(c) \/ Extend(c) \/ Drift(c) PROVE all
    <3>1. \E step \in {"missed", "performing", "keeping"} : Goto(c, step)
      BY <2>7 DEF ClaimMiss, Extend, Drift
    <3>2. \A d \in Callers : GenuineCall(d, live)'
      BY <2>1, <3>1, GenuineGoto DEF Steps, Rewinding
    <3>3. store' = store /\ loaded' = Load /\ log' = log
      BY <2>7 DEF ClaimMiss, Extend, Drift, historyVars
    <3> QED BY <2>1, <2>2, <3>2, <3>3 DEF AnswersIn, Answered, Taped
  <2>8. ASSUME NEW c \in Callers, RefuseDrift(c) \/ RefuseMiss(c) PROVE all
    <3>1. \E source \in {"drift", "miss"} : Return(c, 0, source)
      BY <2>8 DEF RefuseDrift, RefuseMiss
    <3>2. /\ \A d \in Callers : GenuineCall(d, live)'
          /\ \A e \in Answered' : Genuine(Taped(e), live)'
      BY <2>1, <3>1, GenuineReturn
    <3>3. store' = store /\ loaded' = Load
      BY <2>8 DEF RefuseDrift, RefuseMiss
    <3> QED BY <2>1, <2>2, <3>2, <3>3 DEF AnswersIn
  <2>9. ASSUME NEW c \in Callers, Keep(c) PROVE all
    <3> DEFINE moved == [call[c] EXCEPT !.step = "deleting", !.kept = Load]
    <3>1. call[c] \in CallState
      BY <2>1 DEF TypeOK
    <3>2. moved \in CallState /\ moved.step = "deleting" /\ moved.kept = Load
      BY <2>1, <3>1, TapesTyped DEF CallState, Steps, Rewinding
    <3>3. call' = [call EXCEPT ![c] = moved]
      BY <2>1, <2>9, <3>1 DEF Keep, TypeOK, CallState
    <3> HIDE DEF moved
    <3>4. \A d \in Callers : GenuineCall(d, live)'
      BY <2>1, <2>2, <3>2, <3>3, GenuineMove
    <3>5. store' = store /\ loaded' = Load /\ log' = log
      BY <2>9 DEF Keep, historyVars
    <3> QED BY <2>1, <2>2, <3>4, <3>5 DEF AnswersIn, Answered, Taped
  <2>10. ASSUME NEW c \in Callers, Delete(c) \/ Reset(c) \/ Restored(c) PROVE all
    <3>1. \E step \in {"resetting", "restoring", "performing"} : Goto(c, step)
      BY <2>10 DEF Delete, Reset, Restored
    <3>2. \A d \in Callers : GenuineCall(d, live)'
      BY <2>1, <3>1, GenuineGoto DEF Steps, Rewinding
    <3>3. store' \in {store, <<>>} /\ loaded' \in {loaded, <<>>} /\ log' = log
      BY <2>10 DEF Delete, Reset, Restored, tapeVars, historyVars
    <3> QED BY <2>1, <2>2, <3>2, <3>3 DEF AnswersIn, Answered, Taped
  <2>11. ASSUME NEW c \in Callers, RestoreStored(c) PROVE all
    <3>1. call[c].kept \in Seq(Interaction) /\ call[c].kept # <<>>
      BY <2>11, <2>1 DEF RestoreStored, TypeOK, CallState
    <3>2. Head(call[c].kept) \in Interaction
      BY <3>1
    <3>3. Genuine(Head(call[c].kept), live')
      BY <2>3, <3>1, GenuineTapes DEF GenuineCall
    <3>4. GenuineTape(store', live')
      BY <2>1, <2>11, <3>2, <3>3, GenuineTapes DEF RestoreStored, TypeOK, AnswersIn
    <3>5. \A d \in Callers : GenuineCall(d, live)'
      BY <2>1, <2>11, GenuineGoto DEF RestoreStored, Steps, Rewinding
    <3>6. loaded' = loaded /\ log' = log
      BY <2>11 DEF RestoreStored, historyVars
    <3> QED BY <2>1, <3>4, <3>5, <3>6 DEF AnswersIn, Answered, Taped
  <2>12. ASSUME NEW c \in Callers, RestoreCached(c) \/ DropStale(c) PROVE all
    <3>1. call[c].kept \in Seq(Interaction) /\ call[c].kept # <<>>
      BY <2>12, <2>1 DEF RestoreCached, DropStale, TypeOK, CallState, Inv, CallsFit, CallFits
    <3>2. Head(call[c].kept) \in Interaction /\ Tail(call[c].kept) \in Seq(Interaction)
      BY <3>1
    <3>3. Genuine(Head(call[c].kept), live') /\ GenuineTape(Tail(call[c].kept), live')
      BY <2>3, <3>1, GenuineTapes DEF GenuineCall
    <3>4. call[c] \in CallState
      BY <2>1 DEF TypeOK
    <3>5. PICK moved \in CallState :
              /\ call' = [call EXCEPT ![c] = moved]
              /\ moved.step = "restoring" /\ moved.kept = Tail(call[c].kept)
      <4>1. CASE RestoreCached(c)
        <5> DEFINE next == [call[c] EXCEPT !.step = "restoring", !.kept = Tail(call[c].kept)]
        <5>1. /\ next \in CallState
              /\ next.step = "restoring" /\ next.kept = Tail(call[c].kept)
          BY <3>2, <3>4 DEF CallState, Steps, Rewinding
        <5>2. call' = [call EXCEPT ![c] = next]
          BY <2>1, <3>4, <4>1 DEF RestoreCached, TypeOK, CallState
        <5> HIDE DEF next
        <5> QED BY <5>1, <5>2
      <4>2. CASE DropStale(c)
        <5> DEFINE next == [call[c] EXCEPT !.kept = Tail(call[c].kept)]
        <5>1. /\ next \in CallState
              /\ next.step = "restoring" /\ next.kept = Tail(call[c].kept)
          BY <3>2, <3>4, <4>2 DEF DropStale, CallState
        <5>2. call' = [call EXCEPT ![c] = next]
          BY <2>1, <3>4, <4>2 DEF DropStale, TypeOK, CallState
        <5> HIDE DEF next
        <5> QED BY <5>1, <5>2
      <4> QED BY <2>12, <4>1, <4>2
    <3>6. \A d \in Callers : GenuineCall(d, live)'
      BY <2>1, <3>3, <3>5, GenuineMove
    <3>7. /\ store' = store /\ log' = log
          /\ loaded' \in {loaded, Cached(Head(call[c].kept))}
      BY <2>12 DEF RestoreCached, DropStale, tapeVars, historyVars
    <3>8. loaded' # None => GenuineTape(loaded', live')
      BY <2>1, <3>2, <3>3, <3>7, GenuineLoad DEF AnswersIn
    <3> QED BY <2>1, <3>6, <3>7, <3>8 DEF AnswersIn, Answered, Taped
  <2>13. ASSUME NEW c \in Callers, Perform(c) PROVE all
    <3> DEFINE moved == [call[c] EXCEPT !.step = "answered", !.reply = Len(live')]
    <3>1. call[c] \in CallState /\ call[c].question \in Questions /\ live \in Seq(Questions)
      BY <2>1, <2>13 DEF Perform, TypeOK, Inv, CallsFit, CallFits
    <3>2. /\ live' = Append(live, call[c].question) /\ Len(live') \in Nat
          /\ Len(live') \in DOMAIN live' /\ live'[Len(live')] = call[c].question
      BY <2>13, <3>1 DEF Perform
    <3>3. /\ moved \in CallState /\ moved.kept = call[c].kept
          /\ moved.question = call[c].question /\ moved.reply = Len(live')
      BY <3>1, <3>2 DEF CallState, Steps
    <3>4. call' = [call EXCEPT ![c] = moved]
      BY <2>1, <2>13, <3>1 DEF Perform, TypeOK, CallState
    <3> HIDE DEF moved
    <3>5. Genuine([ordinal |-> moved.place, fingerprint |-> moved.question,
                   response |-> moved.reply], live')
      BY <3>2, <3>3 DEF Genuine
    <3>6. \A d \in Callers : GenuineCall(d, live)'
      BY <2>1, <2>3, <3>3, <3>4, <3>5, GenuineMove DEF GenuineCall
    <3>7. UNCHANGED <<store, loaded, log>>
      BY <2>13 DEF Perform, tapeVars, historyVars
    <3> QED BY <2>1, <3>6, <3>7 DEF AnswersIn, Answered, Taped
  <2>14. ASSUME NEW c \in Callers, Pass(c) PROVE all
    <3>1. call[c].question \in Questions /\ live \in Seq(Questions)
      BY <2>1, <2>14 DEF Pass, TypeOK, Inv, CallsFit, CallFits
    <3>2. /\ live' = Append(live, call[c].question) /\ Return(c, Len(live'), "live")
          /\ UNCHANGED <<store, loaded>>
      BY <2>14 DEF Pass, tapeVars
    <3>3. Len(live') \in DOMAIN live' /\ live'[Len(live')] = call[c].question
      BY <3>1, <3>2
    <3>4. /\ \A d \in Callers : GenuineCall(d, live)'
          /\ \A e \in Answered' : Genuine(Taped(e), live)'
      BY <2>1, <3>2, <3>3, GenuineReturn DEF Genuine
    <3> QED BY <2>1, <3>2, <3>4 DEF AnswersIn
  <2>15. ASSUME NEW c \in Callers, RecordStored(c) PROVE all
    <3>1. NewInteraction(c) \in Interaction /\ Genuine(NewInteraction(c), live')
      BY <2>3, <2>15, NewInteractionTyped DEF RecordStored, GenuineCall, Inv
    <3>2. GenuineTape(store', live')
      BY <2>1, <2>15, <3>1, GenuineTapes DEF RecordStored, TypeOK, AnswersIn
    <3>3. \A d \in Callers : GenuineCall(d, live)'
      BY <2>1, <2>15, GenuineGoto DEF RecordStored, Steps
    <3>4. loaded' = loaded /\ log' = log
      BY <2>15 DEF RecordStored, historyVars
    <3> QED BY <2>1, <3>2, <3>3, <3>4 DEF AnswersIn, Answered, Taped
  <2>16. ASSUME NEW c \in Callers, RecordCounted(c) PROVE all
    <3>1. NewInteraction(c) \in Interaction /\ Genuine(NewInteraction(c), live')
      BY <2>3, <2>16, NewInteractionTyped DEF RecordCounted, GenuineCall, Inv
    <3>2. /\ loaded' = Cached(NewInteraction(c)) /\ store' = store
          /\ Return(c, call[c].reply, "live")
      BY <2>16 DEF RecordCounted
    <3>3. loaded' # None => GenuineTape(loaded', live')
      BY <2>1, <3>1, <3>2, GenuineLoad
    <3>4. /\ \A d \in Callers : GenuineCall(d, live)'
          /\ \A e \in Answered' : Genuine(Taped(e), live)'
      BY <2>1, <3>1, <3>2, GenuineReturn DEF NewInteraction
    <3> QED BY <2>1, <3>2, <3>3, <3>4 DEF AnswersIn
  <2>17. ASSUME NEW c \in Callers, Fails(c) PROVE all
    <3>1. PICK source \in {"failed", "unrepaired", "halfway"} : Return(c, 0, source)
      BY <2>17 DEF Fails, DriftRaises, DeleteFails, RestoreFails, PerformFails, RecordFails
    <3>2. store' = store /\ loaded' \in {loaded, Load}
      BY <2>17 DEF Fails, DriftRaises, DeleteFails, RestoreFails, PerformFails, RecordFails,
         tapeVars
    <3>3. /\ \A d \in Callers : GenuineCall(d, live)'
          /\ \A e \in Answered' : Genuine(Taped(e), live)'
      BY <2>1, <3>1, GenuineReturn
    <3> QED BY <2>1, <2>2, <3>2, <3>3 DEF AnswersIn
  <2>18. ASSUME (\E next \in {"open", "finished"} : Finish(next)) \/ Discard PROVE all
    <3>1. /\ store' \in {store, <<>>} /\ loaded' \in {loaded, Load, None}
          /\ call' = call /\ log' = log
      BY <2>18 DEF Finish, Discard, historyVars
    <3> QED BY <2>1, <2>2, <3>1 DEF AnswersIn, GenuineCall, NewInteraction, Answered, Taped
  <2>19. ASSUME Crash PROVE all
    <3>1. /\ UNCHANGED <<store, loaded, log>> /\ call' = [c \in Callers |-> Idle]
      BY <2>19 DEF Crash, tapeVars, historyVars
    <3>2. \A d \in Callers : GenuineCall(d, live)'
      BY <2>2, <3>1 DEF GenuineCall, Idle
    <3> QED BY <2>1, <3>1, <3>2 DEF AnswersIn, Answered, Taped
  <2> HIDE DEF all
  <2>20. all
    BY <1>2, <2>4, <2>5, <2>6, <2>7, <2>8, <2>9, <2>10, <2>11, <2>12, <2>13, <2>14,
       <2>15, <2>16, <2>17, <2>18, <2>19 DEF Next, Proceed
  <2> QED BY <2>20 DEF all, AnswersIn
<1> QED BY <1>1, <1>2 DEF AnswersGenuine

\* Every answer handed to a caller, from the tape or live, in whatever run,
\* place and schedule, is the model's answer to the very question asked.
THEOREM GenuineAnswers == Spec => []AnswerIsForThisQuestion
<1>1. Init => AnswersGenuine
  BY DEF Init, AnswersGenuine, AnswersIn, GenuineTape, GenuineCall, Idle, Answered
<1>2. AnswersGenuine => AnswerIsForThisQuestion
  BY DEF AnswersGenuine, AnswersIn, Genuine, Taped, AnswerIsForThisQuestion
<1> QED BY <1>1, <1>2, GenuineStep, Invariance, PTL DEF Spec

=============================================================================
