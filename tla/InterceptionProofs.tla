------------------------- MODULE InterceptionProofs -------------------------
(* Theorems about Interception, for any number of workers, coroutines and    *)
(* calls in progress: who has the marker, and what of it reaches the tape.   *)
EXTENDS Interception, PositionsProofs, FiniteSetTheorems

(* The inductive invariant, in parts. *)

\* What one call in progress at t says of itself: it has the marker unless it is
\* a sync generator or found the thread marked, and a call that a worker makes
\* on its own finds its thread unmarked.
FrameFits(t, f, held) ==
    /\ f.outer <=> f.routed /\ f.wrapper # "gen"
    /\ f.outer => f.thread \in held
    /\ f.thread \in {Home(t), Executor(t)}
    /\ t \in Workers => /\ f.thread = Home(t) /\ f.wrapper \in SyncWrappers
                        /\ f.nested \/ f.routed
    /\ f.step = "yielded" => f.wrapper \in Streams /\ ~f.nested

FramesFit == \A t \in Tasks : \A i \in DOMAIN stack[t] : FrameFits(t, stack[t][i], active \ orphans)

\* No two calls have the same marker.
OneHolder ==
    \A t, u \in Tasks : \A i \in DOMAIN stack[t], j \in DOMAIN stack[u] :
        /\ stack[t][i].outer /\ stack[u][j].outer
        /\ stack[t][i].thread = stack[u][j].thread
        => t = u /\ i = j

\* A marked thread has a call to unmark it, or an abandoned stream, which no
\* worker leaves behind.
MarkersHeld ==
    /\ orphans \subseteq active
    /\ \A t \in Workers : Home(t) \notin orphans
    /\ \A thread \in active \ orphans : \E t \in Tasks : \E i \in DOMAIN stack[t] :
          stack[t][i].outer /\ stack[t][i].thread = thread

\* Under a call that no original made there are only streams between two chunks.
Shape ==
    \A t \in Tasks :
        /\ stack[t] # <<>> => ~stack[t][1].nested
        /\ \A i, j \in DOMAIN stack[t] :
              i < j /\ ~stack[t][j].nested => stack[t][i].step = "yielded"

\* A call above one that has the marker of its thread goes around the recorder.
Layers ==
    \A t \in Tasks : \A i, j \in DOMAIN stack[t] :
        i < j /\ stack[t][i].outer /\ stack[t][i].thread = stack[t][j].thread
        => ~stack[t][j].routed

Bounded == IsFiniteSet(InProgress) /\ \A t \in Tasks : Len(stack[t]) <= MaxCalls

MarkInv == TypeOK /\ FramesFit /\ OneHolder /\ MarkersHeld /\ Shape /\ Layers /\ Bounded

-----------------------------------------------------------------------------
(* Threads and stacks *)

\* Threads of different tasks are different, but for the event loop.
LEMMA ThreadsDiffer ==
    /\ \A t \in Workers : Home(t) = <<"worker", t>>
    /\ \A t \in Workers, u \in Tasks :
          Home(t) = Home(u) \/ Home(t) = Executor(u) => t = u
    /\ \A t \in Coroutines : Home(t) = Loop
<1>1. ASSUME NEW t \in Workers PROVE Home(t) = <<"worker", t>>
  BY <1>1, TasksAssumption DEF Home
<1>2. \A t \in Coroutines : Home(t) = Loop
  BY DEF Home
<1>3. ASSUME NEW t \in Workers, NEW u \in Tasks, Home(t) = Home(u) \/ Home(t) = Executor(u)
      PROVE  t = u
  <2>1. Home(t) = <<"worker", t>>
    BY <1>1
  <2>2. <<"worker", t>> # Executor(u)
    BY DEF Executor
  <2>3. <<"worker", t>> # Loop
    BY DEF Loop
  <2> QED BY <1>3, <2>1, <2>2, <2>3 DEF Home
<1> QED BY <1>1, <1>2, <1>3

\* The same calls, apart from what the innermost one is doing.
Alike(s, base) ==
    /\ base \in Seq(Frame) /\ Len(base) = Len(s)
    /\ \A i \in DOMAIN s :
          /\ base[i].wrapper = s[i].wrapper /\ base[i].thread = s[i].thread
          /\ base[i].outer = s[i].outer /\ base[i].routed = s[i].routed
          /\ base[i].nested = s[i].nested
          /\ i < Len(s) => base[i].step = s[i].step

\* What the innermost call is doing changes nothing else.
LEMMA TopMoves ==
    ASSUME NEW s \in Seq(Frame), s # <<>>,
           NEW step \in {"running", "asking", "awaiting", "yielded"}
    PROVE  /\ Alike(s, [s EXCEPT ![Len(s)].step = step])
           /\ [s EXCEPT ![Len(s)].step = step][Len(s)].step = step
<1> DEFINE top == [s[Len(s)] EXCEPT !.step = step]
           base == [s EXCEPT ![Len(s)] = top]
<1>1. Len(s) \in DOMAIN s /\ s[Len(s)] \in Frame
  OBVIOUS
<1>2. /\ top \in Frame /\ top.step = step
      /\ top.wrapper = s[Len(s)].wrapper /\ top.thread = s[Len(s)].thread
      /\ top.outer = s[Len(s)].outer /\ top.routed = s[Len(s)].routed
      /\ top.nested = s[Len(s)].nested
  BY <1>1 DEF Frame
<1> HIDE DEF top
<1>3. base \in Seq(Frame) /\ Len(base) = Len(s)
  BY <1>1, <1>2
<1>4. base[Len(s)] = top /\ \A i \in DOMAIN s : i # Len(s) => base[i] = s[i]
  BY <1>1
<1>5. Alike(s, base) /\ base[Len(s)].step = step
  BY <1>2, <1>3, <1>4 DEF Alike
<1> QED BY <1>5 DEF top

\* The calls in progress are as many as their bound allows another of.
LEMMA RoomForOne ==
    ASSUME TypeOK, Bounded, NEW t \in Tasks, Cardinality(InProgress) < MaxCalls
    PROVE  Len(stack[t]) < MaxCalls
<1> DEFINE n == Len(stack[t])
           place == [i \in 1..n |-> <<t, i>>]
<1>1. n \in Nat /\ DOMAIN stack[t] = 1..n /\ n <= MaxCalls
  BY DEF TypeOK, Bounded
<1>2. place \in Injection(1..n, InProgress)
  <2>1. \A i \in 1..n : <<t, i>> \in InProgress
    BY <1>1, BoundAssumption DEF InProgress
  <2>2. place \in [1..n -> InProgress]
    BY <2>1
  <2>3. \A i, j \in 1..n : place[i] = place[j] => i = j
    OBVIOUS
  <2> QED BY <2>2, <2>3 DEF Injection, IsInjective
<1>3. Cardinality(1..n) <= Cardinality(InProgress)
  <2> HIDE DEF place, n
  <2> QED BY <1>2, FS_Injection DEF Bounded
<1>4. Cardinality(1..n) = IF 1 > n THEN 0 ELSE n - 1 + 1
  <2>1. 1 \in Int /\ n \in Int
    BY <1>1
  <2> HIDE DEF n
  <2> QED BY <2>1, FS_Interval
<1>5. Cardinality(InProgress) \in Nat
  BY FS_CardinalityType DEF Bounded
<1> HIDE DEF n
<1>6. n < MaxCalls
  BY <1>1, <1>3, <1>4, <1>5, BoundAssumption
<1> QED BY <1>6 DEF n

-----------------------------------------------------------------------------
(* The steps *)

\* A worker that makes a call of its own finds its thread unmarked: what it has in
\* progress is sync streams, and those do not keep the marker.
LEMMA WorkerUnmarked ==
    ASSUME MarkInv, NEW t \in Workers, stack[t] = <<>> \/ Is(t, "yielded")
    PROVE  Home(t) \notin active
<1> SUFFICES ASSUME Home(t) \in active PROVE FALSE
  OBVIOUS
<1>1. t \in Tasks
  BY DEF Tasks
<1>2. PICK u \in Tasks : \E i \in DOMAIN stack[u] :
         stack[u][i].outer /\ stack[u][i].thread = Home(t)
  BY DEF MarkInv, MarkersHeld
<1>3. PICK i \in DOMAIN stack[u] : stack[u][i].outer /\ stack[u][i].thread = Home(t)
  BY <1>2
<1>4. FrameFits(u, stack[u][i], active \ orphans)
  BY DEF MarkInv, FramesFit
<1>5. u = t
  BY <1>3, <1>4, ThreadsDiffer DEF FrameFits
<1>6. stack[t] \in Seq(Frame) /\ i \in DOMAIN stack[t]
  BY <1>1, <1>5 DEF MarkInv, TypeOK
<1>7. Len(stack[t]) \in DOMAIN stack[t] /\ i <= Len(stack[t]) /\ i \in Nat
  BY <1>6
<1>8. stack[t][Len(stack[t])].step = "yielded"
  BY <1>6 DEF Is, Top
<1>9. stack[t][i].step = "yielded"
  <2>1. FrameFits(t, stack[t][Len(stack[t])], active \ orphans)
    BY <1>1, <1>7 DEF MarkInv, FramesFit
  <2>2. ~stack[t][Len(stack[t])].nested
    BY <1>8, <2>1 DEF FrameFits
  <2>3. CASE i < Len(stack[t])
    BY <1>1, <1>6, <1>7, <2>2, <2>3 DEF MarkInv, Shape
  <2> QED BY <1>7, <1>8, <2>3
<1> QED BY <1>3, <1>4, <1>5, <1>9 DEF FrameFits, Streams, SyncWrappers

\* One more call in progress, or fewer, stays a finite number.
LEMMA StillBounded ==
    ASSUME TypeOK, Bounded, NEW t \in Tasks, stack'[t] \in Seq(Frame),
           \A u \in Tasks \ {t} : stack'[u] = stack[u],
           \/ Len(stack'[t]) <= Len(stack[t])
           \/ Len(stack'[t]) = Len(stack[t]) + 1 /\ Len(stack[t]) < MaxCalls
    PROVE  Bounded'
<1> DEFINE at == <<t, Len(stack[t]) + 1>>
<1>1. stack[t] \in Seq(Frame) /\ Len(stack[t]) \in Nat /\ Len(stack'[t]) \in Nat
  BY DEF TypeOK
<1>2. InProgress' \subseteq InProgress \cup {at}
  <2> SUFFICES ASSUME NEW u \in Tasks, NEW i \in 1..MaxCalls, i \in DOMAIN stack'[u],
                      i \notin DOMAIN stack[u]
               PROVE  <<u, i>> = at
    BY DEF InProgress
  <2> QED BY <1>1, BoundAssumption
<1>3. IsFiniteSet(InProgress \cup {at})
  BY FS_AddElement DEF Bounded
<1>4. IsFiniteSet(InProgress')
  <2> HIDE DEF at
  <2> QED BY <1>2, <1>3, FS_Subset
<1>5. \A u \in Tasks : Len(stack'[u]) <= MaxCalls
  BY <1>1, BoundAssumption DEF Bounded
<1> QED BY <1>4, <1>5 DEF Bounded

\* Entering a wrapper keeps the invariant.
LEMMA EnterStep ==
    ASSUME MarkInv, NEW t \in Tasks, NEW w \in Wrappers, NEW thread \in Threads,
           NEW nested \in BOOLEAN, NEW base, Alike(stack[t], base),
           Enter(t, w, thread, nested, base),
           Cardinality(InProgress) < MaxCalls,
           thread \in {Home(t), Executor(t)},
           t \in Workers => thread = Home(t) /\ w \in SyncWrappers,
           stack[t] # <<>> /\ base[Len(base)].step = "yielded" => Is(t, "yielded"),
           IF nested THEN stack[t] # <<>>
           ELSE (stack[t] = <<>> \/ Is(t, "yielded")) /\ base = stack[t]
    PROVE  MarkInv'
<1> USE DEF MarkInv
<1> DEFINE n == Len(stack[t])
<1>1. PICK fromTape \in FromTape :
         /\ stack' = [stack EXCEPT ![t] = Append(base,
                 [wrapper |-> w, thread |-> thread,
                  outer |-> thread \notin active /\ w # "gen", routed |-> thread \notin active,
                  replayed |-> thread \notin active /\ fromTape, nested |-> nested,
                  step |-> "running"])]
         /\ active' = IF thread \notin active /\ w # "gen" THEN active \cup {thread} ELSE active
         /\ UNCHANGED <<mode, orphans>>
  BY DEF Enter
<1> DEFINE f == [wrapper |-> w, thread |-> thread,
                 outer |-> thread \notin active /\ w # "gen", routed |-> thread \notin active,
                 replayed |-> thread \notin active /\ fromTape, nested |-> nested,
                 step |-> "running"]
<1>2. /\ f \in Frame /\ f.wrapper = w /\ f.thread = thread /\ f.nested = nested
      /\ f.step = "running" /\ (f.outer <=> thread \notin active /\ w # "gen")
      /\ (f.routed <=> thread \notin active)
  BY DEF Frame, FromTape
<1>3. stack' = [stack EXCEPT ![t] = Append(base, f)]
  BY <1>1
<1> HIDE DEF f
<1>4. /\ stack[t] \in Seq(Frame) /\ n \in Nat /\ DOMAIN stack[t] = 1..n
      /\ base \in Seq(Frame) /\ Len(base) = n /\ DOMAIN base = 1..n
  BY DEF Alike, TypeOK
<1>5. /\ stack'[t] \in Seq(Frame) /\ Len(stack'[t]) = n + 1 /\ DOMAIN stack'[t] = 1..(n + 1)
      /\ stack'[t][n + 1] = f
      /\ \A i \in 1..n : stack'[t][i] = base[i]
      /\ \A u \in Tasks \ {t} : stack'[u] = stack[u]
  <2>1. /\ stack'[t] \in Seq(Frame) /\ Len(stack'[t]) = Len(base) + 1
        /\ stack'[t][Len(base) + 1] = f
        /\ \A i \in DOMAIN base : stack'[t][i] = base[i]
        /\ \A u \in Tasks \ {t} : stack'[u] = stack[u]
    <3>1. stack'[t] = Append(base, f) /\ \A u \in Tasks \ {t} : stack'[u] = stack[u]
      BY <1>3 DEF TypeOK
    <3>2. base \in Seq(Frame) /\ f \in Frame
      BY <1>2, <1>4
    <3> QED BY <3>1, <3>2
  <2> HIDE DEF n
  <2> QED BY <1>4, <2>1
<1>6. \A i \in 1..n :
          /\ stack'[t][i].wrapper = stack[t][i].wrapper
          /\ stack'[t][i].thread = stack[t][i].thread
          /\ stack'[t][i].outer = stack[t][i].outer
          /\ stack'[t][i].routed = stack[t][i].routed
          /\ stack'[t][i].nested = stack[t][i].nested
          /\ i < n => stack'[t][i].step = stack[t][i].step
  <2>1. \A i \in 1..n :
           /\ base[i].wrapper = stack[t][i].wrapper /\ base[i].thread = stack[t][i].thread
           /\ base[i].outer = stack[t][i].outer /\ base[i].routed = stack[t][i].routed
           /\ base[i].nested = stack[t][i].nested
           /\ i < n => base[i].step = stack[t][i].step
    BY <1>4 DEF Alike
  <2> HIDE DEF f, n
  <2> QED BY <1>5, <2>1
<1>6a. \A i \in 1..n : stack'[t][i].step = "yielded" => stack[t][i].step = "yielded"
  <2>1. n # 0 /\ stack'[t][n].step = "yielded" => stack[t][n].step = "yielded"
    BY <1>4, <1>5 DEF Is, Top
  <2> HIDE DEF n
  <2> QED BY <1>4, <1>6, <2>1
<1> HIDE DEF n
<1>7. active' = (IF f.outer THEN active \cup {thread} ELSE active) /\ orphans' = orphans
  BY <1>1, <1>2
<1>8. TypeOK'
  <2>1. stack' \in [Tasks -> Seq(Frame)]
    BY <1>3, <1>5 DEF TypeOK
  <2> QED BY <1>1, <1>7, <2>1 DEF TypeOK
<1>9. FramesFit'
  <2>1. ASSUME NEW u \in Tasks, NEW i \in DOMAIN stack[u]
        PROVE  FrameFits(u, stack[u][i], active \ orphans)
    BY DEF FramesFit
  <2>2. ASSUME NEW u \in Tasks \ {t}, NEW i \in DOMAIN stack'[u]
        PROVE  FrameFits(u, stack'[u][i], active' \ orphans')
    BY <1>5, <1>7, <2>1 DEF FrameFits
  <2>3. ASSUME NEW i \in 1..n
        PROVE  FrameFits(t, stack'[t][i], active' \ orphans')
    BY <1>4, <1>6, <1>7, <1>6a, <2>1 DEF FrameFits
  <2>4. FrameFits(t, f, active' \ orphans')
    <3>1. thread \notin active => thread \notin orphans
      BY DEF MarkersHeld
    <3>2. ASSUME t \in Workers, ~nested PROVE f.routed
      BY <1>2, <3>2, WorkerUnmarked
    <3> QED BY <1>2, <1>7, <3>1, <3>2 DEF FrameFits
  <2>5. \A i \in DOMAIN stack'[t] : FrameFits(t, stack'[t][i], active' \ orphans')
    BY <1>4, <1>5, <2>3, <2>4
  <2> QED BY <2>2, <2>5 DEF FramesFit
<1>10. OneHolder'
  <2>1. ASSUME NEW u \in Tasks, NEW i \in DOMAIN stack[u], stack[u][i].outer, f.outer
        PROVE  stack[u][i].thread # thread
    BY <1>2, <2>1 DEF FramesFit, FrameFits
  <2>2. ASSUME NEW u \in Tasks, NEW i \in DOMAIN stack'[u]
        PROVE  \/ u = t /\ i = n + 1 /\ stack'[u][i] = f
               \/ /\ i \in DOMAIN stack[u] /\ stack'[u][i].outer = stack[u][i].outer
                  /\ stack'[u][i].thread = stack[u][i].thread
    BY <1>4, <1>5, <1>6
  <2> QED BY <1>2, <2>1, <2>2 DEF OneHolder
<1>11. MarkersHeld'
  <2>1. ASSUME NEW u \in Tasks, NEW i \in DOMAIN stack[u]
        PROVE  /\ i \in DOMAIN stack'[u] /\ stack'[u][i].outer = stack[u][i].outer
               /\ stack'[u][i].thread = stack[u][i].thread
    <3>1. CASE u # t
      BY <1>5, <3>1
    <3>2. CASE u = t
      <4>1. i \in 1..n /\ i \in 1..(n + 1)
        BY <1>4, <3>2
      <4> QED BY <1>5, <1>6, <3>2, <4>1
    <3> QED BY <3>1, <3>2
  <2>2. f.outer => \E i \in DOMAIN stack'[t] : stack'[t][i].outer /\ stack'[t][i].thread = thread
    BY <1>2, <1>4, <1>5
  <2> QED BY <1>7, <2>1, <2>2 DEF MarkersHeld
<1>12. Shape'
  <2>1. ~stack'[t][1].nested
    <3>1. CASE n = 0
      BY <1>2, <1>4, <1>5, <3>1
    <3>2. CASE n # 0
      BY <1>4, <1>6, <3>2 DEF Shape
    <3> QED BY <3>1, <3>2
  <2>2. ASSUME NEW i \in 1..(n + 1), NEW j \in 1..(n + 1), i < j, ~stack'[t][j].nested
        PROVE  stack'[t][i].step = "yielded"
    <3>1. CASE j \in 1..n
      BY <1>4, <1>6, <2>2, <3>1 DEF Shape
    <3>2. CASE j = n + 1
      <4>1. ~nested /\ i \in 1..n /\ n # 0
        BY <1>2, <1>4, <1>5, <2>2, <3>2
      <4>2. base = stack[t] /\ stack[t][n].step = "yielded" /\ n \in DOMAIN stack[t]
        BY <1>4, <4>1 DEF Is, Top, n
      <4>3. ~stack[t][n].nested
        BY <4>2 DEF FramesFit, FrameFits
      <4>4. stack[t][i].step = "yielded"
        BY <1>4, <4>1, <4>2, <4>3 DEF Shape
      <4> QED BY <1>5, <4>1, <4>2, <4>4
    <3> QED BY <1>4, <3>1, <3>2
  <2> QED BY <1>5, <2>1, <2>2 DEF Shape
<1>13. Layers'
  <2>1. ASSUME NEW i \in 1..n, stack[t][i].outer, stack[t][i].thread = thread
        PROVE  ~f.routed
    BY <1>2, <1>4, <2>1 DEF FramesFit, FrameFits
  <2>2. ASSUME NEW i \in 1..(n + 1), NEW j \in 1..(n + 1), i < j, stack'[t][i].outer,
               stack'[t][i].thread = stack'[t][j].thread
        PROVE  ~stack'[t][j].routed
    <3>1. CASE j \in 1..n
      BY <1>4, <1>6, <2>2, <3>1 DEF Layers
    <3>2. CASE j = n + 1
      <4>1. stack'[t][j] = f /\ i \in 1..n
        BY <1>4, <1>5, <2>2, <3>2
      <4>2. stack[t][i].outer /\ stack[t][i].thread = thread
        BY <1>2, <1>6, <2>2, <4>1
      <4> QED BY <2>1, <4>1, <4>2
    <3> QED BY <1>4, <3>1, <3>2
  <2> QED BY <1>5, <2>2 DEF Layers
<1>14. Bounded'
  <2>1. n < MaxCalls
    BY RoomForOne DEF n
  <2> QED BY <1>5, <2>1, StillBounded DEF n
<1> QED BY <1>8, <1>9, <1>10, <1>11, <1>12, <1>13, <1>14

\* The innermost call does something else, or leaves.
Moves(t, step) == stack' = [stack EXCEPT ![t][Len(stack[t])].step = step]

Leaves(t) == stack' = [stack EXCEPT ![t] = SubSeq(@, 1, Len(@) - 1)]

\* So does whatever only changes what the innermost call is doing.
LEMMA TopStep ==
    ASSUME MarkInv, NEW t \in Tasks, stack[t] # <<>>,
           NEW step \in {"running", "asking", "awaiting", "yielded"},
           step = "yielded" => Top(t).wrapper \in Streams /\ ~Top(t).nested,
           Moves(t, step),
           UNCHANGED <<mode, active, orphans>>
    PROVE  MarkInv'
<1> USE DEF MarkInv
<1> DEFINE base == [stack[t] EXCEPT ![Len(stack[t])].step = step]
           n == Len(stack[t])
<1>1. stack[t] \in Seq(Frame) /\ n \in Nat \ {0} /\ DOMAIN stack[t] = 1..n
  BY DEF TypeOK
<1>2. Alike(stack[t], base) /\ base[n].step = step
  BY <1>1, TopMoves
<1>3. stack'[t] = base /\ \A u \in Tasks \ {t} : stack'[u] = stack[u]
  BY DEF TypeOK, Moves
<1>4. stack' = [stack EXCEPT ![t] = base]
  BY DEF TypeOK, Moves
<1> HIDE DEF base, n
<1>5. /\ stack'[t] \in Seq(Frame) /\ Len(stack'[t]) = n /\ DOMAIN stack'[t] = 1..n
      /\ \A i \in 1..n :
            /\ stack'[t][i].wrapper = stack[t][i].wrapper
            /\ stack'[t][i].thread = stack[t][i].thread
            /\ stack'[t][i].outer = stack[t][i].outer
            /\ stack'[t][i].routed = stack[t][i].routed
            /\ stack'[t][i].nested = stack[t][i].nested
            /\ i < n => stack'[t][i].step = stack[t][i].step
      /\ stack'[t][n].step = step
  BY <1>1, <1>2, <1>3 DEF Alike, n
<1>6. TypeOK'
  <2>1. stack' \in [Tasks -> Seq(Frame)]
    BY <1>3, <1>4, <1>5 DEF TypeOK
  <2> QED BY <2>1 DEF TypeOK
<1>7. FramesFit'
  <2>1. ASSUME NEW u \in Tasks, NEW i \in DOMAIN stack[u]
        PROVE  FrameFits(u, stack[u][i], active \ orphans)
    BY DEF FramesFit
  <2>2. ASSUME NEW i \in 1..n PROVE FrameFits(t, stack'[t][i], active' \ orphans')
    <3>1. CASE i = n
      BY <1>1, <1>5, <2>1, <3>1 DEF FrameFits, Top, n
    <3>2. CASE i < n
      BY <1>1, <1>5, <2>1, <3>2 DEF FrameFits
    <3> QED BY <1>1, <3>1, <3>2
  <2> QED BY <1>3, <1>5, <2>1, <2>2 DEF FramesFit
<1>8. ASSUME NEW u \in Tasks
      PROVE  /\ DOMAIN stack'[u] = DOMAIN stack[u]
             /\ \A i \in DOMAIN stack[u] : /\ stack'[u][i].outer = stack[u][i].outer
                                           /\ stack'[u][i].thread = stack[u][i].thread
                                           /\ stack'[u][i].routed = stack[u][i].routed
                                           /\ stack'[u][i].nested = stack[u][i].nested
  BY <1>1, <1>3, <1>5
<1>9. OneHolder' /\ Layers'
  BY <1>8 DEF OneHolder, Layers
<1>10. MarkersHeld'
  BY <1>8 DEF MarkersHeld
<1>11. Shape'
  <2>1. ASSUME NEW u \in Tasks, NEW i \in DOMAIN stack'[u], NEW j \in DOMAIN stack'[u],
               i < j, ~stack'[u][j].nested
        PROVE  stack'[u][i].step = "yielded"
    <3>1. stack[u][i].step = "yielded"
      BY <1>8, <2>1 DEF Shape
    <3> QED BY <1>1, <1>3, <1>5, <2>1, <3>1
  <2>2. ASSUME NEW u \in Tasks, stack'[u] # <<>> PROVE ~stack'[u][1].nested
    <3>1. CASE u = t
      BY <1>1, <1>5, <3>1 DEF Shape
    <3>2. CASE u # t
      BY <1>3, <2>2, <3>2 DEF Shape
    <3> QED BY <3>1, <3>2
  <2> QED BY <2>1, <2>2 DEF Shape
<1>12. Bounded'
  BY <1>1, <1>3, <1>5, StillBounded DEF n
<1> QED BY <1>6, <1>7, <1>9, <1>10, <1>11, <1>12

\* So does leaving a call, whether it gives its marker back or, abandoned, leaves
\* it to the event loop.
LEMMA LeaveStep ==
    ASSUME MarkInv, NEW t \in Tasks, stack[t] # <<>>,
           Leaves(t),
           mode' = mode,
           \/ /\ active' = IF Top(t).outer THEN active \ {Top(t).thread} ELSE active
              /\ orphans' = orphans
           \/ /\ Top(t).wrapper = "async_gen"
              /\ orphans' = IF Top(t).outer THEN orphans \cup {Top(t).thread} ELSE orphans
              /\ active' = active
    PROVE  MarkInv'
<1> USE DEF MarkInv
<1> DEFINE n == Len(stack[t])
           held == active \ orphans
<1>1. stack[t] \in Seq(Frame) /\ n \in Nat \ {0} /\ DOMAIN stack[t] = 1..n
  BY DEF TypeOK
<1>2. /\ stack'[t] \in Seq(Frame) /\ Len(stack'[t]) = n - 1 /\ DOMAIN stack'[t] = 1..(n - 1)
      /\ \A i \in 1..(n - 1) : i \in 1..n /\ stack'[t][i] = stack[t][i]
      /\ \A u \in Tasks \ {t} : stack'[u] = stack[u]
  <2>1. stack'[t] = SubSeq(stack[t], 1, n - 1) /\ \A u \in Tasks \ {t} : stack'[u] = stack[u]
    BY DEF TypeOK, Leaves
  <2>2. /\ SubSeq(stack[t], 1, n - 1) \in Seq(Frame) /\ Len(SubSeq(stack[t], 1, n - 1)) = n - 1
        /\ \A i \in 1..(n - 1) : SubSeq(stack[t], 1, n - 1)[i] = stack[t][i]
    BY <1>1
  <2> HIDE DEF n
  <2> QED BY <1>1, <2>1, <2>2
<1>3. FrameFits(t, Top(t), held) /\ Top(t) \in Frame /\ Top(t) = stack[t][n] /\ n \in DOMAIN stack[t]
  <2>1. Top(t) = stack[t][n] /\ n \in DOMAIN stack[t]
    BY <1>1 DEF Top
  <2> HIDE DEF n, held
  <2>2. stack[t][n] \in Frame
    BY <1>1
  <2>3. FrameFits(t, stack[t][n], held)
    BY <2>1 DEF FramesFit, held
  <2> QED BY <2>1, <2>2, <2>3
<1> HIDE DEF n
<1>4. active' \ orphans' = IF Top(t).outer THEN held \ {Top(t).thread} ELSE held
  OBVIOUS
<1>5. ASSUME NEW u \in Tasks, NEW i \in DOMAIN stack'[u]
      PROVE  /\ i \in DOMAIN stack[u] /\ stack'[u][i] = stack[u][i]
             /\ ~(u = t /\ i = n)
  BY <1>1, <1>2
<1>6. ASSUME NEW u \in Tasks, NEW i \in DOMAIN stack[u], ~(u = t /\ i = n)
      PROVE  i \in DOMAIN stack'[u] /\ stack'[u][i] = stack[u][i]
  BY <1>1, <1>2, <1>6
<1>7. ASSUME NEW u \in Tasks, NEW i \in DOMAIN stack'[u], stack[u][i].outer, Top(t).outer
      PROVE  stack[u][i].thread # Top(t).thread
  BY <1>3, <1>5, <1>7 DEF OneHolder
<1>8. TypeOK'
  <2>1. stack' \in [Tasks -> Seq(Frame)]
    BY <1>2 DEF TypeOK, Leaves
  <2>2. active' \subseteq Threads /\ orphans' \subseteq Threads
    BY <1>3 DEF TypeOK, Frame
  <2> QED BY <2>1, <2>2 DEF TypeOK
<1>9. FramesFit'
  <2>1. ASSUME NEW u \in Tasks, NEW i \in DOMAIN stack'[u]
        PROVE  FrameFits(u, stack'[u][i], active' \ orphans')
    <3>1. FrameFits(u, stack[u][i], held) /\ stack'[u][i] = stack[u][i]
      BY <1>5 DEF FramesFit
    <3>2. stack[u][i].outer => stack[u][i].thread \in active' \ orphans'
      BY <1>4, <1>7, <3>1 DEF FrameFits
    <3> QED BY <3>1, <3>2 DEF FrameFits
  <2> QED BY <2>1 DEF FramesFit
<1>10. OneHolder' /\ Layers'
  BY <1>5 DEF OneHolder, Layers
<1>11. MarkersHeld'
  <2>1. orphans' \subseteq active'
    BY <1>3 DEF MarkersHeld, FrameFits
  <2>2. ASSUME NEW w \in Workers PROVE Home(w) \notin orphans'
    <3>1. CASE t \in Workers
      BY <1>3, <3>1 DEF FrameFits, SyncWrappers, MarkersHeld
    <3>2. CASE t \notin Workers
      BY <1>3, <3>2, ThreadsDiffer DEF FrameFits, MarkersHeld
    <3> QED BY <3>1, <3>2
  <2>3. ASSUME NEW thread \in active' \ orphans'
        PROVE  \E u \in Tasks : \E i \in DOMAIN stack'[u] :
                  stack'[u][i].outer /\ stack'[u][i].thread = thread
    <3>1. thread \in held /\ (Top(t).outer => thread # Top(t).thread)
      BY <1>4, <2>3
    <3>2. PICK u \in Tasks : \E i \in DOMAIN stack[u] :
             stack[u][i].outer /\ stack[u][i].thread = thread
      BY <3>1 DEF MarkersHeld
    <3>3. PICK i \in DOMAIN stack[u] : stack[u][i].outer /\ stack[u][i].thread = thread
      BY <3>2
    <3>4. ~(u = t /\ i = n)
      BY <1>3, <3>1, <3>3
    <3> QED BY <1>6, <3>3, <3>4
  <2> QED BY <2>1, <2>2, <2>3 DEF MarkersHeld
<1>12. Shape'
  <2>1. ASSUME NEW u \in Tasks, stack'[u] # <<>> PROVE ~stack'[u][1].nested
    <3>1. stack[u] # <<>> /\ stack'[u][1] = stack[u][1]
      <4>1. CASE u = t
        <5>1. stack[t] # <<>> /\ 1 \in 1..(n - 1)
          BY <1>1, <1>2, <2>1, <4>1
        <5> QED BY <1>2, <4>1, <5>1
      <4>2. CASE u # t
        BY <1>2, <2>1, <4>2
      <4> QED BY <4>1, <4>2
    <3> QED BY <3>1 DEF Shape
  <2> QED BY <1>5, <2>1 DEF Shape
<1>13. Bounded'
  BY <1>1, <1>2, StillBounded DEF n
<1> QED BY <1>8, <1>9, <1>10, <1>11, <1>12, <1>13

\* The event loop closes an abandoned stream, which no call has the marker of.
LEMMA CloseStep ==
    ASSUME MarkInv, NEW thread \in Threads, Close(thread)
    PROVE  MarkInv'
<1> USE DEF MarkInv, Close
<1>1. active' \ orphans' = active \ orphans
  OBVIOUS
<1>2. TypeOK' /\ OneHolder' /\ Shape' /\ Layers'
  BY DEF TypeOK, OneHolder, Shape, Layers
<1>3. FramesFit'
  BY <1>1 DEF FramesFit
<1>4. MarkersHeld'
  BY <1>1 DEF MarkersHeld
<1>5. Bounded'
  BY DEF Bounded, InProgress
<1> QED BY <1>2, <1>3, <1>4, <1>5

\* Initially no thread is marked and nothing is in progress.
LEMMA MarkInit == Init => MarkInv
<1> SUFFICES ASSUME Init PROVE MarkInv
  OBVIOUS
<1>1. \A t \in Tasks : stack[t] = <<>> /\ Len(stack[t]) = 0 /\ DOMAIN stack[t] = {}
  BY DEF Init
<1>2. TypeOK
  BY ModesAssumption DEF Init, TypeOK
<1>3. FramesFit /\ OneHolder /\ Shape /\ Layers
  BY <1>1 DEF FramesFit, OneHolder, Shape, Layers
<1>4. MarkersHeld
  BY DEF Init, MarkersHeld
<1>5. Bounded
  <2>1. InProgress = {}
    BY <1>1 DEF InProgress
  <2> QED BY <1>1, <2>1, FS_EmptySet, BoundAssumption DEF Bounded
<1> QED BY <1>2, <1>3, <1>4, <1>5 DEF MarkInv

\* Every step of every task keeps the invariant.
LEMMA MarkStep == MarkInv /\ [Next]_vars => MarkInv'
<1> SUFFICES ASSUME MarkInv, [Next]_vars PROVE MarkInv'
  OBVIOUS
<1>0. /\ stack \in [Tasks -> Seq(Frame)]
      /\ \A t \in Tasks : stack[t] \in Seq(Frame) /\ Alike(stack[t], stack[t])
  BY DEF MarkInv, TypeOK, Alike
<1>1. ASSUME NEW t \in Tasks, NEW w \in Wrappers, Call(t, w) PROVE MarkInv'
  <2>1. Home(t) \in Threads
    BY DEF Home, Threads, Tasks
  <2>2. t \in Workers => w \in SyncWrappers
    BY <1>1, TasksAssumption DEF Call, Wrappers
  <2>3. stack[t] # <<>> /\ stack[t][Len(stack[t])].step = "yielded" => Is(t, "yielded")
    BY DEF Is, Top
  <2> QED BY <1>0, <1>1, <2>1, <2>2, <2>3, EnterStep DEF Call
<1>2. ASSUME NEW t \in Tasks, NEW w \in Wrappers, NEW thread \in Threads, Delegate(t, w, thread)
      PROVE  MarkInv'
  <2> DEFINE step == IF thread = Top(t).thread THEN "running" ELSE "awaiting"
             base == [stack[t] EXCEPT ![Len(stack[t])].step = step]
  <2>1. /\ stack[t] # <<>> /\ Enter(t, w, thread, TRUE, base)
        /\ Cardinality(InProgress) < MaxCalls
    BY <1>2 DEF Delegate, Running, Is
  <2>2. Alike(stack[t], base) /\ base[Len(stack[t])].step = step
    <3>1. step \in {"running", "asking", "awaiting", "yielded"} /\ stack[t] \in Seq(Frame)
      BY <1>0
    <3> HIDE DEF step
    <3> QED BY <2>1, <3>1, TopMoves
  <2>3. Len(base) = Len(stack[t]) /\ step # "yielded"
    BY <2>2 DEF Alike
  <2>4. FrameFits(t, Top(t), active \ orphans)
    <3>1. Len(stack[t]) \in DOMAIN stack[t]
      BY <1>0, <2>1
    <3> QED BY <3>1 DEF MarkInv, FramesFit, Top
  <2>5. /\ thread \in {Home(t), Executor(t)}
        /\ t \in Workers => thread = Home(t) /\ w \in SyncWrappers
    BY <1>2, <2>4 DEF Delegate, FrameFits, Wrappers, SyncWrappers, AsyncWrappers
  <2> HIDE DEF base, step
  <2> QED BY <2>1, <2>2, <2>3, <2>5, EnterStep
<1>3. ASSUME NEW t \in Tasks, Ask(t) \/ Yield(t) \/ Pull(t) PROVE MarkInv'
  <2>1. PICK step \in {"asking", "yielded", "running"} :
           /\ Moves(t, step) /\ stack[t] # <<>>
           /\ step = "yielded" => Top(t).wrapper \in Streams /\ ~Top(t).nested
    BY <1>3 DEF Ask, Yield, Pull, Running, Is, Moves
  <2>2. UNCHANGED <<mode, active, orphans>>
    BY <1>3 DEF Ask, Yield, Pull
  <2> QED BY <2>1, <2>2, TopStep
<1>4. ASSUME NEW t \in Tasks, Leave(t) \/ Abandon(t) PROVE MarkInv'
  <2>1. Leaves(t) /\ stack[t] # <<>> /\ mode' = mode
    BY <1>4 DEF Leave, Abandon, Leaves, Is
  <2>2. \/ /\ active' = IF Top(t).outer THEN active \ {Top(t).thread} ELSE active
           /\ orphans' = orphans
        \/ /\ Top(t).wrapper = "async_gen"
           /\ orphans' = IF Top(t).outer THEN orphans \cup {Top(t).thread} ELSE orphans
           /\ active' = active
    BY <1>4 DEF Leave, Abandon
  <2> QED BY <2>1, <2>2, LeaveStep
<1>5. CASE UNCHANGED vars
  <2> USE <1>5 DEF vars, MarkInv
  <2>1. TypeOK' /\ Shape' /\ Layers'
    BY DEF TypeOK, Shape, Layers
  <2>2. FramesFit'
    BY DEF FramesFit
  <2>3. OneHolder'
    BY DEF OneHolder
  <2>4. MarkersHeld'
    BY DEF MarkersHeld
  <2>5. Bounded'
    BY DEF Bounded, InProgress
  <2> QED BY <2>1, <2>2, <2>3, <2>4, <2>5
<1> QED BY <1>1, <1>2, <1>3, <1>4, <1>5, CloseStep DEF Next

\* The invariant holds throughout.
LEMMA MarkInvariance == Spec => []MarkInv
BY MarkInit, MarkStep, PTL DEF Spec

-----------------------------------------------------------------------------
(* The theorems *)

\* Type correctness of the threads, the marker and the calls in progress.
THEOREM TypesOfCalls == Spec => []TypeOK
<1>1. MarkInv => TypeOK
  BY DEF MarkInv
<1> QED BY <1>1, MarkInvariance, PTL

\* A thread is marked exactly while one call, or one abandoned stream, has the
\* marker to give back, for any number of tasks and depth of calls: no exception,
\* nesting or abandoned stream leaves a thread marked for good.
THEOREM MarkersAreGivenBack == Spec => []MarkerHasOneHolder
<1>1. ASSUME MarkInv, NEW thread \in Threads
      PROVE  Cardinality(Holders(thread)) + Cardinality({thread} \cap orphans)
                = Cardinality({thread} \cap active)
  <2> USE <1>1 DEF MarkInv
  <2>1. ASSUME NEW h \in Holders(thread) PROVE thread \in active \ orphans
    <3>1. PICK t \in Tasks, i \in 1..MaxCalls :
             h = <<t, i>> /\ i \in DOMAIN stack[t] /\ stack[t][i].outer /\ stack[t][i].thread = thread
      BY DEF Holders, InProgress
    <3> QED BY <3>1 DEF FramesFit, FrameFits
  <2>2. Cardinality({}) = 0 /\ Cardinality({thread}) = 1
    BY FS_EmptySet, FS_Singleton
  <2>3. CASE thread \notin active
    <3>1. Holders(thread) = {} /\ {thread} \cap orphans = {} /\ {thread} \cap active = {}
      BY <2>1, <2>3 DEF MarkersHeld
    <3> QED BY <2>2, <3>1
  <2>4. CASE thread \in orphans
    <3>1. Holders(thread) = {} /\ {thread} \cap orphans = {thread} /\ {thread} \cap active = {thread}
      BY <2>1, <2>4 DEF MarkersHeld
    <3> QED BY <2>2, <3>1
  <2>5. CASE thread \in active \ orphans
    <3>1. PICK t \in Tasks : \E i \in DOMAIN stack[t] :
             stack[t][i].outer /\ stack[t][i].thread = thread
      BY <2>5 DEF MarkersHeld
    <3>2. PICK i \in DOMAIN stack[t] : stack[t][i].outer /\ stack[t][i].thread = thread
      BY <3>1
    <3>3. i \in 1..MaxCalls
      <4>1. stack[t] \in Seq(Frame) /\ Len(stack[t]) <= MaxCalls
        BY DEF TypeOK, Bounded
      <4> QED BY <4>1, BoundAssumption
    <3>4. <<t, i>> \in Holders(thread)
      BY <3>2, <3>3 DEF Holders, InProgress
    <3>5. ASSUME NEW h \in Holders(thread) PROVE h = <<t, i>>
      <4>1. PICK u \in Tasks, j \in 1..MaxCalls :
               h = <<u, j>> /\ j \in DOMAIN stack[u] /\ stack[u][j].outer /\ stack[u][j].thread = thread
        BY DEF Holders, InProgress
      <4> QED BY <3>2, <4>1 DEF OneHolder
    <3>6. /\ Holders(thread) = {<<t, i>>}
          /\ {thread} \cap orphans = {} /\ {thread} \cap active = {thread}
      BY <2>5, <3>4, <3>5
    <3>7. Cardinality({<<t, i>>}) = 1
      BY FS_Singleton
    <3> QED BY <2>2, <3>6, <3>7
  <2> QED BY <2>3, <2>4, <2>5
<1>2. MarkInv => MarkerHasOneHolder
  BY <1>1 DEF MarkerHasOneHolder
<1> QED BY <1>2, MarkInvariance, PTL

\* A worker's call reaches the model only under a call of its own that is recorded,
\* whatever the other workers and the event loop do.
THEOREM WorkersGoThroughTheRecorder == Spec => []WorkersAreRecorded
<1>1. ASSUME MarkInv, NEW t \in Workers, AtModel(t) PROVE RoutedInChain(t) # {}
  <2> DEFINE n == Len(stack[t])
             above == {k \in 0..(n - 1) : ~stack[t][n - k].nested}
             g == n - First(above)
  <2>1. /\ t \in Tasks /\ stack[t] \in Seq(Frame) /\ stack[t] # <<>>
        /\ n \in Nat \ {0} /\ DOMAIN stack[t] = 1..n
    BY <1>1 DEF Tasks, MarkInv, TypeOK, AtModel, Is
  <2>2. ~stack[t][1].nested
    BY <1>1, <2>1 DEF MarkInv, Shape
  <2> HIDE DEF n
  <2>3. n - 1 \in above
    BY <2>1, <2>2
  <2>4. above \in SUBSET Nat /\ above # {}
    <3>1. above \subseteq 0..(n - 1)
      OBVIOUS
    <3> HIDE DEF above
    <3> QED BY <2>1, <2>3, <3>1
  <2>5. First(above) \in above /\ \A k \in above : First(above) <= k
    BY <2>4, FirstIsLeast
  <2>6. g \in 1..n /\ ~stack[t][g].nested
    BY <2>1, <2>5
  <2>7. \A j \in 1..n : j > g => stack[t][j].nested
    <3> SUFFICES ASSUME NEW j \in 1..n, j > g, ~stack[t][j].nested PROVE FALSE
      OBVIOUS
    <3>1. n - j \in 0..(n - 1) /\ n - (n - j) = j
      BY <2>1
    <3>2. n - j \in above
      BY <3>1
    <3>3. First(above) <= n - j /\ First(above) \in Nat
      BY <2>4, <2>5, <3>2
    <3> QED BY <2>1, <3>3
  <2> HIDE DEF g
  <2>8. stack[t][g].routed
    BY <1>1, <2>1, <2>6 DEF MarkInv, FramesFit, FrameFits
  <2> QED BY <2>1, <2>6, <2>7, <2>8 DEF RoutedInChain, Chain
<1>2. MarkInv => WorkersAreRecorded
  BY <1>1 DEF WorkersAreRecorded
<1> QED BY <1>2, MarkInvariance, PTL

\* Layers of one call are recorded once, whatever calls what, but past a sync
\* generator or in another thread.
THEOREM LayersAreRecordedOnce == Spec => []LayersRecordedOnce
<1>1. ASSUME MarkInv, NEW t \in Tasks, NEW i \in RoutedInChain(t), NEW j \in RoutedInChain(t),
             i < j, stack[t][i].wrapper # "gen"
      PROVE  stack[t][i].thread # stack[t][j].thread
  <2>1. /\ i \in DOMAIN stack[t] /\ j \in DOMAIN stack[t]
        /\ stack[t][i].routed /\ stack[t][j].routed
    BY DEF RoutedInChain, Chain
  <2>2. stack[t][i].outer
    BY <1>1, <2>1 DEF MarkInv, FramesFit, FrameFits
  <2> QED BY <1>1, <2>1, <2>2 DEF MarkInv, Layers
<1>2. MarkInv => LayersRecordedOnce
  BY <1>1 DEF LayersRecordedOnce
<1> QED BY <1>2, MarkInvariance, PTL

=============================================================================
