--------------------------- MODULE Interception ---------------------------
(* Which intercepted calls reach the recorder: the wrappers that patched     *)
(* installs and the marker of the outermost call, src/llmtivo/intercept.py.  *)
(* The marker is kept per thread.  Workers are threads of their own running  *)
(* synchronous code; the coroutines of an event loop share one thread and    *)
(* change places only where one awaits.  What an original does is left open: *)
(* it asks the model, or calls another intercepted entry point, in its own   *)
(* thread or through an executor.  Of the recorder, modelled in Recorder,    *)
(* only this matters here: what it replays does not run the original.        *)
EXTENDS Naturals, Sequences, FiniteSets

CONSTANTS Workers,     \* threads running synchronous code
          Coroutines,  \* tasks of one event loop
          OpenModes,   \* modes of the recorder
          MaxCalls     \* intercepted calls in progress at a time

ASSUME TasksAssumption == Workers \cap Coroutines = {}

ASSUME ModesAssumption == OpenModes \subseteq {"record", "replay", "replay_or_record"}

ASSUME BoundAssumption == MaxCalls \in Nat

Tasks == Workers \cup Coroutines

\* The wrappers, by what the original is.  A sync generator is created by the
\* call and runs later, as its consumer asks for chunks.
SyncWrappers  == {"method", "gen"}

AsyncWrappers == {"async_method", "async_gen"}

Wrappers == SyncWrappers \cup AsyncWrappers

Streams == {"gen", "async_gen"}

VARIABLES
    mode,
    active,   \* the threads on which _ACTIVE holds this recorder
    stack,    \* the intercepted calls of each task, innermost last
    orphans   \* abandoned async generators that no one has closed yet

vars == <<mode, active, stack, orphans>>

Loop == <<"loop">>

Home(t) == IF t \in Coroutines THEN Loop ELSE <<"worker", t>>

Executor(t) == <<"executor", t>>

Threads == {Loop} \cup {Home(t) : t \in Workers} \cup {Executor(t) : t \in Coroutines}

\* One intercepted call.  It is outer if it took the marker to give it back,
\* routed if it goes through the recorder, replayed if the tape answers instead
\* of the original, nested if another original made it.
Frame == [wrapper : Wrappers, thread : Threads,
          outer : BOOLEAN, routed : BOOLEAN, replayed : BOOLEAN, nested : BOOLEAN,
          step : {"running", "asking", "awaiting", "yielded"}]

TypeOK ==
    /\ mode \in {"record", "replay", "replay_or_record"}
    /\ active \subseteq Threads
    /\ stack \in [Tasks -> Seq(Frame)]
    /\ orphans \subseteq Threads

Init ==
    /\ mode \in OpenModes
    /\ active = {}
    /\ stack = [t \in Tasks |-> <<>>]
    /\ orphans = {}

InProgress == {at \in Tasks \X (1..MaxCalls) : at[2] \in DOMAIN stack[at[1]]}

-----------------------------------------------------------------------------
(* Scheduling *)

Top(t) == stack[t][Len(stack[t])]

Is(t, step) == stack[t] # <<>> /\ Top(t).step = step

\* A coroutine lets others run where it awaits the model, an executor or
\* whatever the application awaits between its calls and between chunks.
Suspended(t) ==
    stack[t] # <<>> =>
        \/ Top(t).step \in {"yielded", "awaiting"}
        \/ Top(t).step = "asking" /\ Top(t).wrapper \in AsyncWrappers
        \/ Top(t).thread # Loop

CanRun(t) ==
    \/ t \in Workers
    \/ stack[t] # <<>> /\ Top(t).thread # Loop
    \/ \A u \in Coroutines \ {t} : Suspended(u)

\* The original of the innermost call is at work.
Running(t) == (Is(t, "running") \/ Is(t, "awaiting")) /\ ~Top(t).replayed

-----------------------------------------------------------------------------
(* Entering and leaving a wrapper *)

\* Whether the recorder answers from its tape, in the modes that may.  In
\* REPLAY it does or raises.
FromTape == IF mode = "record" THEN {FALSE}
            ELSE IF mode = "replay" THEN {TRUE} ELSE BOOLEAN

\* A plausible slip: the marker is one for the process.
EnterShared(t, w, thread, nested, caller) ==
    \E fromTape \in FromTape :
        LET outer == active = {}
        IN  /\ stack' = [stack EXCEPT ![t] = Append(caller,
                 [wrapper |-> w, thread |-> thread,
                  outer |-> outer /\ w # "gen", routed |-> outer,
                  replayed |-> outer /\ fromTape, nested |-> nested,
                  step |-> "running"])]
            /\ active' = IF outer /\ w # "gen" THEN active \cup {thread} ELSE active
            /\ UNCHANGED <<mode, orphans>>

\* The wrapper of a sync generator returns before the generator runs, and the
\* marker goes with it.
Enter(t, w, thread, nested, caller) ==
    \E fromTape \in FromTape :
        LET outer == thread \notin active
        IN  /\ stack' = [stack EXCEPT ![t] = Append(caller,
                 [wrapper |-> w, thread |-> thread,
                  outer |-> outer /\ w # "gen", routed |-> outer,
                  replayed |-> outer /\ fromTape, nested |-> nested,
                  step |-> "running"])]
            /\ active' = IF outer /\ w # "gen" THEN active \cup {thread} ELSE active
            /\ UNCHANGED <<mode, orphans>>

\* The application makes a call, of its own or between the chunks of a stream.
Call(t, w) ==
    /\ Cardinality(InProgress) < MaxCalls
    /\ CanRun(t)
    /\ w \in AsyncWrappers => t \in Coroutines
    /\ stack[t] = <<>> \/ Is(t, "yielded")
    /\ Enter(t, w, Home(t), FALSE, stack[t])

\* An original calls another intercepted entry point.
Delegate(t, w, thread) ==
    /\ Cardinality(InProgress) < MaxCalls
    /\ CanRun(t)
    /\ Running(t)
    /\ w \in AsyncWrappers => Top(t).wrapper \in AsyncWrappers
    /\ \/ thread = Top(t).thread
       \/ /\ Top(t).wrapper \in AsyncWrappers /\ w \in SyncWrappers
          /\ thread = Executor(t)
    /\ Enter(t, w, thread, TRUE,
             [stack[t] EXCEPT ![Len(stack[t])].step =
                  IF thread = Top(t).thread THEN "running" ELSE "awaiting"])

\* An original asks the model.
Ask(t) ==
    /\ CanRun(t)
    /\ Running(t)
    /\ stack' = [stack EXCEPT ![t][Len(stack[t])].step = "asking"]
    /\ UNCHANGED <<mode, active, orphans>>

\* A stream hands its consumer a chunk.  An inner stream only feeds an outer.
Yield(t) ==
    /\ CanRun(t)
    /\ stack[t] # <<>>
    /\ Top(t).step # "yielded"
    /\ Top(t).wrapper \in Streams /\ ~Top(t).nested
    /\ stack' = [stack EXCEPT ![t][Len(stack[t])].step = "yielded"]
    /\ UNCHANGED <<mode, active, orphans>>

\* Its consumer asks for the next one.
Pull(t) ==
    /\ CanRun(t)
    /\ Is(t, "yielded")
    /\ stack' = [stack EXCEPT ![t][Len(stack[t])].step = "running"]
    /\ UNCHANGED <<mode, active, orphans>>

\* Plausible slips: an inner call releases the marker, or nothing does when
\* the original raises.
LeaveReleasing(t) ==
    /\ CanRun(t)
    /\ stack[t] # <<>>
    /\ active' = active \ {Top(t).thread}
    /\ stack' = [stack EXCEPT ![t] = SubSeq(@, 1, Len(@) - 1)]
    /\ UNCHANGED <<mode, orphans>>

LeaveKeeping(t) ==
    /\ CanRun(t)
    /\ stack[t] # <<>>
    /\ active' = IF Top(t).outer /\ Top(t).step # "asking"
                 THEN active \ {Top(t).thread} ELSE active
    /\ stack' = [stack EXCEPT ![t] = SubSeq(@, 1, Len(@) - 1)]
    /\ UNCHANGED <<mode, orphans>>

\* A call returns or raises, a stream ends: `with` gives the marker back.
Leave(t) ==
    /\ CanRun(t)
    /\ stack[t] # <<>>
    /\ active' = IF Top(t).outer THEN active \ {Top(t).thread} ELSE active
    /\ stack' = [stack EXCEPT ![t] = SubSeq(@, 1, Len(@) - 1)]
    /\ UNCHANGED <<mode, orphans>>

AbandonByTask(t) ==
    /\ CanRun(t)
    /\ Is(t, "yielded") /\ Top(t).wrapper = "async_gen"
    /\ orphans' = IF Top(t).outer THEN orphans \cup {t} ELSE orphans
    /\ stack' = [stack EXCEPT ![t] = SubSeq(@, 1, Len(@) - 1)]
    /\ UNCHANGED <<mode, active>>

\* The consumer breaks out of an async stream.  The generator keeps the marker
\* until the event loop gets to close it.
Abandon(t) ==
    /\ CanRun(t)
    /\ Is(t, "yielded") /\ Top(t).wrapper = "async_gen"
    /\ orphans' = IF Top(t).outer THEN orphans \cup {Top(t).thread} ELSE orphans
    /\ stack' = [stack EXCEPT ![t] = SubSeq(@, 1, Len(@) - 1)]
    /\ UNCHANGED <<mode, active>>

Close(thread) ==
    /\ thread \in orphans
    /\ \A u \in Coroutines : Suspended(u)
    /\ orphans' = orphans \ {thread}
    /\ active' = active \ {thread}
    /\ UNCHANGED <<mode, stack>>

-----------------------------------------------------------------------------

Next ==
    \/ \E t \in Tasks :
          \/ \E w \in Wrappers : Call(t, w)
          \/ \E w \in Wrappers, thread \in Threads : Delegate(t, w, thread)
          \/ Ask(t) \/ Yield(t) \/ Pull(t) \/ Leave(t) \/ Abandon(t)
    \/ \E thread \in Threads : Close(thread)

Spec == Init /\ [][Next]_vars

-----------------------------------------------------------------------------
(* Properties *)

AtModel(t) == Is(t, "asking")

\* The innermost call of t and the calls whose originals made it.
Chain(t) ==
    {i \in DOMAIN stack[t] :
        \A j \in DOMAIN stack[t] : j > i => stack[t][j].nested}

RoutedInChain(t) == {i \in Chain(t) : stack[t][i].routed}

Holders(thread) ==
    {h \in InProgress : stack[h[1]][h[2]].outer /\ stack[h[1]][h[2]].thread = thread}

\* A thread is marked exactly while one call on it, or one abandoned stream,
\* has the marker to give back: no exception, nesting or abandoned stream leaves
\* a thread marked, on which every later call would go around the recorder.
MarkerHasOneHolder ==
    \A thread \in Threads :
        Cardinality(Holders(thread)) + Cardinality({thread} \cap orphans)
            = Cardinality({thread} \cap active)

\* Whatever a thread pool and an event loop do at the same time, a worker's
\* call reaches the model only under a call of its own that is recorded.
WorkersAreRecorded ==
    \A t \in Workers : AtModel(t) => RoutedInChain(t) # {}

\* Layers of one call are recorded once, whatever calls what: twice only past
\* a sync generator, which runs unmarked, or in another thread.
LayersRecordedOnce ==
    \A t \in Tasks : \A i, j \in RoutedInChain(t) :
        i < j => \/ stack[t][i].wrapper = "gen"
                 \/ stack[t][i].thread # stack[t][j].thread

\* "REPLAY never reaches the network" (README.md:37), for the calls that
\* LLMTivo intercepts.
ReplayNeverAsks == mode = "replay" => \A t \in Tasks : ~AtModel(t)

=============================================================================
