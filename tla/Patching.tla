------------------------------ MODULE Patching ------------------------------
(* What patching does to the classes of a test process: patched and          *)
(* patched_all, src/llmtivo/intercept.py, and patched_langchain with its     *)
(* walk over the embeddings and its hook on the creation of classes,         *)
(* src/llmtivo/langchain.py, and patched_litellm, src/llmtivo/litellm.py.    *)
(* One method name stands for each of those they patch, and a module whose   *)
(* functions are patched is a class without bases.  The blocks of a test     *)
(* nest; classes are loaded by the test's code, between blocks and in them,  *)
(* and never while one is entered or left.                                   *)
EXTENDS Positions, SequencesExt

CONSTANTS Classes,
          Mro,            \* the method resolution order of each class
          Defining,       \* classes whose body defines the method
          BaseChatModel,  \* root of the chat models, which inherit the method
          Embeddings,     \* root of the embeddings, which override it
          LiteLLM,        \* of ChatLiteLLM and the module litellm, those installed
          ChatLiteLLM,    \* a chat model over litellm
          Preloaded,      \* classes loaded before the first test
          Hook,           \* Embeddings.__init_subclass__, among what is patched
          MaxBlocks,      \* blocks open at a time
          None            \* no attribute of one's own

ASSUME MroAssumption ==
    /\ IsFiniteSet(Classes)
    /\ Mro \in [Classes -> Seq(Classes)]
    /\ \A c \in Classes :
          /\ Mro[c] # <<>> /\ Head(Mro[c]) = c
          /\ \E i \in DOMAIN Mro[c] : Mro[c][i] \in Defining

ASSUME RootsAssumption ==
    /\ Defining \subseteq Classes
    /\ {BaseChatModel, Embeddings} \subseteq Preloaded /\ Preloaded \subseteq Classes
    /\ \A c \in Preloaded : \A i \in DOMAIN Mro[c] : Mro[c][i] \in Preloaded
    /\ LiteLLM \subseteq Preloaded /\ None \notin [of : Classes, by : Seq(Nat)]
    /\ Hook \notin Classes /\ MaxBlocks \in Nat

VARIABLES
    loaded,   \* classes that exist
    own,      \* what each class has in its own dictionary
    hook,     \* the block whose hook sees new embeddings classes, or 0
    blocks,   \* open blocks, innermost last
    todo,     \* what the innermost block has still to patch
    leaving   \* whether it is being left: no, clean or raising

vars == <<loaded, own, hook, blocks, todo, leaving>>

\* The function that class "of" defines, inside the wrappers of blocks "by".
Function == [of : Classes, by : Seq(1..MaxBlocks)]

\* What a block is to restore of a class, or of the hook.
Entry == [target : Classes \cup {Hook}, original : Function \cup {None}]

\* undo: entries, of which the last is restored first; previous: the hook before
\* this block's; found: history, how the loaded classes resolved when it began.
Block == [undo : Seq(Entry), previous : 0..MaxBlocks,
          found : [Classes -> Function \cup {None}]]

TypeOK ==
    /\ Preloaded \subseteq loaded /\ loaded \subseteq Classes
    /\ own \in [Classes -> Function \cup {None}]
    /\ blocks \in Seq(Block) /\ Len(blocks) <= MaxBlocks
    /\ hook \in 0..Len(blocks)
    /\ todo \in Seq(Classes \cup {Hook})
    /\ leaving \in {"no", "clean", "raising"}

Plain(c) == [of |-> c, by |-> <<>>]

Init ==
    /\ loaded = Preloaded
    /\ own = [c \in Classes |->
                 IF c \in Preloaded \cap Defining THEN Plain(c) ELSE None]
    /\ hook = 0 /\ blocks = <<>> /\ todo = <<>> /\ leaving = "no"

-----------------------------------------------------------------------------

\* getattr: the first of the resolution order that has the attribute.
Lookup(c) ==
    own[Mro[c][First({i \in DOMAIN Mro[c] : own[Mro[c][i]] # None})]]

Patched(function) == function.by # <<>>

Wrap(function, block) == [function EXCEPT !.by = <<block>> \o @]

Under(root) == {c \in Classes : \E i \in DOMAIN Mro[c] : Mro[c][i] = root}

TestRuns == todo = <<>> /\ leaving = "no"

Innermost == blocks[Len(blocks)]

\* Block b notes that it is about to patch c, which now is f.
Noted(b, c, f) ==
    [blocks EXCEPT ![b].undo = Append(@, [target |-> c, original |-> f])]

-----------------------------------------------------------------------------
(* Entering a block *)

Begin(targets) ==
    /\ TestRuns
    /\ Len(blocks) < MaxBlocks
    /\ blocks' = Append(blocks,
          [undo |-> <<>>, previous |-> hook,
           found |-> [c \in Classes |-> IF c \in loaded THEN Lookup(c) ELSE None]])
    /\ todo' = targets
    /\ UNCHANGED <<loaded, own, hook, leaving>>

EnterPatched(target) == target \in loaded /\ Begin(<<target>>)

EnterPatchedAll(first, second) ==
    {first, second} \subseteq loaded /\ Begin(<<first, second>>)

\* The walk over the embeddings meets every loaded one, and patches those that
\* have the attribute itself and unpatched.
InterceptableDirect ==
    {c \in loaded \cap Under(Embeddings) :
        own[c] # None /\ ~Patched(Lookup(c)) /\ Len(Mro[c]) <= 2}

Interceptable ==
    {c \in loaded \cap Under(Embeddings) : own[c] # None /\ ~Patched(Lookup(c))}

EnterLangchain ==
    \E walk \in SetToSeqs(Interceptable) : Begin(walk \o <<Hook, BaseChatModel>>)

\* The high-level layer only: ChatLiteLLM, or else the litellm it calls.
LitellmTargets == IF ChatLiteLLM \in LiteLLM THEN {ChatLiteLLM} ELSE LiteLLM

EnterLitellm == \E target \in LitellmTargets : Begin(<<target>>)

\* The next target is patched ...
InstallAnyway ==
    /\ todo # <<>> /\ Head(todo) # Hook
    /\ own' = [own EXCEPT ![Head(todo)] = Wrap(Lookup(Head(todo)), Len(blocks))]
    /\ blocks' = Noted(Len(blocks), Head(todo), Lookup(Head(todo)))
    /\ todo' = Tail(todo)
    /\ UNCHANGED <<loaded, hook, leaving>>

Install ==
    /\ todo # <<>> /\ Head(todo) # Hook
    /\ ~Patched(Lookup(Head(todo)))
    /\ own' = [own EXCEPT ![Head(todo)] = Wrap(Lookup(Head(todo)), Len(blocks))]
    /\ blocks' = Noted(Len(blocks), Head(todo), Lookup(Head(todo)))
    /\ todo' = Tail(todo)
    /\ UNCHANGED <<loaded, hook, leaving>>

\* ... unless it resolves to a wrapper already: the block raises as it begins,
\* and what it has patched so far is restored.
RefuseHalfway ==
    /\ todo # <<>> /\ Head(todo) # Hook
    /\ Patched(Lookup(Head(todo)))
    /\ todo' = <<>>
    /\ blocks' = Front(blocks)
    /\ hook' = Innermost.previous
    /\ UNCHANGED <<loaded, own, leaving>>

Refuse ==
    /\ todo # <<>> /\ Head(todo) # Hook
    /\ Patched(Lookup(Head(todo)))
    /\ todo' = <<>> /\ leaving' = "raising"
    /\ UNCHANGED <<loaded, own, hook, blocks>>

SetHook ==
    /\ todo # <<>> /\ Head(todo) = Hook
    /\ hook' = Len(blocks)
    /\ blocks' = Noted(Len(blocks), Hook, None)
    /\ todo' = Tail(todo)
    /\ UNCHANGED <<loaded, own, leaving>>

-----------------------------------------------------------------------------
(* A class is loaded *)

Loadable(c) ==
    /\ TestRuns
    /\ c \notin loaded
    /\ \A i \in DOMAIN Mro[c] : Mro[c][i] \in loaded \cup {c}

Hooked(c) == hook # 0 /\ c \in Under(Embeddings) \cap Defining

LoadClass(c) ==
    /\ Loadable(c) /\ ~Hooked(c)
    /\ loaded' = loaded \cup {c}
    /\ own' = [own EXCEPT ![c] = IF c \in Defining THEN Plain(c) ELSE None]
    /\ UNCHANGED <<hook, blocks, todo, leaving>>

\* A plausible slip: the patch of a class loaded late is on no stack.
InterceptUnnoted(c) ==
    /\ Loadable(c) /\ Hooked(c)
    /\ loaded' = loaded \cup {c}
    /\ own' = [own EXCEPT ![c] = Wrap(Plain(c), hook)]
    /\ UNCHANGED <<hook, blocks, todo, leaving>>

\* on_new_subclass: the hook patches the class as it appears, and the block
\* of the hook, not the innermost one, will restore it.
InterceptNew(c) ==
    /\ Loadable(c) /\ Hooked(c)
    /\ loaded' = loaded \cup {c}
    /\ own' = [own EXCEPT ![c] = Wrap(Plain(c), hook)]
    /\ blocks' = Noted(hook, c, Plain(c))
    /\ UNCHANGED <<hook, todo, leaving>>

-----------------------------------------------------------------------------
(* Leaving a block: its code ends, or an exception passes through it *)

Leave ==
    /\ TestRuns
    /\ blocks # <<>>
    /\ leaving' \in {"clean", "raising"}
    /\ UNCHANGED <<loaded, own, hook, blocks, todo>>

Undoing == leaving # "no" /\ Innermost.undo # <<>>

Undone == Last(Innermost.undo)

RestoreClass ==
    /\ Undoing /\ Undone.target # Hook
    /\ own' = [own EXCEPT ![Undone.target] = Undone.original]
    /\ blocks' = [blocks EXCEPT ![Len(blocks)].undo = Front(@)]
    /\ UNCHANGED <<loaded, hook, todo, leaving>>

RestoreHookForgotten ==
    /\ Undoing /\ Undone.target = Hook
    /\ blocks' = [blocks EXCEPT ![Len(blocks)].undo = Front(@)]
    /\ UNCHANGED <<loaded, own, hook, todo, leaving>>

RestoreHook ==
    /\ Undoing /\ Undone.target = Hook
    /\ hook' = Innermost.previous
    /\ blocks' = [blocks EXCEPT ![Len(blocks)].undo = Front(@)]
    /\ UNCHANGED <<loaded, own, todo, leaving>>

\* The exception is caught outside the block, or leaves the next one as well.
Left ==
    /\ leaving # "no" /\ Innermost.undo = <<>>
    /\ blocks' = Front(blocks)
    /\ \/ leaving' = "no"
       \/ leaving = "raising" /\ Len(blocks) > 1 /\ leaving' = "raising"
    /\ UNCHANGED <<loaded, own, hook, todo>>

-----------------------------------------------------------------------------

Next ==
    \/ \E c \in Classes : EnterPatched(c) \/ LoadClass(c) \/ InterceptNew(c)
    \/ \E c, d \in Classes : EnterPatchedAll(c, d)
    \/ EnterLangchain \/ EnterLitellm
    \/ Install \/ Refuse \/ SetHook
    \/ Leave \/ RestoreClass \/ RestoreHook \/ Left

Spec == Init /\ [][Next]_vars

-----------------------------------------------------------------------------
(* The source of a class, and two kinds of hierarchy *)

\* Where among its classes c finds the method in the source, and in which.
DefinedAt(c) == First({i \in DOMAIN Mro[c] : Mro[c][i] \in Defining})

SourceOf(c) == Mro[c][DefinedAt(c)]

\* The classes that c asks are asked in the same order by each of them: what
\* single inheritance gives, and several bases if one alone leads to the method.
OneLine ==
    \A c \in Classes : \A i \in 1..DefinedAt(c) : \A j \in i..DefinedAt(c) :
        /\ DefinedAt(Mro[c][i]) = DefinedAt(c) - i + 1
        /\ Mro[Mro[c][i]][j - i + 1] = Mro[c][j]

\* Embeddings classes find the method in an embeddings class.
EmbeddingsDefine ==
    \A c \in Under(Embeddings) : \A i \in 1..DefinedAt(c) : Mro[c][i] \in Under(Embeddings)

-----------------------------------------------------------------------------
(* Properties *)

\* Nothing of a test leaks into the next one: with no block open every class,
\* loaded before or inside a block, resolves to what its source says, through
\* no wrapper, after exceptions and refused blocks too.
Restored ==
    blocks = <<>> => \A c \in loaded : Lookup(c) = Plain(SourceOf(c))

\* No call passes two wrappers of the seam, whichever class of a line of
\* inheritance was patched first, by which block.
WrappedOnce ==
    \A c \in loaded : Len(Lookup(c).by) <= 1

\* While a LangChain block is open every embeddings class is intercepted by an
\* open block: at any depth, loaded before or since, patched on its own
\* earlier or now.
EmbeddingsIntercepted ==
    TestRuns /\ hook # 0 =>
        \A c \in loaded \cap Under(Embeddings) :
            \E b \in 1..Len(blocks) : Lookup(c).by = <<b>>

\* A block that is left, or refused half-way, leaves each class resolving as
\* it found it, which inside another block is to that block's wrapper.
LeavesAsFound ==
    [][Len(blocks') < Len(blocks) =>
          \A c \in Classes :
              Innermost.found[c] # None => Lookup(c)' = Innermost.found[c]]_vars

\* "ONE patch on the base class records every provider" (langchain.py:7): every
\* chat model that inherits the method is intercepted while the base is.
ProvidersIntercepted ==
    TestRuns /\ Patched(own[BaseChatModel]) =>
        \A c \in loaded \cap Under(BaseChatModel) :
            SourceOf(c) = BaseChatModel => Patched(Lookup(c))

=============================================================================
