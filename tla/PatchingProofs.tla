--------------------------- MODULE PatchingProofs ---------------------------
(* Theorems about Patching, for any classes and any nesting of blocks.       *)
EXTENDS Patching, PositionsProofs, FiniteSetTheorems

(* The inductive invariant, in parts. *)

\* Block b has yet to restore what it noted of a target.
HoldsIn(stack, b, target) ==
    \E i \in DOMAIN stack[b].undo : stack[b].undo[i].target = target

Holds(b, target) == HoldsIn(blocks, b, target)

\* A class exists after its bases, with what its body defines; and what is
\* patched is so once, by a block that will restore it.
Attributes ==
    /\ \A c \in loaded : \A i \in DOMAIN Mro[c] : Mro[c][i] \in loaded
    /\ \A c \in Classes \ loaded : own[c] = None
    /\ \A c \in loaded \cap Defining : own[c] # None
    /\ \A c \in Classes : own[c] # None =>
          own[c].by = <<>> \/ \E b \in 1..Len(blocks) : own[c].by = <<b>> /\ Holds(b, c)

\* An entry is of a class that the block has patched, and of what that was; no
\* block has two of one target.
FitsIn(attributes, classes, b, e) ==
    e.target # Hook =>
        /\ e.target \in classes /\ attributes[e.target] # None /\ attributes[e.target].by = <<b>>
        /\ e.original # None /\ e.original.by = <<>> /\ e.original.of = attributes[e.target].of

Undos ==
    \A b \in 1..Len(blocks) : \A i \in DOMAIN blocks[b].undo :
        /\ FitsIn(own, loaded, b, blocks[b].undo[i])
        /\ \A j \in DOMAIN blocks[b].undo :
              blocks[b].undo[i].target = blocks[b].undo[j].target => i = j

\* A block is entered before it is left, and knows what it is to patch.
Entering ==
    /\ todo # <<>> => blocks # <<>> /\ leaving = "no"
    /\ leaving # "no" => blocks # <<>>
    /\ \A i \in DOMAIN todo : todo[i] \in loaded \cup {Hook}
    /\ \A i \in DOMAIN todo : todo[i] = Hook =>
          ~Holds(Len(blocks), Hook) /\ \A j \in DOMAIN todo : todo[j] = Hook => i = j

\* The hook is that of the innermost block that has set one.
Hooks ==
    /\ hook # 0 => Holds(hook, Hook)
    /\ \A b \in 1..Len(blocks) :
          /\ blocks[b].previous \in 0..(b - 1)
          /\ blocks[b].previous # 0 => Holds(blocks[b].previous, Hook)
          /\ Holds(b, Hook) => b <= hook
          /\ \A k \in 1..(b - 1) : Holds(k, Hook) => k <= blocks[b].previous

PatchInv == TypeOK /\ Attributes /\ Undos /\ Entering /\ Hooks

\* A class resolves to the function its source says, patched or not.
Genuine == \A c \in Classes : own[c] # None => own[c].of = SourceOf(c)

\* What a class would have if block b and those in it were left.
Before(attributes, b) ==
    [c \in Classes |->
        IF attributes[c] # None /\ \E k \in Nat : k >= b /\ attributes[c].by = <<k>>
        THEN [of |-> attributes[c].of, by |-> <<>>] ELSE attributes[c]]

\* getattr on a class, given what each class has.
LookupIn(attributes, c) ==
    attributes[Mro[c][First({i \in DOMAIN Mro[c] : attributes[Mro[c][i]] # None})]]

\* A block that is left restores what it found.
Undoable ==
    \A b \in 1..Len(blocks) : \A c \in Classes : blocks[b].found[c] # None =>
        c \in loaded /\ LookupIn(Before(own, b), c) = blocks[b].found[c]

RestoreInv == PatchInv /\ Genuine /\ Undoable

\* A block that has set its hook has intercepted every embeddings class, or one
\* around it has, and patches the chat models next.
Covered(b) ==
    \A c \in loaded \cap Under(Embeddings) : \E k \in 1..b : Lookup(c).by = <<k>>

Walk ==
    /\ \A i \in DOMAIN todo : todo[i] = Hook =>
          /\ i = Len(todo) - 1 /\ todo[Len(todo)] = BaseChatModel
          /\ \A c \in loaded \cap Under(Embeddings) :
                own[c] # None => own[c].by # <<>> \/ \E j \in 1..(i - 1) : todo[j] = c
    /\ todo # <<>> /\ Holds(Len(blocks), Hook) => Len(todo) = 1 /\ todo[1] = BaseChatModel

Seam ==
    \A b \in 1..Len(blocks) :
        /\ Holds(b, Hook) /\ ~(b = Len(blocks) /\ leaving # "no") => Covered(b)
        /\ Holds(b, Hook) /\ ~(b = Len(blocks) /\ ~TestRuns) => Holds(b, BaseChatModel)

SeamInv == PatchInv /\ Walk /\ Seam

-----------------------------------------------------------------------------
(* Looking an attribute up *)

\* Whether c finds the attribute at all, and at its i-th class first.
Finds(attributes, c) == \E i \in DOMAIN Mro[c] : attributes[Mro[c][i]] # None

FindsAt(attributes, c, i) ==
    /\ i \in DOMAIN Mro[c] /\ attributes[Mro[c][i]] # None
    /\ \A j \in DOMAIN Mro[c] : j < i => attributes[Mro[c][j]] = None

\* The resolution order of a class begins with it.
LEMMA MroFacts ==
    ASSUME NEW c \in Classes
    PROVE  /\ Mro[c] \in Seq(Classes) /\ Len(Mro[c]) \in Nat /\ 1 \in DOMAIN Mro[c] /\ Mro[c][1] = c
           /\ DOMAIN Mro[c] = 1..Len(Mro[c]) /\ \A i \in DOMAIN Mro[c] : Mro[c][i] \in Classes
<1>1. Mro[c] \in Seq(Classes) /\ Mro[c] # <<>> /\ Head(Mro[c]) = c
  BY MroAssumption
<1>2. Len(Mro[c]) \in Nat /\ Len(Mro[c]) # 0 /\ DOMAIN Mro[c] = 1..Len(Mro[c])
  BY <1>1
<1> QED BY <1>1, <1>2

\* A class that finds the attribute finds it somewhere first.
LEMMA LookupFinds ==
    ASSUME NEW attributes, NEW c \in Classes, Finds(attributes, c)
    PROVE  \E i \in DOMAIN Mro[c] :
              FindsAt(attributes, c, i) /\ LookupIn(attributes, c) = attributes[Mro[c][i]]
<1> DEFINE P == {i \in DOMAIN Mro[c] : attributes[Mro[c][i]] # None}
<1>1. P \in SUBSET Nat /\ P # {}
  BY MroFacts DEF Finds
<1>2. First(P) \in P /\ \A j \in P : First(P) <= j
  BY <1>1, FirstIsLeast
<1>3. ASSUME NEW j \in DOMAIN Mro[c], j < First(P) PROVE attributes[Mro[c][j]] = None
  <2>1. j \notin P
    BY <1>1, <1>2, <1>3
  <2> QED BY <2>1
<1>4. LookupIn(attributes, c) = attributes[Mro[c][First(P)]]
  BY DEF LookupIn
<1> QED BY <1>2, <1>3, <1>4 DEF FindsAt

\* It is found there and nowhere else.
LEMMA LookupIs ==
    ASSUME NEW attributes, NEW c \in Classes, NEW i, FindsAt(attributes, c, i)
    PROVE  Finds(attributes, c) /\ LookupIn(attributes, c) = attributes[Mro[c][i]]
<1>1. Finds(attributes, c)
  BY DEF Finds, FindsAt
<1>2. PICK k \in DOMAIN Mro[c] :
         FindsAt(attributes, c, k) /\ LookupIn(attributes, c) = attributes[Mro[c][k]]
  BY <1>1, LookupFinds
<1>3. i = k
  BY <1>2, MroFacts DEF FindsAt
<1> QED BY <1>1, <1>2, <1>3

\* The same holds of where the source defines it.
LEMMA DefinedAtFacts ==
    ASSUME NEW c \in Classes
    PROVE  /\ DefinedAt(c) \in DOMAIN Mro[c] /\ Mro[c][DefinedAt(c)] \in Defining
           /\ SourceOf(c) = Mro[c][DefinedAt(c)] /\ SourceOf(c) \in Classes
           /\ \A i \in DOMAIN Mro[c] : Mro[c][i] \in Defining => DefinedAt(c) <= i
<1> DEFINE P == {i \in DOMAIN Mro[c] : Mro[c][i] \in Defining}
<1>1. P \in SUBSET Nat /\ P # {}
  <2>1. \E i \in DOMAIN Mro[c] : Mro[c][i] \in Defining
    BY MroAssumption
  <2>2. DOMAIN Mro[c] \subseteq Nat
    BY MroFacts
  <2> QED BY <2>1, <2>2
<1>2. First(P) \in P /\ \A j \in P : First(P) <= j
  BY <1>1, FirstIsLeast
<1> QED BY <1>2, MroFacts DEF DefinedAt, SourceOf

\* A class has at least what it has itself.
LEMMA OwnIsFound ==
    ASSUME NEW attributes, NEW c \in Classes, attributes[c] # None
    PROVE  LookupIn(attributes, c) = attributes[c]
<1>1. FindsAt(attributes, c, 1)
  BY MroFacts DEF FindsAt
<1> QED BY <1>1, LookupIs, MroFacts

\* What a class finds depends on the classes it asks alone.
LEMMA LookupAgrees ==
    ASSUME NEW attributes, NEW others, NEW c \in Classes, Finds(attributes, c),
           \A i \in DOMAIN Mro[c] : attributes[Mro[c][i]] = others[Mro[c][i]]
    PROVE  LookupIn(attributes, c) = LookupIn(others, c)
<1>1. PICK i \in DOMAIN Mro[c] :
         FindsAt(attributes, c, i) /\ LookupIn(attributes, c) = attributes[Mro[c][i]]
  BY LookupFinds
<1>2. FindsAt(others, c, i)
  BY <1>1 DEF FindsAt
<1> QED BY <1>1, <1>2, LookupIs

\* A class that exists finds the method, no later than where its source has it.
LEMMA LookupLoaded ==
    ASSUME TypeOK, Attributes, NEW c \in loaded
    PROVE  /\ Lookup(c) = LookupIn(own, c) /\ Finds(own, c) /\ Lookup(c) \in Function
           /\ \E i \in DOMAIN Mro[c] : /\ FindsAt(own, c, i) /\ Lookup(c) = own[Mro[c][i]]
                                       /\ Mro[c][i] \in loaded /\ i <= DefinedAt(c)
<1>1. c \in Classes /\ own \in [Classes -> Function \cup {None}]
  BY DEF TypeOK
<1>2. DefinedAt(c) \in DOMAIN Mro[c] /\ own[Mro[c][DefinedAt(c)]] # None
  BY <1>1, DefinedAtFacts DEF Attributes
<1>3. Lookup(c) = LookupIn(own, c) /\ Finds(own, c)
  BY <1>2 DEF Lookup, LookupIn, Finds
<1>4. PICK i \in DOMAIN Mro[c] : FindsAt(own, c, i) /\ LookupIn(own, c) = own[Mro[c][i]]
  BY <1>1, <1>3, LookupFinds
<1>5. i <= DefinedAt(c)
  BY <1>1, <1>2, <1>4, MroFacts DEF FindsAt
<1>6. Mro[c][i] \in loaded /\ Mro[c][i] \in Classes
  BY <1>1, <1>4, MroFacts DEF Attributes
<1>7. Lookup(c) \in Function
  BY <1>1, <1>3, <1>4, <1>6 DEF FindsAt
<1> QED BY <1>3, <1>4, <1>5, <1>6, <1>7

-----------------------------------------------------------------------------
(* Functions and blocks *)

\* A function is a record that None is not.
LEMMA FunctionFacts ==
    /\ None \notin Function
    /\ \A f \in Function : f.of \in Classes /\ f.by \in Seq(1..MaxBlocks)
    /\ \A c \in Classes : Plain(c) \in Function /\ Plain(c).of = c /\ Plain(c).by = <<>>
    /\ \A f, g \in Function : f.of = g.of /\ f.by = g.by => f = g
<1> USE RootsAssumption
<1>1. \A s \in Seq(1..MaxBlocks) : s \in Seq(Nat)
  OBVIOUS
<1>2. None \notin Function
  BY <1>1 DEF Function
<1>3. <<>> \in Seq(1..MaxBlocks)
  OBVIOUS
<1>4. \A c \in Classes : Plain(c) \in Function /\ Plain(c).of = c /\ Plain(c).by = <<>>
  BY <1>3 DEF Plain, Function
<1>5. \A f, g \in Function : f.of = g.of /\ f.by = g.by => f = g
  BY DEF Function
<1> QED BY <1>2, <1>4, <1>5 DEF Function

\* What a block makes of a function that is not patched.
LEMMA WrapFacts ==
    ASSUME NEW f \in Function, ~Patched(f), NEW b \in 1..MaxBlocks
    PROVE  Wrap(f, b) \in Function /\ Wrap(f, b).of = f.of /\ Wrap(f, b).by = <<b>>
<1>1. f.by = <<>> /\ f.of \in Classes
  BY FunctionFacts DEF Patched
<1>2. Wrap(f, b).by = <<b>> \o <<>> /\ Wrap(f, b) = [of |-> f.of, by |-> <<b>> \o f.by]
  BY <1>1 DEF Wrap, Function
<1>3. <<b>> \in Seq(1..MaxBlocks) /\ <<b>> \o <<>> = <<b>>
  OBVIOUS
<1>4. Wrap(f, b) = [of |-> f.of, by |-> <<b>>]
  BY <1>1, <1>2, <1>3
<1> QED BY <1>1, <1>3, <1>4 DEF Function

\* Blocks are different if one wraps once as the other does.
LEMMA OnceFacts ==
    ASSUME NEW b, NEW k
    PROVE  <<b>> # <<>> /\ (<<b>> = <<k>> => b = k) /\ Len(<<b>>) = 1
OBVIOUS

\* What a stack of blocks holds.
LEMMA BlockFacts ==
    ASSUME TypeOK, NEW b \in 1..Len(blocks)
    PROVE  /\ blocks[b] \in Block /\ b \in 1..MaxBlocks /\ b \in Nat /\ Len(blocks) \in Nat
           /\ DOMAIN blocks = 1..Len(blocks)
           /\ DOMAIN blocks[b].undo = 1..Len(blocks[b].undo) /\ Len(blocks[b].undo) \in Nat
           /\ \A i \in DOMAIN blocks[b].undo :
                 /\ blocks[b].undo[i].target \in Classes \cup {Hook}
                 /\ blocks[b].undo[i].original \in Function \cup {None}
<1>1. blocks \in Seq(Block) /\ Len(blocks) <= MaxBlocks /\ Len(blocks) \in Nat
  BY DEF TypeOK
<1>2. blocks[b] \in Block /\ DOMAIN blocks = 1..Len(blocks)
  BY <1>1
<1>3. b \in 1..MaxBlocks /\ b \in Nat
  BY <1>1, RootsAssumption
<1>4. blocks[b].undo \in Seq(Entry)
  BY <1>2 DEF Block
<1>5. /\ DOMAIN blocks[b].undo = 1..Len(blocks[b].undo) /\ Len(blocks[b].undo) \in Nat
      /\ \A i \in DOMAIN blocks[b].undo : blocks[b].undo[i] \in Entry
  BY <1>4
<1> QED BY <1>1, <1>2, <1>3, <1>5 DEF Entry

\* A step that changes no block but what b has to restore.
Keeps(b) ==
    /\ Len(blocks') = Len(blocks)
    /\ \A k \in 1..Len(blocks) : k # b => blocks'[k] = blocks[k]
    /\ blocks'[b].previous = blocks[b].previous /\ blocks'[b].found = blocks[b].found

\* One that adds an entry to that, and one that drops the last.
Adds(b, target, original) ==
    /\ Keeps(b) /\ Len(blocks'[b].undo) = Len(blocks[b].undo) + 1
    /\ DOMAIN blocks'[b].undo = 1..(Len(blocks[b].undo) + 1)
    /\ \A i \in DOMAIN blocks[b].undo : blocks'[b].undo[i] = blocks[b].undo[i]
    /\ blocks'[b].undo[Len(blocks[b].undo) + 1].target = target
    /\ blocks'[b].undo[Len(blocks[b].undo) + 1].original = original

Drops(b) ==
    /\ Keeps(b) /\ Len(blocks[b].undo) # 0
    /\ DOMAIN blocks'[b].undo = 1..(Len(blocks[b].undo) - 1)
    /\ \A i \in 1..(Len(blocks[b].undo) - 1) : blocks'[b].undo[i] = blocks[b].undo[i]

\* To note a target is to add an entry.
LEMMA NotedAdds ==
    ASSUME TypeOK, NEW b \in 1..Len(blocks), NEW c \in Classes \cup {Hook},
           NEW f \in Function \cup {None}, blocks' = Noted(b, c, f)
    PROVE  Adds(b, c, f) /\ blocks' \in Seq(Block)
<1> DEFINE e == [target |-> c, original |-> f]
           u == blocks[b].undo
<1>1. blocks \in Seq(Block) /\ blocks[b] \in Block /\ Len(blocks) \in Nat /\ DOMAIN blocks = 1..Len(blocks)
  BY BlockFacts DEF TypeOK
<1>2. u \in Seq(Entry)
  BY <1>1 DEF Block
<1>3. e \in Entry
  BY DEF Entry
<1>4. /\ Append(u, e) \in Seq(Entry)
      /\ Len(Append(u, e)) = Len(u) + 1 /\ Append(u, e)[Len(u) + 1] = e
      /\ DOMAIN Append(u, e) = 1..(Len(u) + 1) /\ DOMAIN u = 1..Len(u)
      /\ \A i \in DOMAIN u : Append(u, e)[i] = u[i]
  <2> HIDE DEF e, u
  <2> QED BY <1>2, <1>3
<1>5. blocks' = [blocks EXCEPT ![b] = [blocks[b] EXCEPT !.undo = Append(u, e)]]
  BY DEF Noted
<1> HIDE DEF e, u
<1>6. LET k == [blocks[b] EXCEPT !.undo = Append(u, e)]
      IN  k \in Block /\ k.undo = Append(u, e) /\ k.previous = blocks[b].previous /\ k.found = blocks[b].found
  BY <1>1, <1>4 DEF Block
<1>7. /\ blocks' \in Seq(Block) /\ Len(blocks') = Len(blocks)
      /\ \A k \in 1..Len(blocks) : k # b => blocks'[k] = blocks[k]
      /\ blocks'[b] = [blocks[b] EXCEPT !.undo = Append(u, e)]
  BY <1>1, <1>5, <1>6
<1>8. blocks'[b].undo = Append(u, e)
  BY <1>6, <1>7
<1>9. e.target = c /\ e.original = f
  BY DEF e
<1> QED BY <1>4, <1>6, <1>7, <1>8, <1>9 DEF Adds, Keeps, u

\* To undo is to drop the last entry.
LEMMA UndoneDrops ==
    ASSUME TypeOK, Entering, RestoreClass \/ RestoreHook
    PROVE  /\ Drops(Len(blocks)) /\ blocks' \in Seq(Block)
           /\ Len(blocks) \in 1..Len(blocks) /\ Len(blocks[Len(blocks)].undo) \in DOMAIN blocks[Len(blocks)].undo
           /\ Undone = blocks[Len(blocks)].undo[Len(blocks[Len(blocks)].undo)]
<1> DEFINE n == Len(blocks)
           u == blocks[n].undo
           m == Len(u) - 1
<1>1. Undoing /\ blocks' = [blocks EXCEPT ![Len(blocks)].undo = Front(@)]
  BY DEF RestoreClass, RestoreHook
<1>2. blocks # <<>> /\ blocks \in Seq(Block)
  BY <1>1 DEF Undoing, Entering, TypeOK
<1>3. n \in 1..n /\ n \in Nat /\ blocks[n] \in Block /\ DOMAIN blocks = 1..n
  BY <1>2
<1>4. u \in Seq(Entry) /\ u # <<>>
  BY <1>1, <1>3 DEF Block, Undoing, Innermost
<1> HIDE DEF u
<1>5. Len(u) \in Nat /\ Len(u) # 0 /\ m \in Nat /\ DOMAIN u = 1..Len(u) /\ m <= Len(u)
  BY <1>4
<1>6. Front(u) = SubSeq(u, 1, m)
  BY DEF Front
<1> HIDE DEF m
<1>7. /\ SubSeq(u, 1, m) \in Seq(Entry)
      /\ DOMAIN SubSeq(u, 1, m) = 1..m /\ \A i \in 1..m : SubSeq(u, 1, m)[i] = u[i]
  <2>1. \A i \in 1..m : u[i] \in Entry
    BY <1>4, <1>5
  <2>2. m = 0 \/ 1 <= m
    BY <1>5
  <2> QED BY <1>4, <1>5, <2>1, <2>2
<1>8. blocks' = [blocks EXCEPT ![n] = [blocks[n] EXCEPT !.undo = SubSeq(u, 1, m)]]
  BY <1>1, <1>6 DEF u
<1>9. LET k == [blocks[n] EXCEPT !.undo = SubSeq(u, 1, m)]
      IN  k \in Block /\ k.undo = SubSeq(u, 1, m) /\ k.previous = blocks[n].previous /\ k.found = blocks[n].found
  BY <1>3, <1>7 DEF Block
<1>10. /\ blocks' \in Seq(Block) /\ Len(blocks') = Len(blocks)
       /\ \A k \in 1..Len(blocks) : k # n => blocks'[k] = blocks[k]
       /\ blocks'[n] = [blocks[n] EXCEPT !.undo = SubSeq(u, 1, m)]
  BY <1>2, <1>3, <1>8, <1>9
<1>11. blocks'[n].undo = SubSeq(u, 1, m)
  BY <1>9, <1>10
<1>12. Drops(n)
  BY <1>5, <1>7, <1>9, <1>10, <1>11 DEF Drops, Keeps, u, m
<1>13. Len(u) \in DOMAIN u /\ Undone = u[Len(u)]
  BY <1>5 DEF Undone, Last, Innermost, u
<1> QED BY <1>3, <1>10, <1>12, <1>13 DEF u

\* A block that begins changes none of those around it.
Grows ==
    /\ Len(blocks') = Len(blocks) + 1 /\ Len(blocks) < MaxBlocks
    /\ \A k \in 1..Len(blocks) : blocks'[k] = blocks[k]
    /\ blocks'[Len(blocks) + 1].undo = <<>> /\ blocks'[Len(blocks) + 1].previous = hook
    /\ blocks'[Len(blocks) + 1].found = [c \in Classes |-> IF c \in loaded THEN Lookup(c) ELSE None]

\* To begin a block is to grow the stack by an empty one.
LEMMA BeginGrows ==
    ASSUME TypeOK, Attributes, NEW targets, Begin(targets)
    PROVE  Grows /\ blocks' \in Seq(Block) /\ Len(blocks) \in Nat
<1> DEFINE found == [c \in Classes |-> IF c \in loaded THEN Lookup(c) ELSE None]
           k == [undo |-> <<>>, previous |-> hook, found |-> found]
<1>1. blocks \in Seq(Block) /\ Len(blocks) \in Nat /\ Len(blocks) < MaxBlocks /\ hook \in 0..MaxBlocks
  BY RootsAssumption DEF TypeOK, Begin
<1>2. found \in [Classes -> Function \cup {None}]
  <2>1. \A c \in loaded : Lookup(c) \in Function
    BY LookupLoaded
  <2> QED BY <2>1
<1>3. <<>> \in Seq(Entry)
  OBVIOUS
<1> HIDE DEF found
<1>4. k \in Block /\ k.undo = <<>> /\ k.previous = hook /\ k.found = found
  BY <1>1, <1>2, <1>3 DEF Block
<1>5. blocks' = Append(blocks, k)
  BY DEF Begin, found
<1> HIDE DEF k
<1>6. /\ blocks' \in Seq(Block) /\ Len(blocks') = Len(blocks) + 1 /\ blocks'[Len(blocks) + 1] = k
      /\ \A i \in 1..Len(blocks) : blocks'[i] = blocks[i]
  BY <1>1, <1>4, <1>5
<1> QED BY <1>1, <1>4, <1>6 DEF Grows, found

\* A block that is left changes none of those around it.
Shrinks ==
    /\ Len(blocks') = Len(blocks) - 1 /\ Len(blocks) \in Nat /\ Len(blocks) # 0
    /\ \A k \in 1..(Len(blocks) - 1) : blocks'[k] = blocks[k]

\* To have left one is to shrink the stack.
LEMMA LeftShrinks ==
    ASSUME TypeOK, Entering, Left
    PROVE  Shrinks /\ blocks' \in Seq(Block)
<1> DEFINE m == Len(blocks) - 1
<1>1. blocks # <<>> /\ blocks \in Seq(Block) /\ blocks' = Front(blocks)
  BY DEF Left, Entering, TypeOK
<1>2. Len(blocks) \in Nat /\ Len(blocks) # 0 /\ m \in Nat /\ m <= Len(blocks)
  BY <1>1
<1>3. blocks' = SubSeq(blocks, 1, m)
  BY <1>1 DEF Front
<1> HIDE DEF m
<1>4. \A i \in 1..m : blocks[i] \in Block
  BY <1>1, <1>2
<1>5. m = 0 \/ 1 <= m
  BY <1>2
<1>6. SubSeq(blocks, 1, m) \in Seq(Block) /\ Len(SubSeq(blocks, 1, m)) = m
      /\ \A i \in 1..m : SubSeq(blocks, 1, m)[i] = blocks[i]
  BY <1>1, <1>2, <1>4, <1>5
<1> QED BY <1>2, <1>3, <1>6 DEF Shrinks, m

\* What the blocks hold after an entry was added, and after one was dropped.
LEMMA HoldsAdds ==
    ASSUME TypeOK, NEW b \in 1..Len(blocks), NEW x, NEW f, Adds(b, x, f)
    PROVE  \A k \in 1..Len(blocks) : \A target :
              Holds(k, target)' <=> Holds(k, target) \/ (k = b /\ target = x)
<1> SUFFICES ASSUME NEW k \in 1..Len(blocks), NEW target
             PROVE  Holds(k, target)' <=> Holds(k, target) \/ (k = b /\ target = x)
  OBVIOUS
<1>1. CASE k # b
  BY <1>1 DEF Adds, Keeps, Holds, HoldsIn
<1>2. CASE k = b
  <2>1. DOMAIN blocks[b].undo = 1..Len(blocks[b].undo) /\ Len(blocks[b].undo) \in Nat
    BY BlockFacts
  <2>2. \A i \in DOMAIN blocks'[b].undo : i \in DOMAIN blocks[b].undo \/ i = Len(blocks[b].undo) + 1
    BY <2>1 DEF Adds
  <2>3. ASSUME Holds(b, target) PROVE Holds(b, target)'
    BY <2>1, <2>3 DEF Adds, Holds, HoldsIn
  <2>4. ASSUME target = x PROVE Holds(b, target)'
    <3>1. \E i \in DOMAIN blocks'[b].undo : blocks'[b].undo[i].target = target
      <4>1. /\ Len(blocks[b].undo) + 1 \in DOMAIN blocks'[b].undo
            /\ blocks'[b].undo[Len(blocks[b].undo) + 1].target = target
        BY <2>1, <2>4 DEF Adds
      <4> QED BY <4>1
    <3> QED BY <3>1 DEF Holds, HoldsIn
  <2>5. ASSUME Holds(b, target)', target # x PROVE Holds(b, target)
    BY <2>2, <2>5 DEF Adds, Holds, HoldsIn
  <2> QED BY <1>2, <2>3, <2>4, <2>5
<1> QED BY <1>1, <1>2

\* An entry dropped is held no longer, as no block holds two of one target.
LEMMA HoldsDrops ==
    ASSUME TypeOK, Undos, NEW b \in 1..Len(blocks), Drops(b)
    PROVE  \A k \in 1..Len(blocks) : \A target :
              Holds(k, target)' <=>
                  Holds(k, target) /\ ~(k = b /\ target = blocks[b].undo[Len(blocks[b].undo)].target)
<1> SUFFICES ASSUME NEW k \in 1..Len(blocks), NEW target
             PROVE  Holds(k, target)' <=>
                  Holds(k, target) /\ ~(k = b /\ target = blocks[b].undo[Len(blocks[b].undo)].target)
  OBVIOUS
<1>1. CASE k # b
  BY <1>1 DEF Drops, Keeps, Holds, HoldsIn
<1>2. CASE k = b
  <2> DEFINE m == Len(blocks[b].undo)
  <2>1. DOMAIN blocks[b].undo = 1..m /\ m \in Nat /\ m # 0
    BY BlockFacts DEF Drops
  <2>2. /\ DOMAIN blocks'[b].undo = 1..(m - 1)
        /\ \A i \in 1..(m - 1) : blocks'[b].undo[i] = blocks[b].undo[i]
    BY DEF Drops
  <2>3. \A i, j \in DOMAIN blocks[b].undo :
           blocks[b].undo[i].target = blocks[b].undo[j].target => i = j
    BY DEF Undos
  <2> HIDE DEF m
  <2>4. ASSUME NEW i \in 1..m, blocks[b].undo[i].target = target, target # blocks[b].undo[m].target
        PROVE  Holds(b, target)'
    <3>1. i \in 1..(m - 1)
      BY <2>1, <2>4
    <3> QED BY <2>2, <2>4, <3>1 DEF Holds, HoldsIn
  <2>5. ASSUME NEW i \in 1..(m - 1), blocks[b].undo[i].target = target
        PROVE  Holds(b, target) /\ target # blocks[b].undo[m].target
    <3>1. i \in 1..m /\ m \in 1..m /\ i # m
      BY <2>1
    <3> QED BY <2>1, <2>3, <2>5, <3>1 DEF Holds, HoldsIn
  <2>6. Holds(b, target)' => \E i \in 1..(m - 1) : blocks[b].undo[i].target = target
    BY <2>2 DEF Holds, HoldsIn
  <2>7. Holds(b, target) => \E i \in 1..m : blocks[b].undo[i].target = target
    BY <2>1 DEF Holds, HoldsIn
  <2> QED BY <1>2, <2>4, <2>5, <2>6, <2>7 DEF m
<1> QED BY <1>1, <1>2

\* The undo stacks fit after an entry was added, and after one was dropped.
LEMMA UndosAdds ==
    ASSUME TypeOK, Undos, NEW b \in 1..Len(blocks), NEW x, NEW f, Adds(b, x, f),
           \A k \in 1..Len(blocks) : \A i \in DOMAIN blocks[k].undo :
              FitsIn(own', loaded', k, blocks[k].undo[i]),
           ~Holds(b, x),
           x # Hook => /\ x \in loaded' /\ own'[x] # None /\ own'[x].by = <<b>>
                       /\ f # None /\ f.by = <<>> /\ f.of = own'[x].of
    PROVE  Undos'
<1> DEFINE m == Len(blocks[b].undo)
<1>1. DOMAIN blocks[b].undo = 1..m /\ m \in Nat
  BY BlockFacts
<1>2. /\ \A k \in 1..Len(blocks) : k # b => blocks'[k] = blocks[k]
      /\ DOMAIN blocks'[b].undo = 1..(m + 1) /\ Len(blocks') = Len(blocks)
      /\ \A i \in 1..m : blocks'[b].undo[i] = blocks[b].undo[i]
      /\ blocks'[b].undo[m + 1].target = x /\ blocks'[b].undo[m + 1].original = f
  BY <1>1 DEF Adds, Keeps
<1>3. FitsIn(own', loaded', b, blocks'[b].undo[m + 1])
  BY <1>2 DEF FitsIn
<1>4. \A i \in 1..m : blocks[b].undo[i].target # x
  BY <1>1 DEF Holds, HoldsIn
<1> HIDE DEF m
<1>5. \A i \in 1..(m + 1) : i \in 1..m \/ i = m + 1
  BY <1>1
<1>6. \A i \in DOMAIN blocks'[b].undo : FitsIn(own', loaded', b, blocks'[b].undo[i])
  BY <1>1, <1>2, <1>3, <1>5
<1>7. \A i, j \in 1..m : blocks[b].undo[i].target = blocks[b].undo[j].target => i = j
  BY <1>1 DEF Undos
<1>8. \A i, j \in DOMAIN blocks'[b].undo :
         blocks'[b].undo[i].target = blocks'[b].undo[j].target => i = j
  BY <1>2, <1>4, <1>5, <1>7
<1>9. ASSUME NEW k \in 1..Len(blocks), k # b
      PROVE  \A i \in DOMAIN blocks'[k].undo :
                /\ FitsIn(own', loaded', k, blocks'[k].undo[i])
                /\ \A j \in DOMAIN blocks'[k].undo :
                      blocks'[k].undo[i].target = blocks'[k].undo[j].target => i = j
  BY <1>2, <1>9 DEF Undos
<1>10. ASSUME NEW k \in 1..Len(blocks)
       PROVE  \A i \in DOMAIN blocks'[k].undo :
                 /\ FitsIn(own', loaded', k, blocks'[k].undo[i])
                 /\ \A j \in DOMAIN blocks'[k].undo :
                       blocks'[k].undo[i].target = blocks'[k].undo[j].target => i = j
  <2>1. CASE k = b
    BY <1>6, <1>8, <2>1
  <2>2. CASE k # b
    BY <1>9, <2>2
  <2> QED BY <2>1, <2>2
<1> QED BY <1>2, <1>10 DEF Undos

\* And after one was dropped.
LEMMA UndosDrops ==
    ASSUME TypeOK, Undos, NEW b \in 1..Len(blocks), Drops(b),
           \A k \in 1..Len(blocks) : \A i \in DOMAIN blocks[k].undo :
              ~(k = b /\ i = Len(blocks[b].undo)) => FitsIn(own', loaded', k, blocks[k].undo[i])
    PROVE  Undos'
<1> DEFINE m == Len(blocks[b].undo)
<1>1. DOMAIN blocks[b].undo = 1..m /\ m \in Nat /\ m # 0
  BY BlockFacts DEF Drops
<1>2. /\ \A k \in 1..Len(blocks) : k # b => blocks'[k] = blocks[k]
      /\ DOMAIN blocks'[b].undo = 1..(m - 1) /\ Len(blocks') = Len(blocks)
      /\ \A i \in 1..(m - 1) : blocks'[b].undo[i] = blocks[b].undo[i]
  BY DEF Drops, Keeps
<1> HIDE DEF m
<1>3. \A i \in 1..(m - 1) : i \in 1..m /\ i # m
  BY <1>1
<1>4. \A i \in 1..(m - 1) : FitsIn(own', loaded', b, blocks'[b].undo[i])
  BY <1>1, <1>2, <1>3 DEF m
<1>5. \A k \in 1..Len(blocks) : k # b => \A i \in DOMAIN blocks[k].undo : FitsIn(own', loaded', k, blocks[k].undo[i])
  OBVIOUS
<1>6. \A i, j \in 1..m : blocks[b].undo[i].target = blocks[b].undo[j].target => i = j
  BY <1>1 DEF Undos
<1>7. \A i, j \in DOMAIN blocks'[b].undo :
         blocks'[b].undo[i].target = blocks'[b].undo[j].target => i = j
  BY <1>2, <1>3, <1>6
<1>8. ASSUME NEW k \in 1..Len(blocks), k # b
      PROVE  \A i \in DOMAIN blocks'[k].undo :
                /\ FitsIn(own', loaded', k, blocks'[k].undo[i])
                /\ \A j \in DOMAIN blocks'[k].undo :
                      blocks'[k].undo[i].target = blocks'[k].undo[j].target => i = j
  BY <1>2, <1>5, <1>8 DEF Undos
<1>9. ASSUME NEW k \in 1..Len(blocks)
      PROVE  \A i \in DOMAIN blocks'[k].undo :
                /\ FitsIn(own', loaded', k, blocks'[k].undo[i])
                /\ \A j \in DOMAIN blocks'[k].undo :
                      blocks'[k].undo[i].target = blocks'[k].undo[j].target => i = j
  <2>1. CASE k = b
    BY <1>2, <1>4, <1>7, <2>1
  <2>2. CASE k # b
    BY <1>8, <2>2
  <2> QED BY <2>1, <2>2
<1> QED BY <1>2, <1>9 DEF Undos

-----------------------------------------------------------------------------
(* Every step preserves the invariant *)

\* Entering a block that is to patch loaded classes, and the hook once at most.
LEMMA BeginStep ==
    ASSUME PatchInv, NEW targets \in Seq(loaded \cup {Hook}), Begin(targets),
           \A i, j \in DOMAIN targets : targets[i] = Hook /\ targets[j] = Hook => i = j
    PROVE  PatchInv'
<1>1. TypeOK /\ Attributes /\ Undos /\ Entering /\ Hooks
  BY DEF PatchInv
<1>2. Grows /\ blocks' \in Seq(Block) /\ Len(blocks) \in Nat
  BY <1>1, BeginGrows
<1>3. /\ todo' = targets /\ leaving = "no" /\ leaving' = "no"
      /\ loaded' = loaded /\ own' = own /\ hook' = hook
  BY DEF Begin, TestRuns
<1>4. /\ \A k \in 1..Len(blocks) : \A target : HoldsIn(blocks', k, target) <=> Holds(k, target)
      /\ \A target : ~HoldsIn(blocks', Len(blocks'), target)
  BY <1>2 DEF Grows, Holds, HoldsIn
<1>5. /\ hook \in 0..Len(blocks) /\ MaxBlocks \in Nat
      /\ \A k \in 1..(Len(blocks) + 1) : k \in 1..Len(blocks) \/ k = Len(blocks) + 1
  BY <1>1, <1>2, RootsAssumption DEF TypeOK
<1>6. TypeOK'
  <2>1. hook' \in 0..Len(blocks') /\ Len(blocks') <= MaxBlocks
    BY <1>2, <1>3, <1>5 DEF Grows
  <2>2. targets \in Seq(Classes \cup {Hook})
    BY <1>1 DEF TypeOK
  <2> QED BY <1>1, <1>2, <1>3, <2>1, <2>2 DEF TypeOK
<1>7. Attributes'
  <2>1. ASSUME NEW c \in Classes, own[c] # None
        PROVE  own[c].by = <<>> \/ \E b \in 1..Len(blocks') : own[c].by = <<b>> /\ HoldsIn(blocks', b, c)
    <3>1. own[c].by = <<>> \/ \E b \in 1..Len(blocks) : own[c].by = <<b>> /\ Holds(b, c)
      BY <1>1, <2>1 DEF Attributes
    <3>2. \A b \in 1..Len(blocks) : b \in 1..Len(blocks')
      BY <1>2 DEF Grows
    <3> QED BY <1>4, <3>1, <3>2
  <2> QED BY <1>1, <1>3, <2>1 DEF Attributes, Holds
<1>8. Undos'
  <2>1. ASSUME NEW b \in 1..Len(blocks), NEW i \in DOMAIN blocks'[b].undo
        PROVE  /\ FitsIn(own', loaded', b, blocks'[b].undo[i])
               /\ \A j \in DOMAIN blocks'[b].undo :
                     blocks'[b].undo[i].target = blocks'[b].undo[j].target => i = j
    BY <1>1, <1>2, <1>3 DEF Undos, Grows
  <2>2. DOMAIN blocks'[Len(blocks) + 1].undo = {} /\ Len(blocks') = Len(blocks) + 1
    BY <1>2 DEF Grows
  <2> QED BY <1>5, <2>1, <2>2 DEF Undos
<1>9. Entering'
  <2>1. \A i \in DOMAIN targets : targets[i] \in loaded \cup {Hook}
    OBVIOUS
  <2>2. Len(blocks') = Len(blocks) + 1 /\ blocks' # <<>>
    BY <1>2 DEF Grows
  <2> QED BY <1>3, <1>4, <2>1, <2>2 DEF Entering, Holds
<1>10. Hooks'
  <2>1. hook # 0 => HoldsIn(blocks', hook, Hook)
    BY <1>1, <1>4, <1>5 DEF Hooks
  <2>2. ASSUME NEW b \in 1..Len(blocks)
        PROVE  /\ blocks'[b].previous \in 0..(b - 1)
               /\ blocks'[b].previous # 0 => HoldsIn(blocks', blocks'[b].previous, Hook)
               /\ HoldsIn(blocks', b, Hook) => b <= hook'
               /\ \A k \in 1..(b - 1) : HoldsIn(blocks', k, Hook) => k <= blocks'[b].previous
    <3>1. blocks'[b] = blocks[b] /\ \A k \in 0..(b - 1) : k # 0 => k \in 1..Len(blocks)
      BY <1>2 DEF Grows
    <3>2. /\ blocks[b].previous \in 0..(b - 1)
          /\ blocks[b].previous # 0 => Holds(blocks[b].previous, Hook)
          /\ Holds(b, Hook) => b <= hook
          /\ \A k \in 1..(b - 1) : Holds(k, Hook) => k <= blocks[b].previous
      BY <1>1 DEF Hooks
    <3> QED BY <1>2, <1>3, <1>4, <3>1, <3>2
  <2>3. ASSUME NEW b, b = Len(blocks) + 1
        PROVE  /\ blocks'[b].previous \in 0..(b - 1)
               /\ blocks'[b].previous # 0 => HoldsIn(blocks', blocks'[b].previous, Hook)
               /\ ~HoldsIn(blocks', b, Hook)
               /\ \A k \in 1..(b - 1) : HoldsIn(blocks', k, Hook) => k <= blocks'[b].previous
    <3>1. blocks'[b].previous = hook /\ b - 1 = Len(blocks) /\ Len(blocks') = b
      BY <1>2, <2>3 DEF Grows
    <3>2. \A k \in 1..Len(blocks) : Holds(k, Hook) => k <= hook
      BY <1>1 DEF Hooks
    <3> QED BY <1>4, <1>5, <2>1, <3>1, <3>2
  <2>4. Len(blocks') = Len(blocks) + 1
    BY <1>2 DEF Grows
  <2> QED BY <1>3, <1>5, <2>1, <2>2, <2>3, <2>4 DEF Hooks, Holds
<1> QED BY <1>6, <1>7, <1>8, <1>9, <1>10 DEF PatchInv


\* The hook is as it should be after a step that notes or undoes no hook.
LEMMA HooksKept ==
    ASSUME TypeOK, Hooks, Len(blocks') = Len(blocks), hook' = hook,
           \A k \in 1..Len(blocks) : blocks'[k].previous = blocks[k].previous,
           \A k \in 1..Len(blocks) : HoldsIn(blocks', k, Hook) <=> Holds(k, Hook)
    PROVE  Hooks'
<1>1. hook \in 0..Len(blocks) /\ Len(blocks) \in Nat
  BY DEF TypeOK
<1>2. hook # 0 => HoldsIn(blocks', hook, Hook)
  BY <1>1 DEF Hooks
<1>3. ASSUME NEW b \in 1..Len(blocks)
      PROVE  /\ blocks'[b].previous \in 0..(b - 1)
             /\ blocks'[b].previous # 0 => HoldsIn(blocks', blocks'[b].previous, Hook)
             /\ HoldsIn(blocks', b, Hook) => b <= hook'
             /\ \A k \in 1..(b - 1) : HoldsIn(blocks', k, Hook) => k <= blocks'[b].previous
  <2>1. /\ blocks[b].previous \in 0..(b - 1)
        /\ blocks[b].previous # 0 => Holds(blocks[b].previous, Hook)
        /\ Holds(b, Hook) => b <= hook
        /\ \A k \in 1..(b - 1) : Holds(k, Hook) => k <= blocks[b].previous
    BY DEF Hooks
  <2>2. \A k \in 0..(b - 1) : k # 0 => k \in 1..Len(blocks)
    BY <1>1
  <2> QED BY <2>1, <2>2
<1> QED BY <1>2, <1>3 DEF Hooks, Holds

\* An unpatched class is held by no block.
LEMMA PatchedOnce ==
    ASSUME PatchInv, NEW x \in Classes, x \in loaded => ~Patched(Lookup(x))
    PROVE  \A k \in 1..Len(blocks) : ~Holds(k, x)
<1> SUFFICES ASSUME NEW k \in 1..Len(blocks), NEW i \in DOMAIN blocks[k].undo,
                    blocks[k].undo[i].target = x
             PROVE  FALSE
  BY DEF Holds, HoldsIn
<1>1. x # Hook
  BY RootsAssumption
<1>2. FitsIn(own, loaded, k, blocks[k].undo[i])
  BY DEF PatchInv, Undos
<1>3. x \in loaded /\ own[x] # None /\ own[x].by = <<k>>
  BY <1>1, <1>2 DEF FitsIn
<1>4. Lookup(x) = own[x]
  BY <1>3, LookupLoaded, OwnIsFound DEF PatchInv
<1> QED BY <1>3, <1>4, OnceFacts DEF Patched

\* A class is patched by block b, as it is or as it is loaded.
LEMMA PatchStep ==
    ASSUME PatchInv, NEW b \in 1..Len(blocks), NEW x \in Classes, NEW f \in Function, ~Patched(f),
           x \in loaded => ~Patched(Lookup(x)),
           loaded' = loaded \cup {x}, \A i \in DOMAIN Mro[x] : Mro[x][i] \in loaded',
           own' = [own EXCEPT ![x] = Wrap(f, b)], blocks' = Noted(b, x, f)
    PROVE  /\ TypeOK /\ loaded' \subseteq Classes /\ own' \in [Classes -> Function \cup {None}]
           /\ blocks' \in Seq(Block) /\ Len(blocks') = Len(blocks)
           /\ \A k \in 1..Len(blocks) : blocks'[k].previous = blocks[k].previous
           /\ \A k \in 1..Len(blocks) : HoldsIn(blocks', k, Hook) <=> Holds(k, Hook)
           /\ Attributes' /\ Undos'
<1>1. TypeOK /\ Attributes /\ Undos /\ Entering /\ Hooks
  BY DEF PatchInv
<1>2. Adds(b, x, f) /\ blocks' \in Seq(Block) /\ b \in 1..MaxBlocks
  BY <1>1, NotedAdds, BlockFacts
<1>3. Wrap(f, b) \in Function /\ Wrap(f, b).of = f.of /\ Wrap(f, b).by = <<b>> /\ Wrap(f, b) # None
  BY <1>2, WrapFacts, FunctionFacts
<1>4. \A k \in 1..Len(blocks) : \A target :
         HoldsIn(blocks', k, target) <=> Holds(k, target) \/ (k = b /\ target = x)
  <2>1. \A k \in 1..Len(blocks) : \A target :
           Holds(k, target)' <=> Holds(k, target) \/ (k = b /\ target = x)
    BY <1>1, <1>2, HoldsAdds
  <2> QED BY <2>1 DEF Holds
<1>5. /\ own' \in [Classes -> Function \cup {None}] /\ own'[x] = Wrap(f, b)
      /\ \A c \in Classes : c # x => own'[c] = own[c]
  BY <1>1, <1>3 DEF TypeOK
<1>6. /\ Len(blocks') = Len(blocks)
      /\ \A k \in 1..Len(blocks) : blocks'[k].previous = blocks[k].previous
  BY <1>2 DEF Adds, Keeps
<1>7. x # Hook
  BY RootsAssumption
<1>8. \A k \in 1..Len(blocks) : ~Holds(k, x)
  BY PatchedOnce
<1>9. Attributes'
  <2>1. \A c \in loaded' : \A i \in DOMAIN Mro[c] : Mro[c][i] \in loaded'
    BY <1>1 DEF Attributes
  <2>2. \A c \in Classes \ loaded' : own'[c] = None
    BY <1>1, <1>5 DEF Attributes
  <2>3. \A c \in loaded' \cap Defining : own'[c] # None
    BY <1>1, <1>3, <1>5 DEF Attributes, TypeOK
  <2>4. ASSUME NEW c \in Classes, own'[c] # None
        PROVE  own'[c].by = <<>> \/ \E k \in 1..Len(blocks) : own'[c].by = <<k>> /\ HoldsIn(blocks', k, c)
    <3>1. CASE c = x
      BY <1>3, <1>4, <1>5, <3>1
    <3>2. CASE c # x
      BY <1>1, <1>4, <1>5, <2>4, <3>2 DEF Attributes
    <3> QED BY <3>1, <3>2
  <2> QED BY <1>6, <2>1, <2>2, <2>3, <2>4 DEF Attributes, Holds
<1>10. ASSUME NEW k \in 1..Len(blocks), NEW i \in DOMAIN blocks[k].undo
       PROVE  FitsIn(own', loaded', k, blocks[k].undo[i])
  <2> DEFINE e == blocks[k].undo[i]
  <2>1. FitsIn(own, loaded, k, e) /\ e.target # x /\ e.target \in Classes \cup {Hook}
    BY <1>1, <1>8, BlockFacts DEF Undos, Holds, HoldsIn
  <2> HIDE DEF e
  <2>2. FitsIn(own', loaded', k, e)
    BY <1>5, <2>1 DEF FitsIn
  <2> QED BY <2>2 DEF e
<1>11. f # None /\ f.by = <<>> /\ f.of = own'[x].of /\ x \in loaded' /\ own'[x] # None /\ own'[x].by = <<b>>
  BY <1>3, <1>5, FunctionFacts DEF Patched
<1>12. Undos'
  BY <1>1, <1>2, <1>8, <1>10, <1>11, UndosAdds
<1>13. loaded' \subseteq Classes
  BY <1>1 DEF TypeOK
<1> QED BY <1>1, <1>2, <1>4, <1>5, <1>6, <1>7, <1>9, <1>12, <1>13


\* The next target is dealt with: the others are still loaded classes or a hook
\* that has to be set.
LEMMA EnteringGoesOn ==
    ASSUME TypeOK, Entering, todo # <<>>, todo' = Tail(todo), loaded' = loaded,
           Len(blocks') = Len(blocks), blocks' \in Seq(Block), leaving' = leaving,
           Head(todo) # Hook => (HoldsIn(blocks', Len(blocks), Hook) <=> Holds(Len(blocks), Hook))
    PROVE  Entering' /\ todo' \in Seq(Classes \cup {Hook}) /\ Len(blocks) \in 1..Len(blocks)
<1>1. /\ todo \in Seq(Classes \cup {Hook}) /\ blocks \in Seq(Block)
      /\ blocks # <<>> /\ leaving = "no"
      /\ \A i \in DOMAIN todo : todo[i] \in loaded \cup {Hook}
      /\ \A i \in DOMAIN todo : todo[i] = Hook =>
            ~Holds(Len(blocks), Hook) /\ \A j \in DOMAIN todo : todo[j] = Hook => i = j
  BY DEF TypeOK, Entering
<1>2. /\ 1 \in DOMAIN todo /\ todo[1] = Head(todo) /\ todo' \in Seq(Classes \cup {Hook})
      /\ \A i \in DOMAIN todo' : /\ i + 1 \in DOMAIN todo /\ i + 1 # 1 /\ i \in Nat
                                 /\ todo'[i] = todo[i + 1]
  BY <1>1
<1>3. Len(blocks) \in 1..Len(blocks) /\ blocks' # <<>>
  BY <1>1
<1>4. \A i \in DOMAIN todo' : todo'[i] \in loaded' \cup {Hook}
  BY <1>1, <1>2
<1>5. ASSUME NEW i \in DOMAIN todo', todo'[i] = Hook
      PROVE  /\ ~HoldsIn(blocks', Len(blocks), Hook)
             /\ \A j \in DOMAIN todo' : todo'[j] = Hook => i = j
  <2>1. i + 1 \in DOMAIN todo /\ i + 1 # 1 /\ todo[i + 1] = Hook /\ i \in Nat
    BY <1>2, <1>5
  <2>2. Head(todo) # Hook /\ ~Holds(Len(blocks), Hook)
    BY <1>1, <1>2, <2>1
  <2>3. ASSUME NEW j \in DOMAIN todo', todo'[j] = Hook PROVE i = j
    <3>1. j + 1 \in DOMAIN todo /\ todo[j + 1] = Hook /\ j \in Nat
      BY <1>2, <2>3
    <3>2. i + 1 = j + 1
      BY <1>1, <2>1, <3>1
    <3> QED BY <2>1, <3>1, <3>2
  <2> QED BY <2>2, <2>3
<1> QED BY <1>1, <1>2, <1>3, <1>4, <1>5 DEF Entering, Holds

\* A class is patched as a block is entered.
LEMMA InstallStep ==
    ASSUME PatchInv, Install
    PROVE  PatchInv'
<1>1. TypeOK /\ Attributes /\ Undos /\ Entering /\ Hooks
  BY DEF PatchInv
<1> DEFINE x == Head(todo)
<1>2. /\ todo # <<>> /\ x # Hook /\ ~Patched(Lookup(x)) /\ todo' = Tail(todo)
      /\ own' = [own EXCEPT ![x] = Wrap(Lookup(x), Len(blocks))]
      /\ blocks' = Noted(Len(blocks), x, Lookup(x))
      /\ loaded' = loaded /\ hook' = hook /\ leaving' = leaving
  BY DEF Install
<1> HIDE DEF x
<1>3. x \in loaded /\ Len(blocks) \in 1..Len(blocks)
  <2>1. blocks # <<>> /\ blocks \in Seq(Block) /\ todo \in Seq(Classes \cup {Hook})
    BY <1>1, <1>2 DEF Entering, TypeOK
  <2>2. 1 \in DOMAIN todo /\ todo[1] = x
    BY <1>2, <2>1 DEF x
  <2> QED BY <1>1, <1>2, <2>1, <2>2 DEF Entering
<1>4. x \in Classes /\ Lookup(x) \in Function /\ \A i \in DOMAIN Mro[x] : Mro[x][i] \in loaded'
  BY <1>1, <1>2, <1>3, LookupLoaded DEF TypeOK, Attributes
<1>5. loaded' = loaded \cup {x}
  BY <1>2, <1>3
<1>6. /\ own' \in [Classes -> Function \cup {None}]
      /\ blocks' \in Seq(Block) /\ Len(blocks') = Len(blocks)
      /\ \A k \in 1..Len(blocks) : blocks'[k].previous = blocks[k].previous
      /\ \A k \in 1..Len(blocks) : HoldsIn(blocks', k, Hook) <=> Holds(k, Hook)
      /\ Attributes' /\ Undos'
  BY <1>2, <1>3, <1>4, <1>5, PatchStep
<1>7. Entering' /\ todo' \in Seq(Classes \cup {Hook})
  BY <1>1, <1>2, <1>3, <1>6, EnteringGoesOn
<1>8. Hooks'
  BY <1>1, <1>2, <1>6, HooksKept
<1>9. TypeOK'
  BY <1>1, <1>2, <1>6, <1>7 DEF TypeOK
<1> QED BY <1>6, <1>7, <1>8, <1>9 DEF PatchInv

\* A class is patched as it is loaded, by the block whose hook sees it.
LEMMA InterceptStep ==
    ASSUME PatchInv, NEW c \in Classes, InterceptNew(c)
    PROVE  PatchInv'
<1>1. TypeOK /\ Attributes /\ Undos /\ Entering /\ Hooks
  BY DEF PatchInv
<1>2. /\ TestRuns /\ c \notin loaded /\ hook # 0 /\ \A i \in DOMAIN Mro[c] : Mro[c][i] \in loaded \cup {c}
      /\ own' = [own EXCEPT ![c] = Wrap(Plain(c), hook)]
      /\ blocks' = Noted(hook, c, Plain(c)) /\ loaded' = loaded \cup {c}
      /\ hook' = hook /\ todo' = todo /\ leaving' = leaving
  BY DEF InterceptNew, Loadable, Hooked
<1>3. hook \in 1..Len(blocks) /\ Len(blocks) \in Nat
  BY <1>1, <1>2 DEF TypeOK
<1>4. Plain(c) \in Function /\ ~Patched(Plain(c))
  BY FunctionFacts DEF Patched
<1>5. /\ own' \in [Classes -> Function \cup {None}] /\ loaded' \subseteq Classes
      /\ blocks' \in Seq(Block) /\ Len(blocks') = Len(blocks)
      /\ \A k \in 1..Len(blocks) : blocks'[k].previous = blocks[k].previous
      /\ \A k \in 1..Len(blocks) : HoldsIn(blocks', k, Hook) <=> Holds(k, Hook)
      /\ Attributes' /\ Undos'
  BY <1>2, <1>3, <1>4, PatchStep
<1>6. Entering'
  <2>1. todo' = <<>> /\ leaving' = "no"
    BY <1>2 DEF TestRuns
  <2> QED BY <2>1 DEF Entering
<1>7. Hooks'
  BY <1>1, <1>2, <1>5, HooksKept
<1>8. TypeOK'
  BY <1>1, <1>2, <1>5 DEF TypeOK
<1> QED BY <1>5, <1>6, <1>7, <1>8 DEF PatchInv

\* A class is loaded that no hook sees.
LEMMA LoadStep ==
    ASSUME PatchInv, NEW c \in Classes, LoadClass(c)
    PROVE  PatchInv'
<1>1. TypeOK /\ Attributes /\ Undos /\ Entering /\ Hooks
  BY DEF PatchInv
<1>2. /\ c \notin loaded /\ \A i \in DOMAIN Mro[c] : Mro[c][i] \in loaded \cup {c}
      /\ own' = [own EXCEPT ![c] = IF c \in Defining THEN Plain(c) ELSE None]
      /\ loaded' = loaded \cup {c}
      /\ blocks' = blocks /\ hook' = hook /\ todo' = todo /\ leaving' = leaving
  BY DEF LoadClass, Loadable
<1>3. /\ own'[c] = IF c \in Defining THEN Plain(c) ELSE None
      /\ own' \in [Classes -> Function \cup {None}]
      /\ \A d \in Classes : d # c => own'[d] = own[d]
  BY <1>1, <1>2, FunctionFacts DEF TypeOK
<1>4. \A k, target : HoldsIn(blocks', k, target) <=> Holds(k, target)
  BY <1>2 DEF Holds
<1>5. own'[c] # None => own'[c].by = <<>>
  BY <1>3, FunctionFacts
<1>6. Attributes'
  <2>1. \A d \in loaded' : \A i \in DOMAIN Mro[d] : Mro[d][i] \in loaded'
    BY <1>1, <1>2 DEF Attributes
  <2>2. \A d \in Classes \ loaded' : own'[d] = None
    BY <1>1, <1>2, <1>3 DEF Attributes
  <2>3. \A d \in loaded' \cap Defining : own'[d] # None
    BY <1>1, <1>2, <1>3, FunctionFacts DEF Attributes, TypeOK
  <2>4. \A d \in Classes : own'[d] # None =>
           own'[d].by = <<>> \/ \E k \in 1..Len(blocks) : own'[d].by = <<k>> /\ Holds(k, d)
    BY <1>1, <1>3, <1>5 DEF Attributes
  <2> QED BY <1>2, <1>4, <2>1, <2>2, <2>3, <2>4 DEF Attributes, Holds
<1>7. Undos'
  <2>1. ASSUME NEW k \in 1..Len(blocks), NEW i \in DOMAIN blocks[k].undo
        PROVE  FitsIn(own', loaded', k, blocks[k].undo[i])
    <3> DEFINE e == blocks[k].undo[i]
    <3>1. FitsIn(own, loaded, k, e) /\ e.target \in Classes \cup {Hook}
      BY <1>1, BlockFacts DEF Undos
    <3> HIDE DEF e
    <3>2. FitsIn(own', loaded', k, e)
      BY <1>2, <1>3, <3>1 DEF FitsIn
    <3> QED BY <3>2 DEF e
  <2> QED BY <1>1, <1>2, <2>1 DEF Undos
<1>8. Entering'
  BY <1>1, <1>2, <1>4 DEF Entering, Holds
<1>9. Hooks'
  BY <1>1, <1>2, <1>4, HooksKept
<1>10. TypeOK'
  BY <1>1, <1>2, <1>3 DEF TypeOK
<1> QED BY <1>6, <1>7, <1>8, <1>9, <1>10 DEF PatchInv


\* A block sets its hook.
LEMMA SetHookStep ==
    ASSUME PatchInv, SetHook
    PROVE  PatchInv'
<1>1. TypeOK /\ Attributes /\ Undos /\ Entering /\ Hooks
  BY DEF PatchInv
<1> DEFINE b == Len(blocks)
<1>2. /\ todo # <<>> /\ Head(todo) = Hook /\ todo' = Tail(todo) /\ hook' = b
      /\ blocks' = Noted(b, Hook, None)
      /\ loaded' = loaded /\ own' = own /\ leaving' = leaving
  BY DEF SetHook
<1>3. b \in 1..b /\ b \in Nat /\ ~Holds(b, Hook)
  <2>1. blocks # <<>> /\ blocks \in Seq(Block) /\ todo \in Seq(Classes \cup {Hook})
    BY <1>1, <1>2 DEF Entering, TypeOK
  <2>2. 1 \in DOMAIN todo /\ todo[1] = Hook
    BY <1>2, <2>1
  <2> QED BY <1>1, <2>1, <2>2 DEF Entering
<1> HIDE DEF b
<1>4. Adds(b, Hook, None) /\ blocks' \in Seq(Block)
  BY <1>1, <1>2, <1>3, NotedAdds DEF b
<1>5. \A k \in 1..b : \A target :
         HoldsIn(blocks', k, target) <=> Holds(k, target) \/ (k = b /\ target = Hook)
  <2>1. \A k \in 1..b : \A target :
           Holds(k, target)' <=> Holds(k, target) \/ (k = b /\ target = Hook)
    BY <1>1, <1>3, <1>4, HoldsAdds DEF b
  <2> QED BY <2>1 DEF Holds
<1>6. /\ Len(blocks') = b
      /\ \A k \in 1..b : blocks'[k].previous = blocks[k].previous
  BY <1>4 DEF Adds, Keeps, b
<1>7. Attributes'
  <2>1. \A c \in Classes : own[c] # None =>
           own[c].by = <<>> \/ \E k \in 1..b : own[c].by = <<k>> /\ HoldsIn(blocks', k, c)
    BY <1>1, <1>5 DEF Attributes, b
  <2> QED BY <1>1, <1>2, <1>6, <2>1 DEF Attributes, Holds
<1>8. Undos'
  <2>1. \A k \in 1..b : \A i \in DOMAIN blocks[k].undo : FitsIn(own', loaded', k, blocks[k].undo[i])
    BY <1>1, <1>2 DEF Undos, b
  <2> QED BY <1>1, <1>3, <1>4, <2>1, UndosAdds DEF b
<1>9. Entering' /\ todo' \in Seq(Classes \cup {Hook})
  BY <1>1, <1>2, <1>4, <1>6, EnteringGoesOn DEF b
<1>10. Hooks'
  <2>1. ASSUME NEW k \in 1..b
        PROVE  /\ blocks'[k].previous \in 0..(k - 1)
               /\ blocks'[k].previous # 0 => HoldsIn(blocks', blocks'[k].previous, Hook)
               /\ HoldsIn(blocks', k, Hook) => k <= hook'
               /\ \A j \in 1..(k - 1) : HoldsIn(blocks', j, Hook) => j <= blocks'[k].previous
    <3>1. /\ blocks[k].previous \in 0..(k - 1)
          /\ blocks[k].previous # 0 => Holds(blocks[k].previous, Hook)
          /\ \A j \in 1..(k - 1) : Holds(j, Hook) => j <= blocks[k].previous
      BY <1>1 DEF Hooks, b
    <3>2. \A j \in 0..(k - 1) : j # b /\ (j # 0 => j \in 1..b)
      BY <1>3
    <3> QED BY <1>2, <1>3, <1>5, <1>6, <3>1, <3>2
  <2>2. HoldsIn(blocks', hook', Hook)
    BY <1>2, <1>3, <1>5
  <2> QED BY <1>6, <2>1, <2>2 DEF Hooks, Holds
<1>11. TypeOK'
  <2>1. hook' \in 0..Len(blocks')
    BY <1>2, <1>3, <1>6
  <2> QED BY <1>1, <1>2, <1>4, <1>6, <1>9, <2>1 DEF TypeOK, b
<1> QED BY <1>7, <1>8, <1>9, <1>10, <1>11 DEF PatchInv

\* A block that is left restores what it noted last.
LEMMA UndoFacts ==
    ASSUME PatchInv, RestoreClass \/ RestoreHook, NEW b, b = Len(blocks)
    PROVE  /\ b \in 1..Len(blocks) /\ b \in Nat /\ Drops(b) /\ blocks' \in Seq(Block)
           /\ Len(blocks[b].undo) \in DOMAIN blocks[b].undo
           /\ Undone = blocks[b].undo[Len(blocks[b].undo)]
           /\ FitsIn(own, loaded, b, Undone) /\ Holds(b, Undone.target)
           /\ Undone.target \in Classes \cup {Hook} /\ Undone.original \in Function \cup {None}
           /\ Len(blocks') = b
           /\ \A k \in 1..b : blocks'[k].previous = blocks[k].previous
           /\ \A k \in 1..b : \A target :
                 HoldsIn(blocks', k, target) <=> Holds(k, target) /\ ~(k = b /\ target = Undone.target)
           /\ \A k \in 1..b : \A i \in DOMAIN blocks[k].undo :
                 blocks[k].undo[i].target = Undone.target /\ k = b => i = Len(blocks[b].undo)
           /\ Entering'
<1>1. TypeOK /\ Attributes /\ Undos /\ Entering /\ Hooks
  BY DEF PatchInv
<1> DEFINE m == Len(blocks[b].undo)
<1>2. /\ Drops(b) /\ blocks' \in Seq(Block) /\ b \in 1..Len(blocks)
      /\ m \in DOMAIN blocks[b].undo /\ Undone = blocks[b].undo[m]
  BY <1>1, UndoneDrops
<1>3. b \in Nat /\ Undone.target \in Classes \cup {Hook} /\ Undone.original \in Function \cup {None}
  BY <1>1, <1>2, BlockFacts
<1>4. FitsIn(own, loaded, b, Undone) /\ Holds(b, Undone.target)
  BY <1>1, <1>2 DEF Undos, Holds, HoldsIn
<1>5. /\ Len(blocks') = b /\ \A k \in 1..b : blocks'[k].previous = blocks[k].previous
  BY <1>2 DEF Drops, Keeps
<1>6. \A k \in 1..b : \A target :
         HoldsIn(blocks', k, target) <=> Holds(k, target) /\ ~(k = b /\ target = Undone.target)
  <2>1. \A k \in 1..b : \A target :
           Holds(k, target)' <=> Holds(k, target) /\ ~(k = b /\ target = blocks[b].undo[m].target)
    BY <1>1, <1>2, HoldsDrops
  <2> HIDE DEF m
  <2> QED BY <1>2, <2>1 DEF Holds
<1>7. \A k \in 1..b : \A i \in DOMAIN blocks[k].undo :
         blocks[k].undo[i].target = Undone.target /\ k = b => i = m
  BY <1>1, <1>2 DEF Undos
<1>8. Entering'
  <2>1. todo' = todo /\ leaving' = leaving /\ leaving # "no"
    BY DEF RestoreClass, RestoreHook, Undoing
  <2>2. todo = <<>> /\ blocks # <<>> /\ blocks \in Seq(Block)
    BY <1>1, <2>1 DEF Entering, TypeOK
  <2>3. blocks' # <<>>
    BY <1>2, <1>5
  <2> QED BY <2>1, <2>2, <2>3 DEF Entering
<1> QED BY <1>2, <1>3, <1>4, <1>5, <1>6, <1>7, <1>8

\* A class is given back what it had.
LEMMA RestoreStep ==
    ASSUME PatchInv, RestoreClass
    PROVE  PatchInv'
<1>1. TypeOK /\ Attributes /\ Undos /\ Entering /\ Hooks
  BY DEF PatchInv
<1> DEFINE b == Len(blocks)
           x == Undone.target
           f == Undone.original
<1>2. /\ b \in 1..Len(blocks) /\ b \in Nat /\ Drops(b) /\ blocks' \in Seq(Block)
      /\ FitsIn(own, loaded, b, Undone) /\ x \in Classes \cup {Hook}
      /\ f \in Function \cup {None} /\ Len(blocks') = b
      /\ \A k \in 1..b : blocks'[k].previous = blocks[k].previous
      /\ \A k \in 1..b : \A target :
            HoldsIn(blocks', k, target) <=> Holds(k, target) /\ ~(k = b /\ target = x)
      /\ \A k \in 1..b : \A i \in DOMAIN blocks[k].undo :
            blocks[k].undo[i].target = x /\ k = b => i = Len(blocks[b].undo)
      /\ Entering'
  BY UndoFacts
<1>3. /\ x # Hook /\ own' = [own EXCEPT ![x] = f]
      /\ loaded' = loaded /\ hook' = hook /\ todo' = todo /\ leaving' = leaving
  BY DEF RestoreClass
<1>4. /\ x \in loaded /\ x \in Classes /\ own[x] # None /\ own[x].by = <<b>>
      /\ f # None /\ f.by = <<>> /\ f.of = own[x].of /\ f \in Function
  BY <1>2, <1>3 DEF FitsIn
<1> HIDE DEF x, f
<1>5. /\ own' \in [Classes -> Function \cup {None}] /\ own'[x] = f
      /\ \A c \in Classes : c # x => own'[c] = own[c]
  BY <1>1, <1>3, <1>4 DEF TypeOK
<1>6. Attributes'
  <2>1. ASSUME NEW c \in Classes, own'[c] # None
        PROVE  own'[c].by = <<>> \/ \E k \in 1..b : own'[c].by = <<k>> /\ HoldsIn(blocks', k, c)
    <3>1. CASE c = x
      BY <1>4, <1>5, <3>1
    <3>2. CASE c # x
      BY <1>1, <1>2, <1>5, <2>1, <3>2 DEF Attributes
    <3> QED BY <3>1, <3>2
  <2>2. \A c \in Classes \ loaded : own'[c] = None
    BY <1>1, <1>4, <1>5 DEF Attributes
  <2>3. \A c \in loaded \cap Defining : own'[c] # None
    BY <1>1, <1>4, <1>5 DEF Attributes, TypeOK
  <2> QED BY <1>1, <1>2, <1>3, <2>1, <2>2, <2>3 DEF Attributes, Holds
<1>7. Undos'
  <2>1. ASSUME NEW k \in 1..Len(blocks), NEW i \in DOMAIN blocks[k].undo,
               ~(k = b /\ i = Len(blocks[b].undo))
        PROVE  FitsIn(own', loaded', k, blocks[k].undo[i])
    <3> DEFINE e == blocks[k].undo[i]
    <3>1. FitsIn(own, loaded, k, e) /\ e.target \in Classes \cup {Hook}
      BY <1>1, BlockFacts DEF Undos
    <3>2. e.target # x
      <4>1. CASE k = b
        BY <1>2, <2>1, <4>1
      <4>2. CASE k # b
        BY <1>3, <1>4, <3>1, <4>2, OnceFacts DEF FitsIn
      <4> QED BY <4>1, <4>2
    <3> HIDE DEF e
    <3>3. FitsIn(own', loaded', k, e)
      BY <1>3, <1>5, <3>1, <3>2 DEF FitsIn
    <3> QED BY <3>3 DEF e
  <2> QED BY <1>1, <1>2, <2>1, UndosDrops
<1>8. Hooks'
  BY <1>1, <1>2, <1>3, HooksKept
<1>9. TypeOK'
  BY <1>1, <1>2, <1>3, <1>5 DEF TypeOK
<1> QED BY <1>2, <1>6, <1>7, <1>8, <1>9 DEF PatchInv


\* The hook is given back to the block around.
LEMMA RestoreHookStep ==
    ASSUME PatchInv, RestoreHook
    PROVE  PatchInv'
<1>1. TypeOK /\ Attributes /\ Undos /\ Entering /\ Hooks
  BY DEF PatchInv
<1> DEFINE b == Len(blocks)
<1>2. /\ Undone.target = Hook /\ hook' = blocks[b].previous
      /\ own' = own /\ loaded' = loaded /\ todo' = todo /\ leaving' = leaving
  BY DEF RestoreHook, Innermost
<1>3. /\ b \in 1..Len(blocks) /\ b \in Nat /\ Drops(b) /\ blocks' \in Seq(Block)
      /\ Holds(b, Hook) /\ Len(blocks') = b
      /\ \A k \in 1..b : blocks'[k].previous = blocks[k].previous
      /\ \A k \in 1..b : \A target :
            HoldsIn(blocks', k, target) <=> Holds(k, target) /\ ~(k = b /\ target = Hook)
      /\ Entering'
  BY <1>2, UndoFacts
<1>4. /\ \A k \in 1..b : /\ blocks[k].previous \in 0..(k - 1)
                         /\ blocks[k].previous # 0 => Holds(blocks[k].previous, Hook)
                         /\ \A j \in 1..(k - 1) : Holds(j, Hook) => j <= blocks[k].previous
  BY <1>1 DEF Hooks
<1> HIDE DEF b
<1>5. Attributes'
  <2>1. ASSUME NEW c \in Classes, own[c] # None
        PROVE  own[c].by = <<>> \/ \E k \in 1..b : own[c].by = <<k>> /\ HoldsIn(blocks', k, c)
    <3>1. c # Hook
      BY RootsAssumption
    <3>2. own[c].by = <<>> \/ \E k \in 1..b : own[c].by = <<k>> /\ Holds(k, c)
      BY <1>1, <2>1 DEF Attributes, b
    <3> QED BY <1>3, <3>1, <3>2
  <2> QED BY <1>1, <1>2, <1>3, <2>1 DEF Attributes, Holds
<1>6. Undos'
  <2>1. \A k \in 1..Len(blocks) : \A i \in DOMAIN blocks[k].undo :
           FitsIn(own', loaded', k, blocks[k].undo[i])
    BY <1>1, <1>2 DEF Undos
  <2> QED BY <1>1, <1>3, <2>1, UndosDrops
<1>7. Hooks'
  <2>1. hook' \in 0..(b - 1) /\ (hook' # 0 => HoldsIn(blocks', hook', Hook))
    BY <1>2, <1>3, <1>4
  <2>2. ASSUME NEW k \in 1..b
        PROVE  /\ blocks'[k].previous \in 0..(k - 1)
               /\ blocks'[k].previous # 0 => HoldsIn(blocks', blocks'[k].previous, Hook)
               /\ HoldsIn(blocks', k, Hook) => k <= hook'
               /\ \A j \in 1..(k - 1) : HoldsIn(blocks', j, Hook) => j <= blocks'[k].previous
    <3>1. \A j \in 0..(k - 1) : j # b /\ (j # 0 => j \in 1..b)
      BY <1>3
    <3>2. HoldsIn(blocks', k, Hook) => k \in 1..(b - 1) /\ Holds(k, Hook)
      BY <1>3
    <3>3. HoldsIn(blocks', k, Hook) => k <= hook'
      BY <1>2, <1>3, <1>4, <3>2
    <3>4. blocks'[k].previous = blocks[k].previous /\ blocks[k].previous \in 0..(k - 1)
      BY <1>3, <1>4
    <3>5. blocks'[k].previous # 0 => HoldsIn(blocks', blocks'[k].previous, Hook)
      BY <1>3, <1>4, <3>1, <3>4
    <3>6. \A j \in 1..(k - 1) : HoldsIn(blocks', j, Hook) => j <= blocks'[k].previous
      BY <1>3, <1>4, <3>1, <3>4
    <3> QED BY <3>3, <3>4, <3>5, <3>6
  <2> QED BY <1>3, <2>1, <2>2 DEF Hooks, Holds
<1>8. TypeOK'
  <2>1. hook' \in 0..Len(blocks')
    BY <1>2, <1>3, <1>4
  <2> QED BY <1>1, <1>2, <1>3, <2>1 DEF TypeOK, b
<1> QED BY <1>3, <1>5, <1>6, <1>7, <1>8 DEF PatchInv

\* A block is left that has nothing more to restore.
LEMMA LeftStep ==
    ASSUME PatchInv, Left
    PROVE  PatchInv'
<1>1. TypeOK /\ Attributes /\ Undos /\ Entering /\ Hooks
  BY DEF PatchInv
<1> DEFINE b == Len(blocks)
<1>2. Shrinks /\ blocks' \in Seq(Block)
  BY <1>1, LeftShrinks
<1>3. /\ b \in Nat /\ b # 0 /\ Len(blocks') = b - 1
      /\ \A k \in 1..(b - 1) : blocks'[k] = blocks[k] /\ k \in 1..b /\ k # b
      /\ \A k \in 1..b : k \in 1..(b - 1) \/ k = b
  BY <1>2 DEF Shrinks
<1>4. /\ leaving # "no" /\ leaving' \in {"no", "raising"} /\ (leaving' # "no" => b > 1)
      /\ own' = own /\ loaded' = loaded /\ todo' = todo /\ hook' = hook /\ blocks[b].undo = <<>>
  BY DEF Left, Innermost
<1>5. /\ \A target : ~Holds(b, target)
      /\ \A k \in 1..(b - 1) : \A target : HoldsIn(blocks', k, target) <=> Holds(k, target)
  <2>1. DOMAIN blocks[b].undo = {}
    BY <1>4
  <2>2. \A target : ~Holds(b, target)
    BY <2>1 DEF Holds, HoldsIn
  <2>3. ASSUME NEW k \in 1..(b - 1), NEW target
        PROVE  HoldsIn(blocks', k, target) <=> Holds(k, target)
    <3>1. blocks'[k] = blocks[k]
      BY <1>3
    <3> QED BY <3>1 DEF Holds, HoldsIn
  <2> QED BY <2>2, <2>3
<1>6. hook \in 0..(b - 1)
  BY <1>1, <1>3, <1>5 DEF Hooks, TypeOK
<1> HIDE DEF b
<1>7. Attributes'
  <2>1. ASSUME NEW c \in Classes, own[c] # None
        PROVE  own[c].by = <<>> \/ \E k \in 1..(b - 1) : own[c].by = <<k>> /\ HoldsIn(blocks', k, c)
    <3>1. own[c].by = <<>> \/ \E k \in 1..b : own[c].by = <<k>> /\ Holds(k, c)
      BY <1>1, <2>1 DEF Attributes, b
    <3> QED BY <1>3, <1>5, <3>1
  <2> QED BY <1>1, <1>3, <1>4, <2>1 DEF Attributes, Holds
<1>8. Undos'
  BY <1>1, <1>3, <1>4 DEF Undos, b
<1>9. Entering'
  <2>1. todo' = <<>>
    BY <1>1, <1>4 DEF Entering
  <2>2. leaving' # "no" => blocks' # <<>>
    BY <1>3, <1>4
  <2> QED BY <2>1, <2>2 DEF Entering
<1>10. Hooks'
  <2>1. hook' # 0 => HoldsIn(blocks', hook', Hook)
    BY <1>1, <1>3, <1>4, <1>5, <1>6 DEF Hooks
  <2>2. ASSUME NEW k \in 1..(b - 1)
        PROVE  /\ blocks'[k].previous \in 0..(k - 1)
               /\ blocks'[k].previous # 0 => HoldsIn(blocks', blocks'[k].previous, Hook)
               /\ HoldsIn(blocks', k, Hook) => k <= hook'
               /\ \A j \in 1..(k - 1) : HoldsIn(blocks', j, Hook) => j <= blocks'[k].previous
    <3>1. /\ blocks[k].previous \in 0..(k - 1)
          /\ blocks[k].previous # 0 => Holds(blocks[k].previous, Hook)
          /\ Holds(k, Hook) => k <= hook
          /\ \A j \in 1..(k - 1) : Holds(j, Hook) => j <= blocks[k].previous
      BY <1>1, <1>3 DEF Hooks, b
    <3>2. \A j \in 0..(k - 1) : j # 0 => j \in 1..(b - 1)
      BY <1>3
    <3> QED BY <1>3, <1>4, <1>5, <3>1, <3>2
  <2> QED BY <1>3, <2>1, <2>2 DEF Hooks, Holds
<1>11. TypeOK'
  <2>1. hook' \in 0..Len(blocks') /\ Len(blocks') <= MaxBlocks
    BY <1>1, <1>3, <1>4, <1>6, RootsAssumption DEF TypeOK, b
  <2> QED BY <1>1, <1>2, <1>4, <2>1 DEF TypeOK
<1> QED BY <1>7, <1>8, <1>9, <1>10, <1>11 DEF PatchInv

\* A block refuses to begin, or a test is done with it: what it is to restore is
\* as it was.
LEMMA QuietStep ==
    ASSUME PatchInv, Refuse \/ Leave \/ UNCHANGED vars
    PROVE  PatchInv'
<1>1. TypeOK /\ Attributes /\ Undos /\ Entering /\ Hooks
  BY DEF PatchInv
<1>2. own' = own /\ loaded' = loaded /\ blocks' = blocks /\ hook' = hook
  BY DEF Refuse, Leave, vars
<1>3. Attributes' /\ Undos' /\ Hooks'
  BY <1>1, <1>2 DEF Attributes, Undos, Hooks, Holds
<1>4. /\ todo' = todo \/ todo' = <<>>
      /\ leaving' \in {"no", "clean", "raising"}
      /\ leaving' # "no" => blocks # <<>> /\ todo' = <<>>
  BY <1>1 DEF Refuse, Leave, TestRuns, vars, Entering, TypeOK
<1>5. TypeOK'
  <2>1. <<>> \in Seq(Classes \cup {Hook})
    OBVIOUS
  <2>2. todo' \in Seq(Classes \cup {Hook})
    BY <1>1, <1>4, <2>1 DEF TypeOK
  <2> QED BY <1>1, <1>2, <1>4, <2>2 DEF TypeOK
<1>6. Entering'
  <2>1. CASE todo' = <<>>
    BY <1>2, <1>4, <2>1 DEF Entering
  <2>2. CASE todo' = todo /\ todo # <<>>
    BY <1>1, <1>2, <1>4, <2>2 DEF Entering, Holds
  <2> QED BY <1>4, <2>1, <2>2
<1> QED BY <1>3, <1>5, <1>6 DEF PatchInv

\* What the entry points are to patch: loaded classes, and the hook once.
LEMMA EntersFacts ==
    ASSUME TypeOK, NEW targets,
           \/ \E c \in Classes : EnterPatched(c) /\ targets = <<c>>
           \/ \E c, d \in Classes : EnterPatchedAll(c, d) /\ targets = <<c, d>>
           \/ \E walk \in SetToSeqs(Interceptable) : targets = walk \o <<Hook, BaseChatModel>>
           \/ \E target \in LitellmTargets : targets = <<target>>
    PROVE  /\ targets \in Seq(loaded \cup {Hook})
           /\ \A i, j \in DOMAIN targets : targets[i] = Hook /\ targets[j] = Hook => i = j
<1>1. loaded \subseteq Classes /\ Preloaded \subseteq loaded
  BY DEF TypeOK
<1>2. ASSUME NEW c \in loaded, targets = <<c>>
      PROVE  /\ targets \in Seq(loaded \cup {Hook})
             /\ \A i, j \in DOMAIN targets : targets[i] = Hook /\ targets[j] = Hook => i = j
  BY <1>2
<1>3. ASSUME NEW c \in loaded, NEW d \in loaded, targets = <<c, d>>
      PROVE  /\ targets \in Seq(loaded \cup {Hook})
             /\ \A i, j \in DOMAIN targets : targets[i] = Hook /\ targets[j] = Hook => i = j
  <2>1. c # Hook /\ d # Hook
    BY <1>1, RootsAssumption
  <2>2. DOMAIN targets = 1..2 /\ targets[1] = c /\ targets[2] = d /\ targets \in Seq(loaded \cup {Hook})
    BY <1>3
  <2> QED BY <2>1, <2>2
<1>4. ASSUME NEW walk \in SetToSeqs(Interceptable), targets = walk \o <<Hook, BaseChatModel>>
      PROVE  /\ targets \in Seq(loaded \cup {Hook})
             /\ \A i, j \in DOMAIN targets : targets[i] = Hook /\ targets[j] = Hook => i = j
  <2>1. BaseChatModel \in loaded /\ BaseChatModel # Hook /\ Hook \notin loaded
    BY <1>1, RootsAssumption
  <2>2. walk \in Seq(loaded)
    <3>1. walk \in [1..Cardinality(Interceptable) -> Interceptable]
      BY DEF SetToSeqs
    <3>2. Interceptable \subseteq loaded /\ IsFiniteSet(Interceptable)
      BY <1>1, MroAssumption, FS_Subset DEF Interceptable
    <3>3. Cardinality(Interceptable) \in Nat
      BY <3>2, FS_CardinalityType
    <3> QED BY <3>1, <3>2, <3>3
  <2> DEFINE n == Len(walk)
  <2>3. n \in Nat /\ DOMAIN walk = 1..n /\ \A i \in 1..n : walk[i] \in loaded
    BY <2>2
  <2>4. /\ targets \in Seq(loaded \cup {Hook}) /\ DOMAIN targets = 1..(n + 2)
        /\ targets[n + 2] = BaseChatModel /\ \A i \in 1..n : targets[i] = walk[i]
    BY <1>4, <2>1, <2>2
  <2> HIDE DEF n
  <2>5. \A i \in 1..(n + 2) : targets[i] = Hook => i = n + 1
    <3>1. \A i \in 1..(n + 2) : i \in 1..n \/ i = n + 1 \/ i = n + 2
      BY <2>3
    <3> QED BY <2>1, <2>3, <2>4, <3>1
  <2> QED BY <2>4, <2>5
<1>5. LitellmTargets \subseteq loaded
  BY <1>1, RootsAssumption DEF LitellmTargets
<1> QED BY <1>2, <1>3, <1>4, <1>5 DEF EnterPatched, EnterPatchedAll


\* Every block begins with targets of that kind.
LEMMA EntersBegin ==
    ASSUME TypeOK,
           \/ \E c \in Classes : EnterPatched(c)
           \/ \E c, d \in Classes : EnterPatchedAll(c, d)
           \/ EnterLangchain \/ EnterLitellm
    PROVE  \E targets \in Seq(loaded \cup {Hook}) :
              /\ Begin(targets)
              /\ \A i, j \in DOMAIN targets : targets[i] = Hook /\ targets[j] = Hook => i = j
<1>1. CASE \E c \in Classes : EnterPatched(c)
  BY <1>1, EntersFacts DEF EnterPatched
<1>2. CASE \E c, d \in Classes : EnterPatchedAll(c, d)
  BY <1>2, EntersFacts DEF EnterPatchedAll
<1>3. CASE EnterLangchain
  BY <1>3, EntersFacts DEF EnterLangchain
<1>4. CASE EnterLitellm
  BY <1>4, EntersFacts DEF EnterLitellm
<1> QED BY <1>1, <1>2, <1>3, <1>4

\* With no block open, every class has what its body defines.
LEMMA PatchInit ==
    ASSUME Init
    PROVE  PatchInv
<1>1. /\ loaded = Preloaded /\ hook = 0 /\ blocks = <<>> /\ todo = <<>> /\ leaving = "no"
      /\ own = [c \in Classes |-> IF c \in Preloaded \cap Defining THEN Plain(c) ELSE None]
  BY DEF Init
<1>2. Len(blocks) = 0 /\ DOMAIN todo = {} /\ 1..0 = {}
  BY <1>1
<1>3. TypeOK
  <2>1. own \in [Classes -> Function \cup {None}]
    BY <1>1, FunctionFacts
  <2>2. <<>> \in Seq(Block) /\ <<>> \in Seq(Classes \cup {Hook})
    OBVIOUS
  <2> QED BY <1>1, <1>2, <2>1, <2>2, RootsAssumption DEF TypeOK
<1>4. Attributes
  <2>1. \A c \in loaded : \A i \in DOMAIN Mro[c] : Mro[c][i] \in loaded
    BY <1>1, RootsAssumption
  <2>2. \A c \in Classes : own[c] # None => own[c].by = <<>>
    BY <1>1, FunctionFacts
  <2>3. \A c \in loaded \cap Defining : own[c] # None
    BY <1>1, FunctionFacts, RootsAssumption
  <2>4. \A c \in Classes \ loaded : own[c] = None
    BY <1>1
  <2> QED BY <2>1, <2>2, <2>3, <2>4 DEF Attributes
<1>5. Undos /\ Hooks
  BY <1>1, <1>2 DEF Undos, Hooks
<1>6. Entering
  BY <1>1, <1>2 DEF Entering
<1> QED BY <1>3, <1>4, <1>5, <1>6 DEF PatchInv

\* No step of Patching breaks the invariant.
LEMMA PatchSteps ==
    ASSUME PatchInv, [Next]_vars
    PROVE  PatchInv'
<1>1. ASSUME \/ \E c \in Classes : EnterPatched(c)
             \/ \E c, d \in Classes : EnterPatchedAll(c, d)
             \/ EnterLangchain \/ EnterLitellm
      PROVE  PatchInv'
  <2>1. PICK targets \in Seq(loaded \cup {Hook}) :
           /\ Begin(targets)
           /\ \A i, j \in DOMAIN targets : targets[i] = Hook /\ targets[j] = Hook => i = j
    BY <1>1, EntersBegin DEF PatchInv
  <2> QED BY <2>1, BeginStep
<1>2. ASSUME NEW c \in Classes, LoadClass(c) \/ InterceptNew(c) PROVE PatchInv'
  BY <1>2, LoadStep, InterceptStep
<1>3. CASE Install \/ SetHook
  BY <1>3, InstallStep, SetHookStep
<1>4. CASE RestoreClass \/ RestoreHook
  BY <1>4, RestoreStep, RestoreHookStep
<1>5. CASE Left
  BY <1>5, LeftStep
<1>6. CASE Refuse \/ Leave \/ UNCHANGED vars
  BY <1>6, QuietStep
<1> QED BY <1>1, <1>2, <1>3, <1>4, <1>5, <1>6 DEF Next

\* The variables have their types, and what the blocks of a test are to restore
\* fits what they have patched, whatever they are and however they nest: type
\* correctness of the patching in src/llmtivo/intercept.py, langchain.py and
\* litellm.py.
THEOREM TypesOfPatching == Spec => []TypeOK
<1>1. Init => PatchInv
  BY PatchInit
<1>2. PatchInv /\ [Next]_vars => PatchInv'
  BY PatchSteps
<1>3. PatchInv => TypeOK
  BY DEF PatchInv
<1> QED BY <1>1, <1>2, <1>3, PTL DEF Spec

\* No call passes two wrappers, in any hierarchy of classes with multiple
\* inheritance or without: a class that has been patched is so by one block, and
\* a class that resolves to a patched one is refused (src/llmtivo/intercept.py:198).
THEOREM OneWrapperAtMost == Spec => []WrappedOnce
<1>1. Init => PatchInv
  BY PatchInit
<1>2. PatchInv /\ [Next]_vars => PatchInv'
  BY PatchSteps
<1>3. PatchInv => WrappedOnce
  <2> SUFFICES ASSUME PatchInv, NEW c \in loaded PROVE Len(Lookup(c).by) <= 1
    BY DEF WrappedOnce
  <2>1. PICK i \in DOMAIN Mro[c] :
           FindsAt(own, c, i) /\ Lookup(c) = own[Mro[c][i]] /\ Mro[c][i] \in loaded
    BY LookupLoaded DEF PatchInv
  <2>2. Mro[c][i] \in Classes /\ own[Mro[c][i]] # None
    BY <2>1 DEF FindsAt, PatchInv, TypeOK
  <2>3. \/ own[Mro[c][i]].by = <<>>
        \/ \E k \in 1..Len(blocks) : own[Mro[c][i]].by = <<k>>
    BY <2>2 DEF PatchInv, Attributes
  <2> DEFINE f == own[Mro[c][i]]
  <2> HIDE DEF f
  <2>4. CASE f.by = <<>>
    <3>1. Len(f.by) = 0
      BY <2>4
    <3> QED BY <2>1, <3>1 DEF f
  <2>5. ASSUME NEW k \in 1..Len(blocks), f.by = <<k>> PROVE Len(f.by) <= 1
    <3>1. Len(f.by) = 1
      BY <2>5
    <3> QED BY <3>1
  <2> QED BY <2>1, <2>3, <2>4, <2>5 DEF f
<1> QED BY <1>1, <1>2, <1>3, PTL DEF Spec


-----------------------------------------------------------------------------
(* What a block leaves behind *)

\* In one line of classes, what c finds at its j-th class the i-th finds at its
\* own, and both have it from the same source.
LEMMA LineFacts ==
    ASSUME OneLine, NEW attributes, NEW c \in Classes, NEW j \in 1..DefinedAt(c),
           FindsAt(attributes, c, j), NEW i \in 1..j
    PROVE  /\ FindsAt(attributes, Mro[c][i], j - i + 1) /\ Mro[Mro[c][i]][j - i + 1] = Mro[c][j]
           /\ SourceOf(Mro[c][i]) = SourceOf(c)
<1> DEFINE d == Mro[c][i]
           n == DefinedAt(c)
<1>1. n \in Nat /\ n <= Len(Mro[c]) /\ DOMAIN Mro[c] = 1..Len(Mro[c]) /\ Len(Mro[c]) \in Nat
  BY DefinedAtFacts, MroFacts
<1>2. i \in 1..n /\ j \in i..n /\ d \in Classes
  BY <1>1, MroFacts
<1>3. DefinedAt(d) = n - i + 1 /\ \A m \in i..n : Mro[d][m - i + 1] = Mro[c][m]
  BY <1>2 DEF OneLine
<1>4. /\ DOMAIN Mro[d] = 1..Len(Mro[d]) /\ Len(Mro[d]) \in Nat
      /\ DefinedAt(d) \in DOMAIN Mro[d] /\ SourceOf(d) = Mro[d][DefinedAt(d)]
  BY <1>2, DefinedAtFacts, MroFacts
<1> HIDE DEF d, n
<1>5. SourceOf(d) = SourceOf(c)
  <2>1. n \in i..n /\ SourceOf(c) = Mro[c][n]
    BY <1>1, <1>2, DefinedAtFacts DEF n
  <2> QED BY <1>3, <1>4, <2>1
<1>6. j - i + 1 \in DOMAIN Mro[d] /\ Mro[d][j - i + 1] = Mro[c][j]
  BY <1>1, <1>2, <1>3, <1>4
<1>7. ASSUME NEW m \in DOMAIN Mro[d], m < j - i + 1 PROVE attributes[Mro[d][m]] = None
  <2>1. m + i - 1 \in i..n /\ m + i - 1 < j /\ (m + i - 1) - i + 1 = m
    <3>1. i \in Nat /\ j \in Nat /\ n \in Nat /\ i >= 1 /\ j <= n
      BY <1>1, <1>2
    <3>2. m \in Nat /\ m >= 1
      BY <1>4
    <3> QED BY <1>7, <3>1, <3>2
  <2>2. Mro[d][m] = Mro[c][m + i - 1]
    BY <1>3, <2>1
  <2>3. m + i - 1 \in DOMAIN Mro[c]
    BY <1>1, <1>2, <2>1
  <2> QED BY <2>1, <2>2, <2>3 DEF FindsAt
<1>8. attributes[Mro[c][j]] # None
  BY DEF FindsAt
<1> QED BY <1>5, <1>6, <1>7, <1>8 DEF FindsAt, d

\* What a class resolves to is what its source says.
LEMMA LookupGenuine ==
    ASSUME OneLine, TypeOK, Attributes, Genuine, NEW c \in loaded
    PROVE  Lookup(c).of = SourceOf(c)
<1>1. c \in Classes
  BY DEF TypeOK
<1>2. PICK i \in DOMAIN Mro[c] : /\ FindsAt(own, c, i) /\ Lookup(c) = own[Mro[c][i]]
                                 /\ Mro[c][i] \in loaded /\ i <= DefinedAt(c)
  BY LookupLoaded
<1>3. i \in 1..DefinedAt(c) /\ i \in 1..i
  BY <1>1, <1>2, MroFacts, DefinedAtFacts
<1>4. SourceOf(Mro[c][i]) = SourceOf(c)
  BY <1>1, <1>2, <1>3, LineFacts
<1>5. Mro[c][i] \in Classes /\ own[Mro[c][i]] # None
  BY <1>2 DEF FindsAt, TypeOK
<1> QED BY <1>2, <1>4, <1>5 DEF Genuine

\* What Before makes of an attribute.
LEMMA BeforeFacts ==
    ASSUME NEW attributes, NEW b \in Nat, NEW c \in Classes
    PROVE  /\ attributes[c] = None => Before(attributes, b)[c] = None
           /\ attributes[c] # None /\ (\E k \in Nat : k >= b /\ attributes[c].by = <<k>>) =>
                 Before(attributes, b)[c] = [of |-> attributes[c].of, by |-> <<>>]
           /\ ~(\E k \in Nat : k >= b /\ attributes[c].by = <<k>>) =>
                 Before(attributes, b)[c] = attributes[c]
BY DEF Before

\* A class has an attribute before if it has one now.
LEMMA BeforeFinds ==
    ASSUME NEW attributes \in [Classes -> Function \cup {None}], NEW b \in Nat, NEW c \in Classes
    PROVE  /\ Before(attributes, b)[c] = None <=> attributes[c] = None
           /\ \A i : FindsAt(Before(attributes, b), c, i) <=> FindsAt(attributes, c, i)
<1>1. ASSUME NEW d \in Classes PROVE Before(attributes, b)[d] = None <=> attributes[d] = None
  <2>1. attributes[d] # None => attributes[d].of \in Classes
    BY FunctionFacts
  <2>2. attributes[d] # None => [of |-> attributes[d].of, by |-> <<>>] \in Function
    <3>1. <<>> \in Seq(1..MaxBlocks)
      OBVIOUS
    <3> QED BY <2>1, <3>1 DEF Function
  <2> QED BY <2>2, BeforeFacts, FunctionFacts
<1>2. \A i \in DOMAIN Mro[c] : Mro[c][i] \in Classes
  BY MroFacts
<1> QED BY <1>1, <1>2 DEF FindsAt

\* A class that is not patched, or patched around b, is the same before b.
LEMMA BeforeSame ==
    ASSUME TypeOK, NEW b \in Nat, NEW c \in Classes,
           own[c] # None => own[c].by = <<>> \/ \E k \in Nat : k < b /\ own[c].by = <<k>>
    PROVE  Before(own, b)[c] = own[c]
<1>1. ASSUME own[c] # None, NEW k \in Nat, k >= b, own[c].by = <<k>> PROVE FALSE
  BY <1>1, OnceFacts
<1>2. CASE own[c] = None
  BY <1>2, BeforeFacts
<1>3. CASE own[c] # None
  BY <1>1, <1>3, BeforeFacts
<1> QED BY <1>2, <1>3


\* A class whose body defines the method is its own source.
LEMMA OwnSource ==
    ASSUME NEW c \in Classes, c \in Defining
    PROVE  SourceOf(c) = c
<1>1. DefinedAt(c) = 1
  BY MroFacts, DefinedAtFacts
<1> QED BY <1>1, MroFacts, DefinedAtFacts

\* Patching or restoring a class changes not what source it has.
LEMMA GenuineStep ==
    ASSUME OneLine, PatchInv, Genuine, [Next]_vars
    PROVE  Genuine'
<1>1. TypeOK /\ Attributes /\ Undos /\ Entering /\ Hooks
  BY DEF PatchInv
<1>2. ASSUME NEW x \in Classes, own' = [own EXCEPT ![x] = own'[x]],
             own'[x] # None => own'[x].of = SourceOf(x)
      PROVE  Genuine'
  BY <1>1, <1>2 DEF Genuine, TypeOK
<1>3. CASE own' = own
  BY <1>3 DEF Genuine
<1>4. CASE Install
  <2> DEFINE x == Head(todo)
  <2>1. todo # <<>> /\ x # Hook /\ ~Patched(Lookup(x)) /\ own' = [own EXCEPT ![x] = Wrap(Lookup(x), Len(blocks))]
    BY <1>4 DEF Install
  <2>2. x \in loaded /\ Len(blocks) \in 1..Len(blocks)
    <3>1. blocks # <<>> /\ blocks \in Seq(Block) /\ todo \in Seq(Classes \cup {Hook})
      BY <1>1, <2>1 DEF Entering, TypeOK
    <3>2. 1 \in DOMAIN todo /\ todo[1] = x
      BY <2>1, <3>1
    <3> HIDE DEF x
    <3> QED BY <1>1, <2>1, <3>1, <3>2 DEF Entering
  <2> HIDE DEF x
  <2>3. x \in Classes /\ Lookup(x) \in Function /\ Len(blocks) \in 1..MaxBlocks
    BY <1>1, <2>2, LookupLoaded, BlockFacts DEF TypeOK
  <2>4. Wrap(Lookup(x), Len(blocks)).of = SourceOf(x)
    BY <1>1, <2>1, <2>2, <2>3, WrapFacts, LookupGenuine
  <2>5. own'[x] = Wrap(Lookup(x), Len(blocks))
    BY <1>1, <2>1, <2>3 DEF TypeOK
  <2> QED BY <1>2, <2>1, <2>3, <2>4, <2>5
<1>5. ASSUME NEW c \in Classes, LoadClass(c) PROVE Genuine'
  <2>1. own' = [own EXCEPT ![c] = IF c \in Defining THEN Plain(c) ELSE None]
    BY <1>5 DEF LoadClass
  <2>2. own'[c] = IF c \in Defining THEN Plain(c) ELSE None
    BY <1>1, <2>1 DEF TypeOK
  <2>3. own'[c] # None => own'[c].of = SourceOf(c)
    BY <2>2, FunctionFacts, OwnSource
  <2> QED BY <1>2, <2>1, <2>2, <2>3
<1>6. ASSUME NEW c \in Classes, InterceptNew(c) PROVE Genuine'
  <2>1. own' = [own EXCEPT ![c] = Wrap(Plain(c), hook)] /\ c \in Defining /\ hook # 0
    BY <1>6 DEF InterceptNew, Hooked
  <2>2. hook \in 1..MaxBlocks
    BY <1>1, <2>1, RootsAssumption DEF TypeOK
  <2>3. Wrap(Plain(c), hook).of = c
    BY <2>2, WrapFacts, FunctionFacts DEF Patched
  <2>4. own'[c] = Wrap(Plain(c), hook)
    BY <1>1, <2>1 DEF TypeOK
  <2>5. SourceOf(c) = c
    BY <2>1, OwnSource
  <2> QED BY <1>2, <2>1, <2>3, <2>4, <2>5
<1>7. CASE RestoreClass
  <2> DEFINE x == Undone.target
  <2>1. x # Hook /\ own' = [own EXCEPT ![x] = Undone.original]
    BY <1>7 DEF RestoreClass
  <2>2. FitsIn(own, loaded, Len(blocks), Undone)
    BY <1>7, UndoFacts
  <2>3. x \in Classes /\ own[x] # None /\ Undone.original.of = own[x].of
    BY <1>1, <2>1, <2>2 DEF FitsIn, TypeOK
  <2> HIDE DEF x
  <2>4. own'[x] = Undone.original /\ Undone.original.of = SourceOf(x)
    BY <1>1, <2>1, <2>3 DEF TypeOK, Genuine
  <2> QED BY <1>2, <2>1, <2>3, <2>4
<1>8. Next \/ UNCHANGED vars
  OBVIOUS
<1>9. ASSUME ~Install, ~RestoreClass, \A c \in Classes : ~LoadClass(c) /\ ~InterceptNew(c)
      PROVE  own' = own
  <2>1. ASSUME NEW targets, Begin(targets) PROVE own' = own
    BY <2>1 DEF Begin
  <2>2. EnterLangchain \/ EnterLitellm => own' = own
    BY <2>1 DEF EnterLangchain, EnterLitellm
  <2>3. \A c, d \in Classes : EnterPatched(c) \/ EnterPatchedAll(c, d) => own' = own
    BY <2>1 DEF EnterPatched, EnterPatchedAll
  <2>4. Refuse \/ SetHook \/ Leave \/ RestoreHook \/ Left \/ UNCHANGED vars => own' = own
    BY DEF Refuse, SetHook, Leave, RestoreHook, Left, vars
  <2> QED BY <1>8, <1>9, <2>2, <2>3, <2>4 DEF Next
<1> QED BY <1>3, <1>4, <1>5, <1>6, <1>7, <1>9


\* With every wrapper by a block around b, a class finds now what it finds before b.
LEMMA NothingToUndo ==
    ASSUME TypeOK, Attributes, NEW b \in Nat, NEW c \in loaded,
           \A d \in Classes : own[d] # None =>
              own[d].by = <<>> \/ \E k \in Nat : k < b /\ own[d].by = <<k>>
    PROVE  LookupIn(Before(own, b), c) = Lookup(c)
<1>1. c \in Classes /\ Lookup(c) = LookupIn(own, c) /\ Finds(own, c)
  BY LookupLoaded DEF TypeOK
<1>2. \A i \in DOMAIN Mro[c] : Mro[c][i] \in Classes
  BY <1>1, MroFacts
<1>3. \A i \in DOMAIN Mro[c] : own[Mro[c][i]] = Before(own, b)[Mro[c][i]]
  BY <1>2, BeforeSame
<1> QED BY <1>1, <1>3, LookupAgrees

\* A class loaded later changes nothing that others find.
LEMMA LoadedLater ==
    ASSUME TypeOK, Attributes, NEW b \in Nat, NEW x \in Classes \ loaded, NEW c \in loaded,
           \A d \in Classes : d # x => own'[d] = own[d]
    PROVE  LookupIn(Before(own', b), c) = LookupIn(Before(own, b), c)
<1>1. c \in Classes /\ \A i \in DOMAIN Mro[c] : Mro[c][i] \in Classes /\ Mro[c][i] # x
  BY MroFacts DEF Attributes, TypeOK
<1>2. \A i \in DOMAIN Mro[c] : Before(own, b)[Mro[c][i]] = Before(own', b)[Mro[c][i]]
  BY <1>1 DEF Before
<1>3. Finds(Before(own, b), c)
  <2>1. PICK i \in DOMAIN Mro[c] : FindsAt(own, c, i)
    BY LookupLoaded
  <2>2. FindsAt(Before(own, b), c, i)
    BY <1>1, <2>1, BeforeFinds DEF TypeOK
  <2> QED BY <2>2 DEF FindsAt, Finds
<1> QED BY <1>1, <1>2, <1>3, LookupAgrees

\* A class that is patched by block b or one in it changes nothing that others
\* would find if b were left.
LEMMA PatchedLater ==
    ASSUME OneLine, TypeOK, Attributes, Genuine, NEW b \in Nat, NEW x \in loaded,
           ~Patched(Lookup(x)), NEW k \in 1..MaxBlocks, k >= b,
           own' = [own EXCEPT ![x] = Wrap(Lookup(x), k)], NEW c \in loaded
    PROVE  LookupIn(Before(own', b), c) = LookupIn(Before(own, b), c)
<1> DEFINE a == Before(own, b)
           e == Before(own', b)
           f == Lookup(x)
<1>1. x \in Classes /\ c \in Classes /\ own \in [Classes -> Function \cup {None}]
  BY DEF TypeOK
<1>2. f \in Function /\ f.by = <<>> /\ f # None /\ Wrap(f, k).of = f.of /\ Wrap(f, k).by = <<k>>
      /\ Wrap(f, k) \in Function /\ Wrap(f, k) # None
  BY LookupLoaded, WrapFacts, FunctionFacts DEF Patched
<1>3. own'[x] = Wrap(f, k) /\ \A d \in Classes : d # x => own'[d] = own[d]
  BY <1>1
<1>4. \A d \in Classes : d # x => e[d] = a[d]
  BY <1>3 DEF Before
<1>5. e[x] = f
  <2>1. e[x] = [of |-> f.of, by |-> <<>>]
    <3>1. own'[x] # None /\ k \in Nat /\ k >= b /\ own'[x].by = <<k>> /\ own'[x].of = f.of
      BY <1>2, <1>3, RootsAssumption
    <3>2. \E m \in Nat : m >= b /\ own'[x].by = <<m>>
      BY <3>1
    <3>3. Before(own', b)[x] = [of |-> own'[x].of, by |-> <<>>]
      BY <1>1, <3>1, <3>2, BeforeFacts
    <3> QED BY <3>1, <3>3
  <2>2. f = [of |-> f.of, by |-> <<>>]
    BY <1>2 DEF Function
  <2> QED BY <2>1, <2>2
<1>6. PICK j \in DOMAIN Mro[c] : FindsAt(own, c, j) /\ j <= DefinedAt(c)
  BY LookupLoaded
<1>7. FindsAt(a, c, j) /\ j \in 1..DefinedAt(c)
  <2>1. FindsAt(Before(own, b), c, j)
    BY <1>1, <1>6, BeforeFinds
  <2>2. j \in Nat /\ DefinedAt(c) \in Nat /\ 1 <= j
    BY <1>1, <1>6, MroFacts, DefinedAtFacts
  <2> QED BY <1>6, <2>1, <2>2
<1>8. \A i \in DOMAIN Mro[c] : Mro[c][i] \in Classes /\ i \in Nat
  BY <1>1, MroFacts
<1>9. a[Mro[c][j]] # None /\ e[Mro[c][j]] # None
  BY <1>2, <1>4, <1>5, <1>7, <1>8 DEF FindsAt
<1> HIDE DEF a, e
<1>10. Finds(e, c)
  BY <1>9 DEF Finds
<1>11. PICK p \in DOMAIN Mro[c] : FindsAt(e, c, p) /\ LookupIn(e, c) = e[Mro[c][p]]
  BY <1>1, <1>10, LookupFinds
<1>12. p \in 1..j
  BY <1>1, <1>8, <1>9, <1>11, MroFacts DEF FindsAt
<1>13. LookupIn(a, c) = a[Mro[c][j]]
  BY <1>1, <1>7, LookupIs
<1>14. CASE Mro[c][p] # x
  <2>1. e[Mro[c][p]] = a[Mro[c][p]] /\ a[Mro[c][p]] # None
    BY <1>4, <1>8, <1>11, <1>14 DEF FindsAt
  <2>2. p = j
    BY <1>7, <1>8, <1>12, <2>1 DEF FindsAt
  <2> QED BY <1>11, <1>13, <2>1, <2>2 DEF a, e
<1>15. CASE Mro[c][p] = x
  <2>1. FindsAt(own, x, j - p + 1) /\ Mro[x][j - p + 1] = Mro[c][j]
    BY <1>1, <1>6, <1>7, <1>12, <1>15, LineFacts
  <2>2. f = own[Mro[c][j]]
    BY <1>1, <2>1, LookupIs, LookupLoaded
  <2>3. a[Mro[c][j]] = own[Mro[c][j]]
    BY <1>2, <1>8, <2>2, BeforeSame DEF a
  <2> QED BY <1>5, <1>11, <1>13, <1>15, <2>2, <2>3 DEF a, e
<1> QED BY <1>14, <1>15

\* What a block restores is what was there before it.
LEMMA RestoredAsBefore ==
    ASSUME PatchInv, RestoreClass, NEW b \in 1..Len(blocks), NEW c \in Classes
    PROVE  Before(own', b)[c] = Before(own, b)[c]
<1> DEFINE x == Undone.target
           f == Undone.original
           n == Len(blocks)
<1>1. TypeOK /\ own \in [Classes -> Function \cup {None}]
  BY DEF PatchInv, TypeOK
<1>2. x # Hook /\ own' = [own EXCEPT ![x] = f]
  BY DEF RestoreClass
<1>3. FitsIn(own, loaded, n, Undone) /\ f \in Function \cup {None} /\ n \in Nat
  BY UndoFacts
<1>4. /\ x \in Classes /\ own[x] # None /\ own[x].by = <<n>>
      /\ f # None /\ f.by = <<>> /\ f.of = own[x].of /\ f \in Function
  BY <1>1, <1>2, <1>3 DEF FitsIn, TypeOK
<1> HIDE DEF x, f
<1>5. own'[x] = f /\ \A d \in Classes : d # x => own'[d] = own[d]
  BY <1>1, <1>2, <1>4
<1>6. CASE c # x
  BY <1>5, <1>6 DEF Before
<1>7. CASE c = x
  <2>1. n >= b /\ b \in Nat
    BY <1>3
  <2>2. Before(own, b)[x] = [of |-> own[x].of, by |-> <<>>]
    BY <1>3, <1>4, <2>1, BeforeFacts
  <2>3. Before(own', b)[x] = f
    <3>1. \A k : <<>> # <<k>>
      OBVIOUS
    <3>2. ~\E k \in Nat : k >= b /\ own'[x].by = <<k>>
      BY <1>4, <1>5, <3>1
    <3> QED BY <1>4, <1>5, <2>1, <3>2, BeforeFacts
  <2>4. f = [of |-> f.of, by |-> <<>>]
    BY <1>4 DEF Function
  <2> QED BY <1>4, <1>7, <2>2, <2>3, <2>4
<1> QED BY <1>6, <1>7


\* A step after which every class would find the same if a block were left, of
\* the blocks that are still open.
LEMMA UndoableKept ==
    ASSUME Undoable, loaded \subseteq loaded',
           \A b \in 1..Len(blocks') : b \in 1..Len(blocks) /\ blocks'[b].found = blocks[b].found,
           \A b \in 1..Len(blocks') : \A c \in loaded :
              LookupIn(Before(own', b), c) = LookupIn(Before(own, b), c)
    PROVE  Undoable'
<1>1. ASSUME NEW b \in 1..Len(blocks'), NEW c \in Classes, blocks'[b].found[c] # None
      PROVE  c \in loaded' /\ LookupIn(Before(own', b), c) = blocks'[b].found[c]
  <2>1. b \in 1..Len(blocks) /\ blocks'[b].found = blocks[b].found
    OBVIOUS
  <2>2. c \in loaded /\ LookupIn(Before(own, b), c) = blocks[b].found[c]
    BY <1>1, <2>1 DEF Undoable
  <2> QED BY <2>1, <2>2
<1> QED BY <1>1 DEF Undoable

\* The same, as a block begins.
LEMMA UndoableBegins ==
    ASSUME PatchInv, Undoable, NEW targets, Begin(targets)
    PROVE  Undoable'
<1>1. TypeOK /\ Attributes
  BY DEF PatchInv
<1> DEFINE n == Len(blocks) + 1
<1>2. /\ Grows /\ Len(blocks) \in Nat /\ own' = own /\ loaded' = loaded
  BY <1>1, BeginGrows DEF Begin
<1>3. /\ Len(blocks') = n /\ n \in Nat
      /\ blocks'[n].found = [c \in Classes |-> IF c \in loaded THEN Lookup(c) ELSE None]
      /\ \A b \in 1..Len(blocks) : blocks'[b] = blocks[b]
      /\ \A b \in 1..n : b \in 1..Len(blocks) \/ b = n
      /\ \A k \in 1..Len(blocks) : k \in Nat /\ k < n
  BY <1>2 DEF Grows
<1> HIDE DEF n
<1>4. \A d \in Classes : own[d] # None =>
         own[d].by = <<>> \/ \E k \in Nat : k < n /\ own[d].by = <<k>>
  BY <1>1, <1>3 DEF Attributes
<1>5. ASSUME NEW c \in Classes, blocks'[n].found[c] # None
      PROVE  c \in loaded /\ LookupIn(Before(own, n), c) = blocks'[n].found[c]
  <2>1. c \in loaded /\ blocks'[n].found[c] = Lookup(c)
    BY <1>3, <1>5
  <2> QED BY <1>1, <1>3, <1>4, <2>1, NothingToUndo
<1>6. ASSUME NEW b \in 1..n, NEW c \in Classes, blocks'[b].found[c] # None
      PROVE  c \in loaded' /\ LookupIn(Before(own', b), c) = blocks'[b].found[c]
  <2>1. CASE b = n
    BY <1>2, <1>5, <1>6, <2>1
  <2>2. CASE b \in 1..Len(blocks)
    BY <1>2, <1>3, <1>6, <2>2 DEF Undoable
  <2> QED BY <1>3, <2>1, <2>2
<1> QED BY <1>3, <1>6 DEF Undoable

\* No step breaks what leaving a block is to restore.
LEMMA UndoableStep ==
    ASSUME OneLine, RestoreInv, [Next]_vars
    PROVE  Undoable'
<1>1. /\ TypeOK /\ Attributes /\ Undos /\ Entering /\ Hooks
      /\ PatchInv /\ Genuine /\ Undoable
  BY DEF RestoreInv, PatchInv
<1>2. Len(blocks) \in Nat /\ 1..Len(blocks) \subseteq Nat /\ blocks \in Seq(Block)
  BY <1>1 DEF TypeOK
<1>3. ASSUME \/ \E c \in Classes : EnterPatched(c)
             \/ \E c, d \in Classes : EnterPatchedAll(c, d)
             \/ EnterLangchain \/ EnterLitellm
      PROVE  Undoable'
  <2>1. PICK targets \in Seq(loaded \cup {Hook}) : Begin(targets)
    BY <1>1, <1>3, EntersBegin
  <2> QED BY <1>1, <2>1, UndoableBegins
<1>4. ASSUME NEW c \in Classes, LoadClass(c) \/ InterceptNew(c) PROVE Undoable'
  <2>1. c \notin loaded /\ loaded' = loaded \cup {c} /\ \A d \in Classes : d # c => own'[d] = own[d]
    BY <1>1, <1>4 DEF LoadClass, InterceptNew, Loadable, TypeOK
  <2>2. /\ Len(blocks') = Len(blocks)
        /\ \A b \in 1..Len(blocks) : blocks'[b].found = blocks[b].found
    <3>1. CASE LoadClass(c)
      BY <3>1 DEF LoadClass
    <3>2. CASE InterceptNew(c)
      <4>1. hook \in 1..Len(blocks) /\ blocks' = Noted(hook, c, Plain(c))
        BY <1>1, <3>2 DEF InterceptNew, Hooked, TypeOK
      <4>2. Plain(c) \in Function
        BY FunctionFacts
      <4>3. Adds(hook, c, Plain(c))
        BY <1>1, <4>1, <4>2, NotedAdds
      <4> QED BY <4>3 DEF Adds, Keeps
    <3> QED BY <1>4, <3>1, <3>2
  <2>3. \A b \in 1..Len(blocks) : \A d \in loaded :
           LookupIn(Before(own', b), d) = LookupIn(Before(own, b), d)
    BY <1>1, <1>2, <2>1, LoadedLater
  <2> QED BY <1>1, <2>1, <2>2, <2>3, UndoableKept
<1>5. CASE Install
  <2> DEFINE x == Head(todo)
             n == Len(blocks)
  <2>1. /\ todo # <<>> /\ x # Hook /\ ~Patched(Lookup(x)) /\ loaded' = loaded
        /\ own' = [own EXCEPT ![x] = Wrap(Lookup(x), n)] /\ blocks' = Noted(n, x, Lookup(x))
    BY <1>5 DEF Install
  <2>2. x \in loaded /\ n \in 1..Len(blocks)
    <3>1. blocks # <<>> /\ todo \in Seq(Classes \cup {Hook})
      BY <1>1, <2>1 DEF Entering, TypeOK
    <3>2. 1 \in DOMAIN todo /\ todo[1] = x
      BY <2>1, <3>1
    <3>3. n \in 1..Len(blocks)
      BY <1>2, <3>1
    <3> HIDE DEF x
    <3> QED BY <1>1, <2>1, <3>2, <3>3 DEF Entering
  <2> HIDE DEF x
  <2>3. x \in Classes /\ Lookup(x) \in Function /\ n \in 1..MaxBlocks
    BY <1>1, <2>2, LookupLoaded, BlockFacts DEF TypeOK
  <2>4. Adds(n, x, Lookup(x))
    BY <1>1, <2>1, <2>2, <2>3, NotedAdds
  <2>5. Len(blocks') = n /\ \A b \in 1..n : blocks'[b].found = blocks[b].found
    BY <2>4 DEF Adds, Keeps
  <2>6. ASSUME NEW b \in 1..n, NEW c \in loaded
        PROVE  LookupIn(Before(own', b), c) = LookupIn(Before(own, b), c)
    <3>1. b \in Nat /\ n >= b
      BY <1>2
    <3> HIDE DEF n
    <3> QED BY <1>1, <2>1, <2>2, <2>3, <3>1, PatchedLater
  <2> QED BY <1>1, <2>1, <2>5, <2>6, UndoableKept
<1>6. CASE RestoreClass
  <2>1. Len(blocks') = Len(blocks) /\ \A b \in 1..Len(blocks) : blocks'[b].found = blocks[b].found
    <3>1. Drops(Len(blocks))
      BY <1>1, <1>6, UndoneDrops
    <3> QED BY <3>1 DEF Drops, Keeps
  <2>2. ASSUME NEW b \in 1..Len(blocks) PROVE Before(own', b) = Before(own, b)
    <3>1. \A c \in Classes : Before(own', b)[c] = Before(own, b)[c]
      BY <1>1, <1>6, RestoredAsBefore
    <3> QED BY <3>1 DEF Before
  <2>3. loaded' = loaded
    BY <1>6 DEF RestoreClass
  <2> QED BY <1>1, <2>1, <2>2, <2>3, UndoableKept
<1>7. CASE RestoreHook \/ SetHook
  <2>1. own' = own /\ loaded' = loaded
    BY <1>7 DEF RestoreHook, SetHook
  <2>2. Len(blocks') = Len(blocks) /\ \A b \in 1..Len(blocks) : blocks'[b].found = blocks[b].found
    <3>1. CASE RestoreHook
      <4>1. Drops(Len(blocks))
        BY <1>1, <3>1, UndoneDrops
      <4> QED BY <4>1 DEF Drops, Keeps
    <3>2. CASE SetHook
      <4>1. Len(blocks) \in 1..Len(blocks)
        BY <1>1, <1>2, <3>2 DEF SetHook, Entering
      <4>2. Adds(Len(blocks), Hook, None)
        BY <1>1, <3>2, <4>1, NotedAdds DEF SetHook
      <4> QED BY <4>2 DEF Adds, Keeps
    <3> QED BY <1>7, <3>1, <3>2
  <2> QED BY <1>1, <2>1, <2>2, UndoableKept
<1>8. CASE Left
  <2>1. Shrinks
    BY <1>1, <1>8, LeftShrinks
  <2>2. /\ Len(blocks') = Len(blocks) - 1
        /\ \A b \in 1..(Len(blocks) - 1) : b \in 1..Len(blocks) /\ blocks'[b] = blocks[b]
    BY <1>2, <2>1 DEF Shrinks
  <2>3. own' = own /\ loaded' = loaded
    BY <1>8 DEF Left
  <2> QED BY <1>1, <2>2, <2>3, UndoableKept
<1>9. CASE Refuse \/ Leave \/ UNCHANGED vars
  <2>1. own' = own /\ loaded' = loaded /\ blocks' = blocks
    BY <1>9 DEF Refuse, Leave, vars
  <2> QED BY <1>1, <2>1 DEF Undoable
<1> QED BY <1>3, <1>4, <1>5, <1>6, <1>7, <1>8, <1>9 DEF Next


\* The invariant, where the classes that are patched stand in one line.
LEMMA RestoreInvariant ==
    ASSUME OneLine
    PROVE  /\ Init => RestoreInv
           /\ RestoreInv /\ [Next]_vars => RestoreInv'
<1>1. ASSUME Init PROVE RestoreInv
  <2>1. /\ PatchInv /\ blocks = <<>>
        /\ own = [c \in Classes |-> IF c \in Preloaded \cap Defining THEN Plain(c) ELSE None]
    BY <1>1, PatchInit DEF Init
  <2>2. Genuine
    BY <2>1, FunctionFacts, OwnSource DEF Genuine
  <2>3. Len(blocks) = 0
    BY <2>1
  <2> QED BY <2>1, <2>2, <2>3 DEF RestoreInv, Undoable
<1>2. ASSUME RestoreInv, [Next]_vars PROVE RestoreInv'
  BY <1>2, PatchSteps, GenuineStep, UndoableStep DEF RestoreInv
<1> QED BY <1>1, <1>2

\* Nothing of a test leaks into the next one, where the classes that are asked
\* for the method stand in one line: with no block open every class resolves to
\* what its source says, however the blocks nested, whichever were refused or
\* left by an exception (src/llmtivo/intercept.py:18-19, "Restored
\* unconditionally").  A class whose first base is patched and inherits the
\* method, and whose second overrides it, shows that OneLine is needed: the
\* attribute that the first base is given back hides the override.
THEOREM NothingLeaks ==
    ASSUME OneLine
    PROVE  Spec => []Restored
<1>1. Init => RestoreInv
  BY RestoreInvariant
<1>2. RestoreInv /\ [Next]_vars => RestoreInv'
  BY RestoreInvariant
<1>3. RestoreInv => Restored
  <2> SUFFICES ASSUME RestoreInv, blocks = <<>>, NEW c \in loaded
               PROVE  Lookup(c) = Plain(SourceOf(c))
    BY DEF Restored
  <2>1. TypeOK /\ Attributes /\ Genuine
    BY DEF RestoreInv, PatchInv
  <2>2. c \in Classes /\ Lookup(c).of = SourceOf(c)
    BY <2>1, LookupGenuine DEF TypeOK
  <2>3. PICK i \in DOMAIN Mro[c] :
           /\ FindsAt(own, c, i) /\ Lookup(c) = own[Mro[c][i]] /\ Mro[c][i] \in loaded
           /\ Lookup(c) \in Function
    BY <2>1, LookupLoaded
  <2>4. Mro[c][i] \in Classes /\ own[Mro[c][i]] # None
    BY <2>1, <2>3 DEF TypeOK, FindsAt
  <2>5. ~\E k \in 1..Len(blocks) : TRUE
    <3>1. Len(blocks) = 0
      OBVIOUS
    <3> QED BY <3>1
  <2>6. Lookup(c).by = <<>>
    BY <2>1, <2>3, <2>4, <2>5 DEF Attributes
  <2>7. SourceOf(c) \in Classes
    BY <2>2, DefinedAtFacts
  <2> QED BY <2>2, <2>3, <2>6, <2>7, FunctionFacts
<1> QED BY <1>1, <1>2, <1>3, PTL DEF Spec

\* A block that is left, or refused half-way, leaves each class resolving as it
\* found it, under the same hypothesis: the finally clauses of patched and
\* patched_langchain restore in the order opposite to patching.
THEOREM BlocksLeaveNoTrace ==
    ASSUME OneLine
    PROVE  Spec => LeavesAsFound
<1>1. Init => RestoreInv
  BY RestoreInvariant
<1>2. RestoreInv /\ [Next]_vars => RestoreInv'
  BY RestoreInvariant
<1>3. ASSUME RestoreInv, [Next]_vars, Len(blocks') < Len(blocks),
             NEW c \in Classes, Innermost.found[c] # None
      PROVE  Lookup(c)' = Innermost.found[c]
  <2>1. /\ TypeOK /\ Attributes /\ Undos /\ Entering /\ Hooks
        /\ PatchInv /\ Undoable
    BY <1>3 DEF RestoreInv, PatchInv
  <2>2. Len(blocks) \in Nat /\ blocks \in Seq(Block)
    BY <2>1 DEF TypeOK
  <2>3. Left
    <3>1. ASSUME NEW targets, Begin(targets) PROVE Len(blocks') > Len(blocks)
      <4>1. Len(blocks') = Len(blocks) + 1
        BY <2>1, <3>1, BeginGrows DEF Grows
      <4> QED BY <2>2, <4>1
    <3>2. EnterLangchain \/ EnterLitellm => Len(blocks') > Len(blocks)
      BY <3>1 DEF EnterLangchain, EnterLitellm
    <3>3. \A d, e \in Classes : EnterPatched(d) \/ EnterPatchedAll(d, e) => Len(blocks') > Len(blocks)
      BY <3>1 DEF EnterPatched, EnterPatchedAll
    <3>4. RestoreClass \/ RestoreHook => Len(blocks') = Len(blocks)
      BY <2>1, UndoneDrops DEF Drops, Keeps
    <3>5. ASSUME NEW b, NEW d, NEW f, blocks' = Noted(b, d, f) PROVE Len(blocks') = Len(blocks)
      <4>1. blocks' = [blocks EXCEPT ![b] = [blocks[b] EXCEPT !.undo =
                           Append(blocks[b].undo, [target |-> d, original |-> f])]]
        BY <3>5 DEF Noted
      <4> QED BY <2>2, <4>1
    <3>6. Install \/ SetHook => Len(blocks') = Len(blocks)
      BY <3>5 DEF Install, SetHook
    <3>7. \A d \in Classes : LoadClass(d) \/ InterceptNew(d) => Len(blocks') = Len(blocks)
      BY <3>5 DEF LoadClass, InterceptNew
    <3>8. Refuse \/ Leave \/ UNCHANGED vars => Len(blocks') = Len(blocks)
      BY DEF Refuse, Leave, vars
    <3> QED BY <1>3, <2>2, <3>2, <3>3, <3>4, <3>6, <3>7, <3>8 DEF Next
  <2> DEFINE n == Len(blocks)
  <2>4. own' = own /\ blocks[n].undo = <<>> /\ n \in 1..Len(blocks)
    <3>1. blocks # <<>>
      BY <2>1, <2>3 DEF Left, Entering
    <3> QED BY <2>2, <2>3, <3>1 DEF Left, Innermost
  <2>5. c \in loaded /\ LookupIn(Before(own, n), c) = Innermost.found[c]
    BY <1>3, <2>1, <2>4 DEF Undoable, Innermost
  <2> HIDE DEF n
  <2>6. ASSUME NEW d \in Classes, own[d] # None
        PROVE  own[d].by = <<>> \/ \E k \in Nat : k < n /\ own[d].by = <<k>>
    <3>1. own[d].by = <<>> \/ \E k \in 1..Len(blocks) : own[d].by = <<k>> /\ Holds(k, d)
      BY <2>1, <2>6 DEF Attributes
    <3>2. ASSUME NEW k \in 1..Len(blocks), Holds(k, d) PROVE k \in Nat /\ k < n
      <4>1. k # n
        BY <2>4, <3>2 DEF Holds, HoldsIn
      <4> QED BY <2>2, <4>1 DEF n
    <3> QED BY <3>1, <3>2
  <2>7. n \in Nat
    BY <2>2 DEF n
  <2>8. LookupIn(Before(own, n), c) = Lookup(c)
    BY <2>1, <2>5, <2>6, <2>7, NothingToUndo
  <2>9. Lookup(c)' = Lookup(c)
    BY <2>4 DEF Lookup
  <2> QED BY <2>5, <2>8, <2>9
<1>4. RestoreInv /\ [Next]_vars =>
         [Len(blocks') < Len(blocks) =>
             \A c \in Classes : Innermost.found[c] # None => Lookup(c)' = Innermost.found[c]]_vars
  BY <1>3
<1> QED BY <1>1, <1>2, <1>4, PTL DEF Spec, LeavesAsFound


-----------------------------------------------------------------------------
(* The seam of the embeddings *)

\* An embeddings class that exists has the method from an embeddings class.
LEMMA LookupUnder ==
    ASSUME EmbeddingsDefine, TypeOK, Attributes, NEW c \in loaded \cap Under(Embeddings)
    PROVE  \E i \in DOMAIN Mro[c] :
              /\ FindsAt(own, c, i) /\ Lookup(c) = own[Mro[c][i]]
              /\ Mro[c][i] \in loaded \cap Under(Embeddings)
              /\ \A j \in 1..i : j \in DOMAIN Mro[c] /\ Mro[c][j] \in loaded \cap Under(Embeddings)
<1>1. c \in Classes
  BY DEF TypeOK
<1>2. PICK i \in DOMAIN Mro[c] :
         FindsAt(own, c, i) /\ Lookup(c) = own[Mro[c][i]] /\ i <= DefinedAt(c)
  BY LookupLoaded
<1>3. i \in Nat /\ i >= 1 /\ DOMAIN Mro[c] = 1..Len(Mro[c]) /\ Len(Mro[c]) \in Nat
  BY <1>1, <1>2, MroFacts
<1>4. DefinedAt(c) \in Nat /\ DefinedAt(c) <= Len(Mro[c])
  BY <1>1, <1>3, DefinedAtFacts
<1>5. \A j \in 1..i : j \in DOMAIN Mro[c] /\ j \in 1..DefinedAt(c)
  BY <1>2, <1>3, <1>4
<1>6. \A j \in 1..i : Mro[c][j] \in loaded \cap Under(Embeddings)
  BY <1>5 DEF EmbeddingsDefine, Attributes
<1>7. i \in 1..i
  BY <1>3
<1> QED BY <1>2, <1>5, <1>6, <1>7

\* A class finds the same after a step that changes nothing on the way to it.
LEMMA LookupKept ==
    ASSUME NEW c \in Classes, NEW i, FindsAt(own, c, i), Lookup(c) = own[Mro[c][i]],
           \A j \in 1..i : own'[Mro[c][j]] = own[Mro[c][j]]
    PROVE  Lookup(c)' = Lookup(c)
<1>1. i \in DOMAIN Mro[c] /\ DOMAIN Mro[c] = 1..Len(Mro[c]) /\ Len(Mro[c]) \in Nat
  BY MroFacts DEF FindsAt
<1>2. i \in 1..i /\ \A j \in DOMAIN Mro[c] : j < i => j \in 1..i
  BY <1>1
<1>3. FindsAt(own', c, i)
  BY <1>1, <1>2 DEF FindsAt
<1>4. Lookup(c)' = LookupIn(own', c)
  BY DEF Lookup, LookupIn
<1> QED BY <1>2, <1>3, <1>4, LookupIs

\* A walk over a finite set meets every element of it.
LEMMA WalkMeetsAll ==
    ASSUME NEW S, IsFiniteSet(S), NEW walk \in SetToSeqs(S)
    PROVE  /\ Len(walk) \in Nat /\ DOMAIN walk = 1..Len(walk)
           /\ \A c \in S : \E i \in 1..Len(walk) : walk[i] = c
<1> DEFINE n == Cardinality(S)
<1>1. n \in Nat
  BY FS_CardinalityType
<1>2. walk \in [1..n -> S] /\ \A i, j \in 1..n : i # j => walk[i] # walk[j]
  BY DEF SetToSeqs
<1> HIDE DEF n
<1>3. walk \in Injection(1..n, S)
  BY <1>2 DEF Injection, IsInjective
<1>4. IsFiniteSet(1..n) /\ Cardinality(1..n) = n
  <2>1. 1 \in Int /\ n \in Int
    BY <1>1
  <2>2. Cardinality(1..n) = IF 1 > n THEN 0 ELSE n - 1 + 1
    BY <2>1, FS_Interval
  <2>3. IsFiniteSet(1..n)
    BY <2>1, FS_Interval
  <2> QED BY <1>1, <2>2, <2>3
<1>5. walk \in Surjection(1..n, S)
  BY <1>3, <1>4, FS_Injection DEF n
<1>6. \A c \in S : \E i \in 1..n : walk[i] = c
  BY <1>5 DEF Surjection
<1>7. Len(walk) = n /\ DOMAIN walk = 1..n
  <2>1. walk \in Seq(S)
    BY <1>1, <1>2
  <2>2. DOMAIN walk = 1..n
    BY <1>2
  <2> QED BY <1>1, <2>1, <2>2
<1> QED BY <1>1, <1>6, <1>7

\* A class that has the method resolves to what it has.
LEMMA LookupLoadedOwn ==
    ASSUME NEW c \in Classes, own[c] # None
    PROVE  Lookup(c) = own[c]
<1>1. LookupIn(own, c) = own[c]
  BY OwnIsFound
<1>2. Lookup(c) = LookupIn(own, c)
  BY DEF Lookup, LookupIn
<1> QED BY <1>1, <1>2

\* What stands at the end of the walk of a LangChain block.
LEMMA WalkEnds ==
    ASSUME TypeOK, NEW walk \in SetToSeqs(Interceptable), NEW i,
           i \in DOMAIN (walk \o <<Hook, BaseChatModel>>), (walk \o <<Hook, BaseChatModel>>)[i] = Hook
    PROVE  LET targets == walk \o <<Hook, BaseChatModel>>
           IN  /\ i = Len(targets) - 1 /\ targets[Len(targets)] = BaseChatModel
               /\ \A c \in loaded \cap Under(Embeddings) :
                     own[c] # None => own[c].by # <<>> \/ \E j \in 1..(i - 1) : targets[j] = c
<1> DEFINE targets == walk \o <<Hook, BaseChatModel>>
           n == Len(walk)
<1>1. IsFiniteSet(Interceptable) /\ Interceptable \subseteq loaded
  BY MroAssumption, FS_Subset DEF Interceptable, TypeOK
<1>2. /\ n \in Nat /\ DOMAIN walk = 1..n
      /\ \A c \in Interceptable : \E j \in 1..n : walk[j] = c
  BY <1>1, WalkMeetsAll
<1>3. walk \in Seq(Interceptable)
  <2>1. walk \in [1..Cardinality(Interceptable) -> Interceptable] /\ Cardinality(Interceptable) \in Nat
    BY <1>1, FS_CardinalityType DEF SetToSeqs
  <2> QED BY <2>1
<1>4. /\ Len(targets) = n + 2 /\ DOMAIN targets = 1..(n + 2)
      /\ targets[n + 1] = Hook /\ targets[n + 2] = BaseChatModel
      /\ \A j \in 1..n : targets[j] = walk[j] /\ walk[j] \in loaded
  BY <1>1, <1>2, <1>3
<1>5. Hook \notin loaded /\ BaseChatModel # Hook
  BY RootsAssumption DEF TypeOK
<1>6. i \in DOMAIN targets /\ targets[i] = Hook
  OBVIOUS
<1> HIDE DEF targets, n
<1>7. i = n + 1
  <2>1. i \in 1..n \/ i = n + 1 \/ i = n + 2
    BY <1>2, <1>4, <1>6
  <2> QED BY <1>4, <1>5, <1>6, <2>1
<1>8. ASSUME NEW c \in loaded \cap Under(Embeddings), own[c] # None, own[c].by = <<>>
      PROVE  \E j \in 1..n : targets[j] = c
  <2>1. c \in Classes
    BY DEF TypeOK
  <2>2. Lookup(c) = own[c]
    BY <1>8, <2>1, LookupLoadedOwn
  <2>3. c \in Interceptable
    BY <1>8, <2>2 DEF Interceptable, Patched
  <2> QED BY <1>2, <1>4, <2>3
<1> QED BY <1>2, <1>4, <1>7, <1>8 DEF targets


\* Every block begins with a walk that meets the embeddings, or sets no hook.
LEMMA EntersWalk ==
    ASSUME TypeOK,
           \/ \E c \in Classes : EnterPatched(c)
           \/ \E c, d \in Classes : EnterPatchedAll(c, d)
           \/ EnterLangchain \/ EnterLitellm
    PROVE  \E targets :
              /\ Begin(targets)
              /\ \A i \in DOMAIN targets : targets[i] = Hook =>
                    /\ i = Len(targets) - 1 /\ targets[Len(targets)] = BaseChatModel
                    /\ \A c \in loaded \cap Under(Embeddings) :
                          own[c] # None => own[c].by # <<>> \/ \E j \in 1..(i - 1) : targets[j] = c
<1>1. Hook \notin loaded /\ LitellmTargets \subseteq loaded
  BY RootsAssumption DEF TypeOK, LitellmTargets
<1> DEFINE Meets(targets) ==
              \A i \in DOMAIN targets : targets[i] = Hook =>
                 /\ i = Len(targets) - 1 /\ targets[Len(targets)] = BaseChatModel
                 /\ \A c \in loaded \cap Under(Embeddings) :
                       own[c] # None => own[c].by # <<>> \/ \E j \in 1..(i - 1) : targets[j] = c
<1>2. \A c \in loaded : Meets(<<c>>)
  <2>1. \A c \in loaded : \A i \in DOMAIN <<c>> : <<c>>[i] # Hook
    BY <1>1
  <2> QED BY <2>1
<1>3. \A c, d \in loaded : Meets(<<c, d>>)
  <2>1. \A c, d \in loaded : \A i \in DOMAIN <<c, d>> : <<c, d>>[i] # Hook
    BY <1>1
  <2> QED BY <2>1
<1>4. \A walk \in SetToSeqs(Interceptable) : Meets(walk \o <<Hook, BaseChatModel>>)
  BY WalkEnds
<1>5. \E targets : Begin(targets) /\ Meets(targets)
  <2> HIDE DEF Meets
  <2>1. CASE EnterLangchain
    BY <1>4, <2>1 DEF EnterLangchain
  <2>2. CASE EnterLitellm
    BY <1>1, <1>2, <2>2 DEF EnterLitellm
  <2>3. CASE \E c \in Classes : EnterPatched(c)
    BY <1>2, <2>3 DEF EnterPatched
  <2>4. CASE \E c, d \in Classes : EnterPatchedAll(c, d)
    <3>1. PICK c \in Classes, d \in Classes : EnterPatchedAll(c, d)
      BY <2>4
    <3>2. c \in loaded /\ d \in loaded /\ Begin(<<c, d>>)
      BY <3>1 DEF EnterPatchedAll
    <3> QED BY <1>3, <3>2
  <2> QED BY <2>1, <2>2, <2>3, <2>4
<1> QED BY <1>5

\* The blocks around the one that begins cover what they did.
LEMMA SeamBegins ==
    ASSUME SeamInv, NEW targets, Begin(targets),
           \A i \in DOMAIN targets : targets[i] = Hook =>
              /\ i = Len(targets) - 1 /\ targets[Len(targets)] = BaseChatModel
              /\ \A c \in loaded \cap Under(Embeddings) :
                    own[c] # None => own[c].by # <<>> \/ \E j \in 1..(i - 1) : targets[j] = c
    PROVE  Walk' /\ Seam'
<1>1. TypeOK /\ Attributes /\ Walk /\ Seam
  BY DEF SeamInv, PatchInv
<1>2. Grows /\ Len(blocks) \in Nat
  BY <1>1, BeginGrows
<1>3. /\ todo' = targets /\ TestRuns /\ loaded' = loaded /\ own' = own
  BY DEF Begin
<1> DEFINE n == Len(blocks) + 1
<1>4. /\ Len(blocks') = n /\ \A k \in 1..n : k \in 1..Len(blocks) \/ k = n
      /\ \A k \in 1..Len(blocks) : \A target : HoldsIn(blocks', k, target) <=> Holds(k, target)
      /\ \A target : ~HoldsIn(blocks', n, target)
  BY <1>2 DEF Grows, Holds, HoldsIn
<1> HIDE DEF n
<1>5. Walk'
  BY <1>3, <1>4 DEF Walk, Holds
<1>6. \A c \in Classes : Lookup(c)' = Lookup(c)
  BY <1>3 DEF Lookup
<1>7. ASSUME NEW k \in 1..n, HoldsIn(blocks', k, Hook)
      PROVE  Covered(k)' /\ HoldsIn(blocks', k, BaseChatModel)
  <2>1. k \in 1..Len(blocks) /\ Holds(k, Hook)
    BY <1>4, <1>7
  <2>2. Covered(k) /\ Holds(k, BaseChatModel)
    BY <1>1, <1>3, <2>1 DEF Seam, TestRuns
  <2>3. Covered(k)'
    BY <1>1, <1>3, <1>6, <2>2 DEF Covered, TypeOK
  <2> QED BY <1>4, <2>1, <2>2, <2>3
<1> QED BY <1>4, <1>5, <1>7 DEF Seam, Holds

\* A block patches a class that no block covers.
LEMMA SeamInstalls ==
    ASSUME EmbeddingsDefine, SeamInv, Install
    PROVE  Walk' /\ Seam'
<1>1. TypeOK /\ Attributes /\ Entering /\ Walk /\ Seam
  BY DEF SeamInv, PatchInv
<1> DEFINE x == Head(todo)
           n == Len(blocks)
<1>2. /\ todo # <<>> /\ x # Hook /\ ~Patched(Lookup(x)) /\ todo' = Tail(todo)
      /\ own' = [own EXCEPT ![x] = Wrap(Lookup(x), n)] /\ blocks' = Noted(n, x, Lookup(x))
      /\ loaded' = loaded /\ leaving' = leaving
  BY DEF Install
<1>3. /\ todo \in Seq(Classes \cup {Hook}) /\ leaving = "no"
      /\ 1 \in DOMAIN todo /\ todo[1] = x /\ x \in loaded /\ n \in 1..n /\ n \in Nat
  <2>1. blocks # <<>> /\ blocks \in Seq(Block) /\ todo \in Seq(Classes \cup {Hook}) /\ leaving = "no"
    BY <1>1, <1>2 DEF Entering, TypeOK
  <2>2. 1 \in DOMAIN todo /\ todo[1] = x
    BY <1>2, <2>1
  <2>3. n \in 1..n /\ n \in Nat
    BY <2>1
  <2> HIDE DEF x, n
  <2> QED BY <1>1, <1>2, <2>1, <2>2, <2>3 DEF Entering
<1>4. /\ Len(todo) \in Nat /\ Len(todo') = Len(todo) - 1 /\ DOMAIN todo = 1..Len(todo)
      /\ DOMAIN todo' = 1..Len(todo') /\ (todo' # <<>> => Len(todo) > 1)
      /\ \A i \in DOMAIN todo' : i + 1 \in DOMAIN todo /\ todo'[i] = todo[i + 1]
  BY <1>2, <1>3
<1> HIDE DEF x
<1>5. x \in Classes /\ Lookup(x) \in Function /\ n \in 1..MaxBlocks
  BY <1>1, <1>3, LookupLoaded, BlockFacts DEF TypeOK
<1>6. Adds(n, x, Lookup(x))
  BY <1>1, <1>2, <1>3, <1>5, NotedAdds
<1>7. /\ Len(blocks') = n
      /\ \A k \in 1..n : \A target :
            HoldsIn(blocks', k, target) <=> Holds(k, target) \/ (k = n /\ target = x)
  <2>1. \A k \in 1..n : \A target :
           Holds(k, target)' <=> Holds(k, target) \/ (k = n /\ target = x)
    BY <1>1, <1>3, <1>6, HoldsAdds
  <2> QED BY <1>6, <2>1 DEF Holds, Adds, Keeps
<1>8. own'[x].by = <<n>> /\ \A c \in Classes : c # x => own'[c] = own[c]
  BY <1>1, <1>2, <1>5, WrapFacts DEF TypeOK
<1> HIDE DEF n
<1>9. ASSUME NEW k \in 1..n, Holds(k, Hook) PROVE Covered(k)'
  <2>1. Covered(k)
    BY <1>1, <1>3, <1>9 DEF Seam, n
  <2>2. ASSUME NEW c \in loaded \cap Under(Embeddings) PROVE Lookup(c)' = Lookup(c)
    <3>1. c \in Classes
      BY <1>1, <2>2 DEF TypeOK
    <3>2. PICK i \in DOMAIN Mro[c] :
             /\ FindsAt(own, c, i) /\ Lookup(c) = own[Mro[c][i]]
             /\ \A j \in 1..i : j \in DOMAIN Mro[c] /\ Mro[c][j] \in loaded \cap Under(Embeddings)
      BY <1>1, <2>2, LookupUnder
    <3>3. x \notin Under(Embeddings)
      BY <1>2, <1>3, <2>1, OnceFacts DEF Covered, Patched
    <3>4. \A j \in 1..i : own'[Mro[c][j]] = own[Mro[c][j]]
      BY <1>1, <1>8, <3>2, <3>3 DEF TypeOK
    <3> QED BY <3>1, <3>2, <3>4, LookupKept
  <2> QED BY <1>2, <2>1, <2>2 DEF Covered
<1>10. ASSUME NEW k \in 1..n, Holds(k, Hook), ~(k = n /\ todo' # <<>>)
       PROVE  HoldsIn(blocks', k, BaseChatModel)
  <2>1. CASE k # n
    <3>1. Holds(k, BaseChatModel)
      BY <1>1, <1>10, <2>1 DEF Seam, n
    <3> QED BY <1>7, <3>1
  <2>2. CASE k = n
    <3>1. todo[1] = BaseChatModel
      BY <1>1, <1>2, <1>10, <2>2 DEF Walk, n
    <3> QED BY <1>3, <1>7, <2>2, <3>1
  <2> QED BY <2>1, <2>2
<1>11. x # Hook /\ \A k \in 1..n : HoldsIn(blocks', k, Hook) <=> Holds(k, Hook)
  BY <1>2, <1>7
<1>12. Walk'
  <2>1. ASSUME NEW i \in DOMAIN todo', todo'[i] = Hook
        PROVE  /\ i = Len(todo') - 1 /\ todo'[Len(todo')] = BaseChatModel
               /\ \A c \in loaded \cap Under(Embeddings) :
                     own'[c] # None => own'[c].by # <<>> \/ \E j \in 1..(i - 1) : todo'[j] = c
    <3>1. i + 1 \in DOMAIN todo /\ todo[i + 1] = Hook /\ i \in Nat
      BY <1>4, <2>1
    <3>2. /\ i + 1 = Len(todo) - 1 /\ todo[Len(todo)] = BaseChatModel
          /\ \A c \in loaded \cap Under(Embeddings) :
                own[c] # None => own[c].by # <<>> \/ \E j \in 1..((i + 1) - 1) : todo[j] = c
      BY <1>1, <3>1 DEF Walk
    <3>3. i = Len(todo') - 1 /\ todo'[Len(todo')] = BaseChatModel
      <4>1. i = Len(todo') - 1 /\ Len(todo') \in DOMAIN todo' /\ Len(todo') + 1 = Len(todo)
        BY <1>4, <3>1, <3>2
      <4> QED BY <1>4, <3>2, <4>1
    <3>4. ASSUME NEW c \in loaded \cap Under(Embeddings), own'[c] # None, own'[c].by = <<>>
          PROVE  \E j \in 1..(i - 1) : todo'[j] = c
      <4>1. c # x
        BY <1>8, <3>4
      <4>2. own[c] # None /\ own[c].by = <<>>
        BY <1>1, <1>8, <3>4, <4>1 DEF TypeOK
      <4>3. PICK j \in 1..((i + 1) - 1) : todo[j] = c
        BY <3>2, <4>2
      <4>4. j # 1
        BY <1>3, <4>1, <4>3
      <4>5. j - 1 \in 1..(i - 1) /\ j - 1 \in DOMAIN todo' /\ (j - 1) + 1 = j
        BY <1>4, <3>1, <3>2, <4>3, <4>4
      <4>6. todo'[j - 1] = c
        BY <1>4, <4>3, <4>5
      <4> QED BY <4>5, <4>6
    <3> QED BY <3>3, <3>4
  <2>2. todo' # <<>> => ~HoldsIn(blocks', n, Hook)
    BY <1>1, <1>2, <1>3, <1>4, <1>11 DEF Walk, n
  <2> QED BY <1>2, <1>7, <2>1, <2>2 DEF Walk, Holds
<1>13. leaving' = "no"
  BY <1>2, <1>3
<1> QED BY <1>7, <1>9, <1>10, <1>11, <1>12, <1>13 DEF Seam, Holds, TestRuns


\* A block sets its hook once it has patched every embeddings class.
LEMMA SeamSetsHook ==
    ASSUME EmbeddingsDefine, SeamInv, SetHook
    PROVE  Walk' /\ Seam'
<1>1. TypeOK /\ Attributes /\ Entering /\ Walk /\ Seam
  BY DEF SeamInv, PatchInv
<1> DEFINE n == Len(blocks)
<1>2. /\ todo # <<>> /\ Head(todo) = Hook /\ todo' = Tail(todo) /\ blocks' = Noted(n, Hook, None)
      /\ own' = own /\ loaded' = loaded /\ leaving' = leaving
  BY DEF SetHook
<1>3. /\ todo \in Seq(Classes \cup {Hook}) /\ leaving = "no"
      /\ 1 \in DOMAIN todo /\ todo[1] = Hook /\ n \in 1..n /\ n \in Nat
  <2>1. blocks # <<>> /\ blocks \in Seq(Block) /\ todo \in Seq(Classes \cup {Hook}) /\ leaving = "no"
    BY <1>1, <1>2 DEF Entering, TypeOK
  <2>2. 1 \in DOMAIN todo /\ todo[1] = Hook
    BY <1>2, <2>1
  <2>3. n \in 1..n /\ n \in Nat
    BY <2>1
  <2> QED BY <2>1, <2>2, <2>3
<1>4. /\ 1 = Len(todo) - 1 /\ todo[Len(todo)] = BaseChatModel
      /\ \A c \in loaded \cap Under(Embeddings) :
            own[c] # None => own[c].by # <<>> \/ \E j \in 1..(1 - 1) : todo[j] = c
  BY <1>1, <1>3 DEF Walk
<1>5. Len(todo') = 1 /\ todo'[1] = BaseChatModel /\ BaseChatModel # Hook /\ todo' # <<>> /\ DOMAIN todo' = {1}
  <2>1. Len(todo) = 2 /\ todo[2] = BaseChatModel
    <3>1. Len(todo) \in Nat
      BY <1>3
    <3>2. Len(todo) = 2
      BY <1>4, <3>1
    <3> QED BY <1>4, <3>2
  <2>2. Len(todo') = 1 /\ todo'[1] = BaseChatModel /\ todo' # <<>> /\ DOMAIN todo' = 1..1
    BY <1>2, <1>3, <2>1
  <2>3. BaseChatModel # Hook
    BY RootsAssumption
  <2> QED BY <2>2, <2>3
<1>6. Adds(n, Hook, None)
  BY <1>1, <1>2, <1>3, NotedAdds
<1>7. /\ Len(blocks') = n
      /\ \A k \in 1..n : \A target :
            HoldsIn(blocks', k, target) <=> Holds(k, target) \/ (k = n /\ target = Hook)
  <2>1. \A k \in 1..n : \A target :
           Holds(k, target)' <=> Holds(k, target) \/ (k = n /\ target = Hook)
    BY <1>1, <1>3, <1>6, HoldsAdds
  <2> QED BY <1>6, <2>1 DEF Holds, Adds, Keeps
<1>8. Covered(n)
  <2>1. ASSUME NEW c \in loaded \cap Under(Embeddings)
        PROVE  \E k \in 1..n : Lookup(c).by = <<k>>
    <3>1. PICK i \in DOMAIN Mro[c] :
             /\ FindsAt(own, c, i) /\ Lookup(c) = own[Mro[c][i]]
             /\ Mro[c][i] \in loaded \cap Under(Embeddings)
      BY <1>1, <2>1, LookupUnder
    <3>2. Mro[c][i] \in Classes /\ own[Mro[c][i]] # None
      BY <1>1, <3>1 DEF FindsAt, TypeOK
    <3>3. own[Mro[c][i]].by # <<>>
      <4>1. 1..(1 - 1) = {}
        OBVIOUS
      <4> QED BY <1>4, <3>1, <3>2, <4>1
    <3> QED BY <1>1, <3>1, <3>2, <3>3 DEF Attributes
  <2> QED BY <2>1 DEF Covered
<1> HIDE DEF n
<1>9. ASSUME NEW k \in 1..n, HoldsIn(blocks', k, Hook) PROVE Covered(k)'
  <2>1. CASE k = n
    BY <1>2, <1>8, <2>1 DEF Covered, Lookup
  <2>2. CASE k # n
    <3>1. Covered(k)
      BY <1>1, <1>7, <1>9, <2>2 DEF Seam, n
    <3> QED BY <1>2, <3>1 DEF Covered, Lookup
  <2> QED BY <2>1, <2>2
<1>10. ASSUME NEW k \in 1..n, HoldsIn(blocks', k, Hook), k # n
       PROVE  HoldsIn(blocks', k, BaseChatModel)
  <2>1. Holds(k, BaseChatModel)
    BY <1>1, <1>7, <1>10 DEF Seam, n
  <2> QED BY <1>7, <2>1
<1>11. Walk'
  BY <1>5 DEF Walk
<1> QED BY <1>5, <1>7, <1>9, <1>10, <1>11 DEF Seam, Holds, TestRuns

\* While a test runs the blocks that have set a hook have the chat models too,
\* so there is one at most.
LEMMA OneHook ==
    ASSUME SeamInv, TestRuns
    PROVE  \A k \in 1..Len(blocks) : Holds(k, Hook) => k = hook
<1> SUFFICES ASSUME NEW k \in 1..Len(blocks), Holds(k, Hook) PROVE k = hook
  OBVIOUS
<1>1. TypeOK /\ Undos /\ Hooks /\ Seam
  BY DEF SeamInv, PatchInv
<1>2. hook # 0 /\ Holds(hook, Hook) /\ hook \in 1..Len(blocks)
  <2>1. k <= hook /\ hook \in 0..Len(blocks) /\ k \in Nat /\ k # 0
    BY <1>1 DEF Hooks, TypeOK
  <2>2. hook # 0 /\ hook \in 1..Len(blocks)
    BY <2>1
  <2> QED BY <1>1, <2>2 DEF Hooks
<1>3. Holds(k, BaseChatModel) /\ Holds(hook, BaseChatModel)
  BY <1>1, <1>2 DEF Seam
<1>4. \A b \in 1..Len(blocks) : Holds(b, BaseChatModel) => own[BaseChatModel].by = <<b>>
  <2>1. BaseChatModel # Hook
    BY RootsAssumption
  <2> QED BY <1>1, <2>1 DEF Undos, Holds, HoldsIn, FitsIn
<1> QED BY <1>2, <1>3, <1>4, OnceFacts

\* A class loaded later is covered by the one block that has set a hook.
LEMMA SeamLoads ==
    ASSUME EmbeddingsDefine, SeamInv, NEW x \in Classes, LoadClass(x) \/ InterceptNew(x)
    PROVE  Walk' /\ Seam'
<1>1. TypeOK /\ Attributes /\ Hooks /\ Walk /\ Seam
  BY DEF SeamInv, PatchInv
<1>2. /\ TestRuns /\ TestRuns' /\ x \notin loaded /\ loaded' = loaded \cup {x}
      /\ \A d \in Classes : d # x => own'[d] = own[d]
      /\ \A i \in DOMAIN Mro[x] : Mro[x][i] \in loaded \cup {x}
  BY <1>1 DEF LoadClass, InterceptNew, Loadable, TypeOK, TestRuns
<1>3. /\ Len(blocks') = Len(blocks)
      /\ \A k \in 1..Len(blocks) : HoldsIn(blocks', k, Hook) <=> Holds(k, Hook)
      /\ \A k \in 1..Len(blocks) : Holds(k, BaseChatModel) => HoldsIn(blocks', k, BaseChatModel)
  <2>1. CASE LoadClass(x)
    BY <2>1 DEF LoadClass, Holds
  <2>2. CASE InterceptNew(x)
    <3>1. hook \in 1..Len(blocks) /\ blocks' = Noted(hook, x, Plain(x)) /\ x # Hook
      BY <1>1, <2>2, RootsAssumption DEF InterceptNew, Hooked, TypeOK
    <3>2. Plain(x) \in Function
      BY FunctionFacts
    <3>3. Adds(hook, x, Plain(x))
      BY <1>1, <3>1, <3>2, NotedAdds
    <3>4. \A k \in 1..Len(blocks) : \A target :
             Holds(k, target)' <=> Holds(k, target) \/ (k = hook /\ target = x)
      BY <1>1, <3>1, <3>3, HoldsAdds
    <3> QED BY <3>1, <3>3, <3>4 DEF Holds, Adds, Keeps
  <2> QED BY <2>1, <2>2
<1>4. Walk'
  BY <1>2 DEF Walk, TestRuns
<1>5. ASSUME NEW k \in 1..Len(blocks), Holds(k, Hook) PROVE Covered(k)'
  <2>1. Covered(k) /\ k = hook
    BY <1>1, <1>2, <1>5, OneHook DEF Seam, TestRuns
  <2>2. ASSUME NEW c \in loaded \cap Under(Embeddings) PROVE Lookup(c)' = Lookup(c)
    <3>1. c \in Classes
      BY <1>1, <2>2 DEF TypeOK
    <3>2. PICK i \in DOMAIN Mro[c] :
             /\ FindsAt(own, c, i) /\ Lookup(c) = own[Mro[c][i]]
             /\ \A j \in 1..i : j \in DOMAIN Mro[c] /\ Mro[c][j] \in loaded \cap Under(Embeddings)
      BY <1>1, <2>2, LookupUnder
    <3>3. \A j \in 1..i : own'[Mro[c][j]] = own[Mro[c][j]]
      BY <1>1, <1>2, <3>2 DEF TypeOK
    <3> QED BY <3>1, <3>2, <3>3, LookupKept
  <2>3. ASSUME x \in Under(Embeddings) PROVE \E m \in 1..k : Lookup(x)'.by = <<m>>
    <3>1. Lookup(x)' = LookupIn(own', x)
      BY DEF Lookup, LookupIn
    <3>2. k # 0 /\ k \in 1..k
      BY <1>1, <2>1 DEF TypeOK
    <3>3. CASE x \in Defining
      <4>1. InterceptNew(x)
        BY <2>1, <2>3, <3>2, <3>3 DEF LoadClass, Hooked
      <4>2. hook \in 1..MaxBlocks
        BY <1>1, <2>1, BlockFacts
      <4>3. own'[x] = Wrap(Plain(x), hook)
        BY <1>1, <4>1 DEF InterceptNew, TypeOK
      <4>4. own'[x].by = <<hook>> /\ own'[x] # None
        BY <4>2, <4>3, WrapFacts, FunctionFacts DEF Patched
      <4>5. LookupIn(own', x) = own'[x]
        BY <4>4, OwnIsFound
      <4> QED BY <2>1, <3>1, <3>2, <4>4, <4>5
    <3>4. CASE x \notin Defining
      <4>1. own'[x] = None
        BY <1>1, <3>4 DEF LoadClass, InterceptNew, Hooked, TypeOK
      <4>2. /\ DefinedAt(x) \in DOMAIN Mro[x] /\ Mro[x][DefinedAt(x)] \in Defining
            /\ Mro[x][1] = x /\ DOMAIN Mro[x] = 1..Len(Mro[x]) /\ Len(Mro[x]) \in Nat
        BY DefinedAtFacts, MroFacts
      <4>3. Mro[x][DefinedAt(x)] \in loaded /\ Mro[x][DefinedAt(x)] # x
        BY <1>2, <3>4, <4>2
      <4>4. own'[Mro[x][DefinedAt(x)]] # None
        BY <1>1, <1>2, <4>2, <4>3 DEF Attributes, TypeOK
      <4>5. Finds(own', x)
        BY <4>2, <4>4 DEF Finds
      <4>6. PICK i \in DOMAIN Mro[x] : FindsAt(own', x, i) /\ LookupIn(own', x) = own'[Mro[x][i]]
        BY <4>5, LookupFinds
      <4> DEFINE d == Mro[x][i]
      <4>7. i \in 1..DefinedAt(x)
        BY <4>2, <4>4, <4>6 DEF FindsAt
      <4>8. d \in loaded \cap Under(Embeddings) /\ d \in Classes
        <5>1. d \in Under(Embeddings)
          BY <2>3, <4>7 DEF EmbeddingsDefine
        <5>2. d # x
          BY <4>1, <4>6 DEF FindsAt
        <5> HIDE DEF d
        <5>3. d \in loaded
          BY <1>2, <5>2 DEF d
        <5> QED BY <1>1, <5>1, <5>3 DEF TypeOK
      <4>9. own'[d] = own[d] /\ own[d] # None
        <5>1. own'[d] # None
          BY <4>6 DEF FindsAt
        <5> HIDE DEF d
        <5> QED BY <1>2, <4>8, <5>1
      <4> HIDE DEF d
      <4>10. Lookup(d) = own[d]
        BY <4>8, <4>9, LookupLoadedOwn
      <4> QED BY <2>1, <3>1, <4>6, <4>8, <4>9, <4>10 DEF Covered, d
    <3> QED BY <3>3, <3>4
  <2> QED BY <1>2, <2>1, <2>2, <2>3 DEF Covered
<1>6. ASSUME NEW k \in 1..Len(blocks), Holds(k, Hook) PROVE HoldsIn(blocks', k, BaseChatModel)
  BY <1>1, <1>2, <1>3, <1>6 DEF Seam
<1> QED BY <1>3, <1>4, <1>5, <1>6 DEF Seam, Holds


\* The blocks around the one that is left cover what they did.
LEMMA SeamUndoes ==
    ASSUME EmbeddingsDefine, SeamInv, RestoreClass \/ RestoreHook
    PROVE  Walk' /\ Seam'
<1>1. TypeOK /\ Attributes /\ Entering /\ Walk /\ Seam /\ PatchInv
  BY DEF SeamInv, PatchInv
<1> DEFINE n == Len(blocks)
           x == Undone.target
<1>2. /\ n \in Nat /\ Len(blocks') = n /\ FitsIn(own, loaded, n, Undone)
      /\ \A k \in 1..n : \A target :
            HoldsIn(blocks', k, target) <=> Holds(k, target) /\ ~(k = n /\ target = x)
      /\ x \in Classes \cup {Hook}
  BY <1>1, UndoFacts
<1>3. leaving # "no" /\ leaving' = leaving /\ todo = <<>> /\ todo' = <<>> /\ loaded' = loaded
  BY <1>1 DEF RestoreClass, RestoreHook, Undoing, Entering
<1>4. \/ own' = own
      \/ /\ x \in Classes /\ own[x] # None /\ own[x].by = <<n>> /\ own'[x] # None
         /\ \A d \in Classes : d # x => own'[d] = own[d]
  <2>1. CASE RestoreHook
    BY <2>1 DEF RestoreHook
  <2>2. CASE RestoreClass
    <3>1. x # Hook /\ own' = [own EXCEPT ![x] = Undone.original]
      BY <2>2 DEF RestoreClass
    <3>2. x \in Classes /\ own[x] # None /\ own[x].by = <<n>> /\ Undone.original # None
      BY <1>1, <1>2, <3>1 DEF FitsIn, TypeOK
    <3> HIDE DEF x
    <3> QED BY <1>1, <3>1, <3>2 DEF TypeOK
  <2> QED BY <2>1, <2>2
<1> HIDE DEF n, x
<1>5. ASSUME NEW k \in 1..n, k # n, Covered(k) PROVE Covered(k)'
  <2>1. ASSUME NEW c \in loaded \cap Under(Embeddings) PROVE Lookup(c)' = Lookup(c)
    <3>1. CASE own' = own
      BY <3>1 DEF Lookup
    <3>2. CASE /\ x \in Classes /\ own[x] # None /\ own[x].by = <<n>> /\ own'[x] # None
               /\ \A d \in Classes : d # x => own'[d] = own[d]
      <4>1. c \in Classes
        BY <1>1, <2>1 DEF TypeOK
      <4>2. PICK i \in DOMAIN Mro[c] :
               /\ FindsAt(own, c, i) /\ Lookup(c) = own[Mro[c][i]]
               /\ \A j \in 1..i : j \in DOMAIN Mro[c] /\ Mro[c][j] \in loaded \cap Under(Embeddings)
        BY <1>1, <2>1, LookupUnder
      <4>3. ASSUME Mro[c][i] = x PROVE FALSE
        <5>1. PICK m \in 1..k : Lookup(c).by = <<m>>
          BY <1>5, <2>1 DEF Covered
        <5>2. m = n
          BY <3>2, <4>2, <4>3, <5>1, OnceFacts
        <5> QED BY <1>2, <1>5, <5>1, <5>2
      <4>4. /\ i \in DOMAIN Mro[c] /\ DOMAIN Mro[c] = 1..Len(Mro[c]) /\ Len(Mro[c]) \in Nat
            /\ \A j \in 1..i : Mro[c][j] # x
        <5>1. DOMAIN Mro[c] = 1..Len(Mro[c]) /\ Len(Mro[c]) \in Nat
          BY <4>1, MroFacts
        <5>2. ASSUME NEW j \in 1..i PROVE Mro[c][j] # x
          <6>1. j = i \/ (j < i /\ j \in DOMAIN Mro[c])
            BY <5>1
          <6> QED BY <3>2, <4>2, <4>3, <6>1 DEF FindsAt
        <5> QED BY <5>1, <5>2
      <4>5. \A j \in 1..i : own'[Mro[c][j]] = own[Mro[c][j]]
        BY <1>1, <3>2, <4>2, <4>4 DEF TypeOK
      <4> QED BY <4>1, <4>2, <4>5, LookupKept
    <3> QED BY <1>4, <3>1, <3>2
  <2> QED BY <1>3, <1>5, <2>1 DEF Covered
<1>6. ASSUME NEW k \in 1..n, k # n, HoldsIn(blocks', k, Hook)
      PROVE  Covered(k)' /\ HoldsIn(blocks', k, BaseChatModel)
  <2>1. Holds(k, Hook)
    BY <1>2, <1>6
  <2>2. Covered(k) /\ Holds(k, BaseChatModel)
    BY <1>1, <1>6, <2>1 DEF Seam, n
  <2> QED BY <1>2, <1>5, <1>6, <2>2
<1>7. Walk'
  BY <1>3 DEF Walk
<1> QED BY <1>2, <1>3, <1>6, <1>7 DEF Seam, Holds, TestRuns

\* A block that has been left, is refused, or is about to be left, says nothing
\* of what it covers; those around it cover what they did.
LEMMA SeamEnds ==
    ASSUME SeamInv, Left \/ Refuse \/ Leave \/ UNCHANGED vars
    PROVE  Walk' /\ Seam'
<1>1. TypeOK /\ Entering /\ Walk /\ Seam
  BY DEF SeamInv, PatchInv
<1>2. /\ own' = own /\ loaded' = loaded
      /\ \A c : Lookup(c)' = Lookup(c)
  BY DEF Left, Refuse, Leave, vars, Lookup
<1>3. \A k : Covered(k) => Covered(k)'
  BY <1>2 DEF Covered
<1>4. CASE Left
  <2>1. Shrinks
    BY <1>1, <1>4, LeftShrinks
  <2>2. /\ Len(blocks) \in Nat /\ Len(blocks') = Len(blocks) - 1
        /\ \A k \in 1..(Len(blocks) - 1) : k \in 1..Len(blocks) /\ k # Len(blocks) /\ blocks'[k] = blocks[k]
    BY <2>1 DEF Shrinks
  <2>3. todo' = <<>>
    BY <1>1, <1>4 DEF Left, Entering
  <2>4. ASSUME NEW k \in 1..Len(blocks'), HoldsIn(blocks', k, Hook)
        PROVE  Covered(k)' /\ HoldsIn(blocks', k, BaseChatModel)
    <3>1. blocks'[k] = blocks[k] /\ k \in 1..Len(blocks) /\ k # Len(blocks)
      BY <2>2
    <3>2. Holds(k, Hook)
      BY <2>4, <3>1 DEF Holds, HoldsIn
    <3>3. Covered(k) /\ Holds(k, BaseChatModel)
      BY <1>1, <3>1, <3>2 DEF Seam
    <3> QED BY <1>3, <3>1, <3>3 DEF Holds, HoldsIn
  <2>5. Walk'
    BY <2>3 DEF Walk
  <2> QED BY <2>4, <2>5 DEF Seam, Holds
<1>5. CASE Refuse \/ Leave
  <2>1. blocks' = blocks /\ todo' = <<>> /\ leaving' # "no"
    BY <1>5 DEF Refuse, Leave, TestRuns
  <2>2. ASSUME NEW k \in 1..Len(blocks), k # Len(blocks), Holds(k, Hook)
        PROVE  Covered(k)' /\ Holds(k, BaseChatModel)
    BY <1>1, <1>3, <2>2 DEF Seam
  <2>3. Walk'
    BY <2>1 DEF Walk
  <2> QED BY <2>1, <2>2, <2>3 DEF Seam, Holds, TestRuns
<1>6. CASE UNCHANGED vars
  <2>1. blocks' = blocks /\ todo' = todo /\ leaving' = leaving
    BY <1>6 DEF vars
  <2>2. Walk'
    BY <1>1, <1>2, <2>1 DEF Walk, Holds
  <2> QED BY <1>1, <1>3, <2>1, <2>2 DEF Seam, Holds, TestRuns
<1> QED BY <1>4, <1>5, <1>6

\* While a LangChain block is open every embeddings class that exists is
\* intercepted by an open block, where those classes have the method from one
\* another (src/llmtivo/langchain.py, patched_langchain: the walk over the
\* subclasses and the hook on the creation of others).
THEOREM EmbeddingsAreSeen ==
    ASSUME EmbeddingsDefine
    PROVE  Spec => []EmbeddingsIntercepted
<1>1. Init => SeamInv
  <2> SUFFICES ASSUME Init PROVE SeamInv
    OBVIOUS
  <2>1. PatchInv /\ blocks = <<>> /\ todo = <<>>
    BY PatchInit DEF Init
  <2>2. Len(blocks) = 0
    BY <2>1
  <2>3. Walk /\ Seam
    BY <2>1, <2>2 DEF Walk, Seam
  <2> QED BY <2>1, <2>3 DEF SeamInv
<1>2. SeamInv /\ [Next]_vars => SeamInv'
  <2> SUFFICES ASSUME SeamInv, [Next]_vars PROVE SeamInv'
    OBVIOUS
  <2>1. PatchInv' /\ TypeOK
    BY PatchSteps DEF SeamInv, PatchInv
  <2>2. ASSUME \/ \E c \in Classes : EnterPatched(c)
               \/ \E c, d \in Classes : EnterPatchedAll(c, d)
               \/ EnterLangchain \/ EnterLitellm
        PROVE  Walk' /\ Seam'
    BY <2>1, <2>2, EntersWalk, SeamBegins
  <2>3. ASSUME NEW c \in Classes, LoadClass(c) \/ InterceptNew(c) PROVE Walk' /\ Seam'
    BY <2>3, SeamLoads
  <2>4. CASE Install
    BY <2>1, <2>4, SeamInstalls DEF SeamInv
  <2>5. CASE SetHook
    BY <2>1, <2>5, SeamSetsHook DEF SeamInv
  <2>6. CASE RestoreClass \/ RestoreHook
    BY <2>1, <2>6, SeamUndoes DEF SeamInv
  <2>7. CASE Left \/ Refuse \/ Leave \/ UNCHANGED vars
    BY <2>1, <2>7, SeamEnds DEF SeamInv
  <2> QED BY <2>1, <2>2, <2>3, <2>4, <2>5, <2>6, <2>7 DEF Next, SeamInv
<1>3. SeamInv => EmbeddingsIntercepted
  <2> SUFFICES ASSUME SeamInv, TestRuns, hook # 0, NEW c \in loaded \cap Under(Embeddings)
               PROVE  \E b \in 1..Len(blocks) : Lookup(c).by = <<b>>
    BY DEF EmbeddingsIntercepted
  <2>1. TypeOK /\ Hooks /\ Seam
    BY DEF SeamInv, PatchInv
  <2>2. hook \in 1..Len(blocks) /\ Len(blocks) \in Nat /\ Holds(hook, Hook)
    BY <2>1 DEF TypeOK, Hooks
  <2>3. Covered(hook)
    BY <2>1, <2>2 DEF Seam, TestRuns
  <2>4. \A k \in 1..hook : k \in 1..Len(blocks)
    BY <2>2
  <2> QED BY <2>3, <2>4 DEF Covered
<1> QED BY <1>1, <1>2, <1>3, PTL DEF Spec

=============================================================================
