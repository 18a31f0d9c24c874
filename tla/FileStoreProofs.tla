-------------------------- MODULE FileStoreProofs --------------------------
(* Theorems about FileStore, for any lines and bounds. *)
EXTENDS FileStore, PositionsProofs

-----------------------------------------------------------------------------
(* The front of a file, before the first of some positions *)

LEMMA BeforeNone ==
    ASSUME NEW f
    PROVE  Before(f, {}) = f
BY DEF Before

\* The front of a file holds what the file holds there.
LEMMA BeforeFirst ==
    ASSUME NEW f \in Content, NEW stops \in SUBSET (DOMAIN f), stops # {}
    PROVE  /\ First(stops) \in stops /\ First(stops) \in 1..Len(f)
           /\ \A j \in stops : First(stops) <= j
           /\ Before(f, stops) \in Content
           /\ Len(Before(f, stops)) = First(stops) - 1
           /\ \A i \in 1..(First(stops) - 1) : Before(f, stops)[i] = f[i]
<1> DEFINE n == First(stops)
<1>1. stops \in SUBSET Nat /\ DOMAIN f = 1..Len(f) /\ Len(f) \in Nat
  BY DEF Content
<1>2. n \in stops /\ \A j \in stops : n <= j
  BY <1>1, FirstIsLeast
<1>3. n \in 1..Len(f) /\ Before(f, stops) = SubSeq(f, 1, n - 1)
  BY <1>1, <1>2 DEF Before
<1> HIDE DEF n
<1>4. n - 1 \in 0..Len(f) /\ \A i \in 1..(n - 1) : f[i] \in Lines \cup {Piece, Torn}
  BY <1>1, <1>3 DEF Content
<1>5. /\ SubSeq(f, 1, n - 1) \in Content
      /\ Len(SubSeq(f, 1, n - 1)) = n - 1
      /\ \A i \in 1..(n - 1) : SubSeq(f, 1, n - 1)[i] = f[i]
  BY <1>4 DEF Content
<1> QED BY <1>2, <1>3, <1>5 DEF n

\* The least position is unique.
LEMMA FirstIs ==
    ASSUME NEW positions \in SUBSET Nat, NEW n \in positions,
           \A j \in positions : n <= j
    PROVE  First(positions) = n
<1>1. First(positions) \in positions /\ \A j \in positions : First(positions) <= j
  BY FirstIsLeast
<1>2. First(positions) \in Nat /\ n \in Nat /\ First(positions) <= n /\ n <= First(positions)
  BY <1>1
<1> HIDE DEF First
<1> QED BY <1>2

Extends(g, f) == Len(f) <= Len(g) /\ \A i \in 1..Len(f) : g[i] = f[i]

AddsBehind(f, stops, more) ==
    stops \subseteq more /\ \A j \in more : j \in stops \/ j > Len(f)

\* What is appended behind a stop does not change the front.
LEMMA BeforeExtended ==
    ASSUME NEW f \in Content, NEW g \in Content, Extends(g, f),
           NEW stops \in SUBSET (DOMAIN f), NEW more \in SUBSET (DOMAIN g),
           stops # {}, AddsBehind(f, stops, more)
    PROVE  Before(g, more) = Before(f, stops)
<1> DEFINE n == First(stops)
<1>1. n \in stops /\ n \in 1..Len(f) /\ \A j \in stops : n <= j
  BY BeforeFirst
<1>2. Len(f) \in Nat /\ Len(g) \in Nat /\ DOMAIN g = 1..Len(g) /\ DOMAIN f = 1..Len(f)
  BY DEF Content
<1>3. First(more) = n
  <2> HIDE DEF n
  <2>1. more \in SUBSET Nat /\ n \in more
    BY <1>1, <1>2 DEF AddsBehind
  <2>2. \A j \in more : n <= j
    BY <1>1, <1>2 DEF AddsBehind
  <2> QED BY <2>1, <2>2, FirstIs
<1>4. Before(g, more) = SubSeq(g, 1, n - 1) /\ Before(f, stops) = SubSeq(f, 1, n - 1)
  <2>1. more # {}
    BY <1>1 DEF AddsBehind
  <2> QED BY <1>3, <2>1 DEF Before
<1>5. SubSeq(g, 1, n - 1) = SubSeq(f, 1, n - 1)
  <2> HIDE DEF n
  <2>1. \A i \in 1..(n - 1) : g[i] = f[i]
    BY <1>1, <1>2 DEF Extends
  <2>2. n - 1 \in 0..Len(f) /\ n - 1 \in 0..Len(g)
    BY <1>1, <1>2 DEF Extends
  <2> QED BY <2>1, <2>2 DEF Content
<1> QED BY <1>4, <1>5

-----------------------------------------------------------------------------
(* What reading finds in a file *)

\* A file of lines is sound and holds what it holds.
LEMMA WholeFile ==
    ASSUME NEW f \in Content, StopsAt(f) = {}
    PROVE  /\ f \in Seq(Lines) /\ TornAt(f) = {}
           /\ \A jam : ConditionOf(f, jam) = "sound"
           /\ LinesOf(f) = f /\ ReadLines(f) = f
<1>1. f # Absent
  BY ContentAssumption
<1>2. \A i \in 1..Len(f) : f[i] \in Lines
  BY DEF Content, StopsAt
<1>3. f \in Seq(Lines)
  BY <1>2 DEF Content
<1>4. TornAt(f) = {}
  BY <1>2, ContentAssumption DEF TornAt, Content
<1> QED BY <1>1, <1>3, <1>4, BeforeNone DEF ConditionOf, LinesOf, ReadLines

\* Lines alone, appended whole or compacted, make a file without a stop.
LEMMA LinesAreWhole ==
    ASSUME NEW s \in Seq(Lines)
    PROVE  s \in Content /\ StopsAt(s) = {}
BY ContentAssumption DEF Content, StopsAt

\* Torn frames are stops, and the front of a file is lines.
LEMMA Stops ==
    ASSUME NEW f \in Content
    PROVE  /\ TornAt(f) \subseteq StopsAt(f) /\ StopsAt(f) \subseteq DOMAIN f
           /\ DOMAIN f = 1..Len(f) /\ Len(f) \in Nat
           /\ LinesOf(f) = Before(f, StopsAt(f)) /\ LinesOf(f) \in Seq(Lines)
           /\ ReadLines(f) = Before(f, TornAt(f)) /\ ReadLines(f) \in Decoded
<1>1. /\ TornAt(f) \subseteq StopsAt(f) /\ StopsAt(f) \subseteq DOMAIN f
      /\ DOMAIN f = 1..Len(f) /\ Len(f) \in Nat
  BY ContentAssumption DEF TornAt, StopsAt, Content
<1>2. LinesOf(f) = Before(f, StopsAt(f)) /\ ReadLines(f) = Before(f, TornAt(f))
  BY ContentAssumption DEF LinesOf, ReadLines
<1>3. LinesOf(f) \in Seq(Lines)
  <2>1. CASE StopsAt(f) = {}
    BY <2>1, WholeFile
  <2>2. CASE StopsAt(f) # {}
    <3> DEFINE n == First(StopsAt(f))
               s == Before(f, StopsAt(f))
    <3>1. /\ n \in 1..Len(f) /\ s \in Content /\ Len(s) = n - 1
          /\ \A j \in StopsAt(f) : n <= j
          /\ \A i \in 1..(n - 1) : s[i] = f[i]
      BY <1>1, <2>2, BeforeFirst
    <3> HIDE DEF n, s
    <3>2. \A i \in 1..(n - 1) : f[i] \in Lines
      BY <1>1, <3>1 DEF StopsAt, Content
    <3>3. \A i \in 1..Len(s) : s[i] \in Lines
      BY <3>1, <3>2
    <3>4. s \in Seq(Lines)
      BY <3>1, <3>3 DEF Content
    <3> QED BY <1>2, <3>4 DEF s
  <2> QED BY <2>1, <2>2
<1>4. ReadLines(f) \in Decoded
  <2>1. CASE TornAt(f) = {}
    <3>1. \A i \in 1..Len(f) : f[i] \in Lines \cup {Piece}
      BY <2>1 DEF TornAt, Content
    <3> QED BY <1>2, <2>1, <3>1, BeforeNone DEF Content, Decoded
  <2>2. CASE TornAt(f) # {}
    <3> DEFINE n == First(TornAt(f))
               s == Before(f, TornAt(f))
    <3>1. /\ n \in 1..Len(f) /\ s \in Content /\ Len(s) = n - 1
          /\ \A j \in TornAt(f) : n <= j
          /\ \A i \in 1..(n - 1) : s[i] = f[i]
      BY <1>1, <2>2, BeforeFirst
    <3> HIDE DEF n, s
    <3>2. \A i \in 1..(n - 1) : f[i] \in Lines \cup {Piece}
      BY <1>1, <3>1 DEF TornAt, Content
    <3>3. \A i \in 1..Len(s) : s[i] \in Lines \cup {Piece}
      BY <3>1, <3>2
    <3>4. s \in Decoded
      BY <3>1, <3>3 DEF Content, Decoded
    <3> QED BY <1>2, <3>4 DEF s
  <2> QED BY <2>1, <2>2
<1> QED BY <1>1, <1>2, <1>3, <1>4

\* Reading any file yields lines, and perhaps a piece.
LEMMA LinesTyped ==
    ASSUME NEW f \in Content \cup {Absent}
    PROVE  LinesOf(f) \in Seq(Lines) /\ ReadLines(f) \in Decoded
<1>1. CASE f = Absent
  BY <1>1 DEF LinesOf, ReadLines, Decoded
<1>2. CASE f \in Content
  BY <1>2, Stops
<1> QED BY <1>1, <1>2

\* The lines of a file are not the sign for a file that does not exist.
LEMMA LinesPresent == \A s \in Seq(Lines) : s # Absent
BY LinesAreWhole, ContentAssumption

\* What a readable tape returns are the lines at its front.
LEMMA ReadableIsLines ==
    ASSUME NEW f \in Content \cup {Absent}, NEW jam \in BOOLEAN,
           ConditionOf(f, jam) # "damaged"
    PROVE  ReadLines(f) = LinesOf(f)
<1>1. CASE f = Absent
  BY <1>1 DEF ReadLines, LinesOf
<1>2. CASE f \in Content /\ StopsAt(f) = {}
  BY <1>2, WholeFile
<1>3. CASE f \in Content /\ StopsAt(f) # {}
  BY <1>3, ContentAssumption DEF ConditionOf
<1> QED BY <1>1, <1>2, <1>3

\* A file with a stop in it is not sound.
LEMMA StoppedIsNotSound ==
    ASSUME NEW f \in Content, NEW jam \in BOOLEAN, StopsAt(f) # {}
    PROVE  /\ ConditionOf(f, jam) \in {"cut", "short", "damaged"}
           /\ ConditionOf(f, jam) \in {"cut", "short"} => TornAt(f) # {} /\ ~ jam
<1>1. ConditionOf(f, jam) \in {"cut", "short", "damaged"}
  BY ContentAssumption DEF ConditionOf
<1>2. ASSUME ConditionOf(f, jam) \in {"cut", "short"} PROVE TornAt(f) # {} /\ ~ jam
  <2>1. ~ jam /\ ReadLines(f) = LinesOf(f)
    BY <1>2, ContentAssumption DEF ConditionOf
  <2>2. ASSUME TornAt(f) = {} PROVE FALSE
    <3>1. LinesOf(f) = f
      BY <2>1, <2>2, Stops, BeforeNone
    <3>2. StopsAt(f) = {}
      BY <3>1, Stops, LinesAreWhole
    <3> QED BY <3>2
  <2> QED BY <2>1, <2>2
<1> QED BY <1>1, <1>2

\* Whatever is appended to a file with a stop in it changes no line at its
\* front; if the file is torn, nothing it returns, and it is not mended.
LEMMA AppendToStopped ==
    ASSUME NEW f \in Content, StopsAt(f) # {},
           NEW more \in Content, NEW g, g = f \o more,
           NEW jam \in BOOLEAN, NEW jam2 \in BOOLEAN, jam => jam2
    PROVE  /\ g \in Content /\ StopsAt(g) # {}
           /\ LinesOf(g) = LinesOf(f)
           /\ TornAt(f) # {} => ReadLines(g) = ReadLines(f) /\ TornAt(g) # {}
           /\ more # <<>> /\ TornAt(f) # {} =>
                  ConditionOf(g, jam2) \in {"short", "damaged"}
<1>1. /\ g \in Content /\ Len(g) = Len(f) + Len(more) /\ Extends(g, f)
  BY DEF Content, Extends
<1>2. /\ AddsBehind(f, StopsAt(f), StopsAt(g))
      /\ AddsBehind(f, TornAt(f), TornAt(g))
      /\ StopsAt(f) \subseteq StopsAt(g) /\ TornAt(f) \subseteq TornAt(g)
  BY <1>1 DEF StopsAt, TornAt, Content, Extends, AddsBehind
<1>3. StopsAt(f) \in SUBSET (DOMAIN f) /\ StopsAt(g) \in SUBSET (DOMAIN g)
      /\ TornAt(f) \in SUBSET (DOMAIN f) /\ TornAt(g) \in SUBSET (DOMAIN g)
  BY DEF StopsAt, TornAt
<1>4. StopsAt(g) # {} /\ LinesOf(g) = LinesOf(f)
  <2>1. Before(g, StopsAt(g)) = Before(f, StopsAt(f))
    BY <1>1, <1>2, <1>3, BeforeExtended
  <2> QED BY <1>1, <1>2, <2>1, Stops
<1>5. ASSUME TornAt(f) # {}
      PROVE  ReadLines(g) = ReadLines(f) /\ TornAt(g) # {}
  <2>1. Before(g, TornAt(g)) = Before(f, TornAt(f))
    BY <1>1, <1>2, <1>3, <1>5, BeforeExtended
  <2> QED BY <1>1, <1>2, <1>5, <2>1, Stops
<1>6. ASSUME more # <<>>, TornAt(f) # {}
      PROVE  ConditionOf(g, jam2) \in {"short", "damaged"}
  <2>1. Len(more) > 0 /\ Len(more) \in Nat /\ Len(f) \in Nat
    BY <1>6 DEF Content
  <2>2. PICK i \in TornAt(f) : TRUE
    BY <1>6
  <2>3. i \in TornAt(g) /\ i # Len(g)
    BY <1>1, <1>2, <2>1, <2>2 DEF TornAt, Content
  <2>4. TornAt(g) # {Len(g)}
    BY <2>3
  <2> QED BY <1>1, <1>4, <2>4, ContentAssumption DEF ConditionOf
<1> QED BY <1>1, <1>4, <1>5, <1>6

\* A frame torn behind lines leaves every line readable, or a piece with them.
LEMMA TearWhole ==
    ASSUME NEW f \in Content, StopsAt(f) = {},
           NEW part \in {<<Torn>>, <<Piece, Torn>>}, NEW g, g = f \o part
    PROVE  /\ g \in Content /\ LinesOf(g) = f
           /\ ConditionOf(g, FALSE) \in {"cut", "damaged"}
<1>1. /\ Len(f) \in Nat /\ Len(part) \in 1..2 /\ part \in Content
      /\ part[1] \notin Lines
      /\ part[Len(part)] = Torn /\ \A i \in 1..(Len(part) - 1) : part[i] = Piece
  <2>1. CASE part = <<Torn>>
    BY <2>1, ContentAssumption DEF Content
  <2>2. CASE part = <<Piece, Torn>>
    BY <2>2, ContentAssumption DEF Content
  <2> QED BY <2>1, <2>2
<1>2. /\ g \in Content /\ Len(g) = Len(f) + Len(part)
      /\ \A i \in 1..Len(f) : g[i] = f[i]
      /\ g[Len(f) + 1] \notin Lines
      /\ g[Len(g)] = Torn
      /\ \A i \in (Len(f) + 1)..(Len(g) - 1) : g[i] = Piece
  BY <1>1 DEF Content
<1>3. \A i \in 1..Len(f) : g[i] \in Lines
  BY <1>2 DEF StopsAt, Content
<1>4. First(StopsAt(g)) = Len(f) + 1
  <2>1. StopsAt(g) \in SUBSET Nat /\ Len(f) + 1 \in StopsAt(g)
    BY <1>1, <1>2 DEF StopsAt, Content
  <2>2. \A j \in StopsAt(g) : Len(f) + 1 <= j
    BY <1>1, <1>2, <1>3 DEF StopsAt, Content
  <2> QED BY <2>1, <2>2, FirstIs
<1>5. StopsAt(g) # {}
  <2>1. Len(f) + 1 \in DOMAIN g
    BY <1>1, <1>2 DEF Content
  <2> QED BY <1>2, <2>1 DEF StopsAt
<1>6. TornAt(g) = {Len(g)}
  <2>1. Len(g) \in DOMAIN g /\ DOMAIN g = 1..Len(g) /\ Len(g) \in Nat
    BY <1>1, <1>2 DEF Content
  <2>2. ASSUME NEW j \in TornAt(g) PROVE j = Len(g)
    <3>1. j \in 1..Len(g) /\ g[j] = Torn
      BY <2>1 DEF TornAt
    <3>2. j \notin 1..Len(f) /\ j \notin (Len(f) + 1)..(Len(g) - 1)
      BY <1>2, <1>3, <3>1, ContentAssumption
    <3>3. Len(g) = Len(f) + Len(part) /\ Len(f) \in Nat /\ j \in Nat
      BY <1>1, <1>2, <3>1
    <3> QED BY <1>1, <2>1, <3>1, <3>2, <3>3
  <2>3. Len(g) \in TornAt(g)
    BY <1>2, <2>1 DEF TornAt
  <2> QED BY <2>2, <2>3
<1>7. LinesOf(g) = f
  <2>1. LinesOf(g) = SubSeq(g, 1, (Len(f) + 1) - 1)
    BY <1>2, <1>4, <1>5, Stops DEF Before
  <2>2. SubSeq(g, 1, (Len(f) + 1) - 1) = f
    BY <1>1, <1>2 DEF Content
  <2> QED BY <2>1, <2>2
<1>8. ConditionOf(g, FALSE) \in {"cut", "damaged"}
  BY <1>2, <1>5, <1>6, ContentAssumption DEF ConditionOf
<1> QED BY <1>2, <1>7, <1>8

-----------------------------------------------------------------------------
(* The inductive invariant: the lines at the front are the ones given; only a *)
(* torn file jams the decoder; an operation under way has a file to work on,  *)
(* and a compaction has read what the file returns.                           *)

Front == LinesOf(file) = given

Jams == jammed => file # Absent /\ TornAt(file) # {}

JobFits ==
    /\ job.step \in {"opened", "written"} =>
           file # Absent /\ job.lines \in Seq(Lines) /\ Len(job.lines) = 1
    /\ job.step \in {"gathered", "staged"} =>
           file # Absent /\ ~ jammed /\ job.lines = ReadLines(file)
    /\ job.step = "staged" => tmp = job.lines

Inv == TypeOK /\ Front /\ Jams /\ JobFits

\* No job is a job.
LEMMA Idle ==
    /\ NoJob \in [step : Steps, lines : Decoded] /\ NoJob.step = "idle"
    /\ <<>> \in Seq(Lines)
BY DEF NoJob, Steps, Decoded

\* The initial state satisfies the inductive invariant.
LEMMA InvInit == Init => Inv
<1> SUFFICES ASSUME Init PROVE Inv
  OBVIOUS
<1>1. TypeOK /\ JobFits
  BY Idle DEF Init, TypeOK, JobFits
<1>2. Front /\ Jams
  BY DEF Init, Front, Jams, LinesOf
<1> QED BY <1>1, <1>2 DEF Inv

\* Opening the file for an append changes nothing of what it holds.
LEMMA OpenKeepsLines ==
    ASSUME Inv, NEW line \in Lines, AppendOpen(line)
    PROVE  /\ file' \in Content
           /\ LinesOf(file') = LinesOf(file)
           /\ Condition' = Condition
           /\ Jams'
<1>1. CASE file = Absent
  <2>1. file' = <<>> /\ StopsAt(<<>>) = {} /\ <<>> \in Content
    BY <1>1 DEF AppendOpen, StopsAt, Content
  <2>2. Condition' = "sound" /\ LinesOf(file') = <<>>
    BY <2>1, WholeFile DEF Condition
  <2>3. Jams'
    BY <1>1 DEF AppendOpen, Inv, Jams
  <2> QED BY <1>1, <2>1, <2>2, <2>3 DEF Condition, ConditionOf, LinesOf
<1>2. CASE file # Absent
  BY <1>2 DEF AppendOpen, Inv, TypeOK, Condition, Jams
<1> QED BY <1>1, <1>2

\* However the file is lengthened, only a torn one can jam the decoder.
LEMMA LengthenedJams ==
    ASSUME TypeOK, Jams, file \in Content, NEW more \in Content, Lengthens(more)
    PROVE  /\ file' \in Content /\ file' # Absent /\ file' = file \o more
           /\ jammed' \in BOOLEAN /\ (jammed => jammed')
           /\ TornAt(file) = {} => jammed' = FALSE
           /\ Jams'
<1>1. file' = file \o more /\ file' \in Content
  BY DEF Lengthens, Content
<1>2. jammed' \in BOOLEAN /\ (jammed => jammed') /\ (TornAt(file) = {} => jammed' = FALSE)
  BY DEF Lengthens, TypeOK, Jams
<1>3. ASSUME NEW i \in TornAt(file) PROVE i \in TornAt(file')
  <2>1. i \in DOMAIN file /\ file[i] = Torn
    BY DEF TornAt
  <2>2. i \in DOMAIN (file \o more) /\ (file \o more)[i] = file[i]
    BY <2>1 DEF Content
  <2> QED BY <1>1, <2>1, <2>2 DEF TornAt
<1>4. Jams'
  BY <1>1, <1>2, <1>3, ContentAssumption DEF Jams
<1> QED BY <1>1, <1>2, <1>4, ContentAssumption

\* Once damaged, a file stays so whatever is appended.
LEMMA DamageStays ==
    ASSUME NEW f \in Content, NEW more \in Content, NEW g, g = f \o more,
           NEW jam \in BOOLEAN, NEW jam2 \in BOOLEAN, jam => jam2,
           ConditionOf(f, jam) = "damaged"
    PROVE  ConditionOf(g, jam2) = "damaged"
<1>1. StopsAt(f) # {} /\ (jam \/ ReadLines(f) # LinesOf(f))
  BY ContentAssumption DEF ConditionOf
<1>2. g \in Content /\ StopsAt(g) # {} /\ LinesOf(g) = LinesOf(f)
  BY <1>1, AppendToStopped
<1>3. ASSUME ~ jam PROVE ReadLines(g) # LinesOf(g)
  <2>1. CASE TornAt(f) # {}
    <3>1. ReadLines(g) = ReadLines(f)
      BY <1>1, <2>1, AppendToStopped
    <3> QED BY <1>1, <1>2, <1>3, <3>1
  <2>2. CASE TornAt(f) = {}
    <3>1. StopsAt(f) \in SUBSET (DOMAIN f)
      BY DEF StopsAt
    <3>2. Len(LinesOf(f)) = First(StopsAt(f)) - 1 /\ First(StopsAt(f)) \in 1..Len(f)
      BY <1>1, <3>1, BeforeFirst, Stops
    <3>3. Len(g) = Len(f) + Len(more) /\ \A i \in 1..Len(f) : g[i] = f[i]
          /\ Len(f) \in Nat /\ Len(more) \in Nat
      BY DEF Content
    <3>4. \A j \in TornAt(g) : j > Len(f)
      BY <2>2, <3>3, <1>2 DEF TornAt, Content
    <3>5. Len(ReadLines(g)) >= Len(f)
      <4>1. CASE TornAt(g) = {}
        <5>1. ReadLines(g) = g
          BY <1>2, <4>1, Stops, BeforeNone
        <5> QED BY <3>3, <5>1
      <4>2. CASE TornAt(g) # {}
        <5>1. TornAt(g) \in SUBSET (DOMAIN g)
          BY DEF TornAt
        <5>2. Len(ReadLines(g)) = First(TornAt(g)) - 1 /\ First(TornAt(g)) \in TornAt(g)
              /\ First(TornAt(g)) \in 1..Len(g)
          BY <1>2, <4>2, <5>1, BeforeFirst, Stops
        <5> HIDE DEF First
        <5> QED BY <1>2, <3>3, <3>4, <5>2
      <4> QED BY <4>1, <4>2
    <3>6. Len(LinesOf(f)) < Len(f) /\ Len(LinesOf(f)) \in Nat
      <4> HIDE DEF First
      <4> QED BY <3>2, <3>3
    <3>7. LinesOf(g) # ReadLines(g)
      <4>1. ASSUME LinesOf(g) = ReadLines(g) PROVE FALSE
        <5>1. Len(LinesOf(f)) >= Len(f)
          BY <1>2, <3>5, <4>1
        <5> QED BY <3>3, <3>6, <5>1
      <4> QED BY <4>1
    <3> QED BY <3>7
  <2> QED BY <2>1, <2>2
<1>4. jam2 \/ ReadLines(g) # LinesOf(g)
  BY <1>3
<1> QED BY <1>2, <1>4, ContentAssumption DEF ConditionOf

\* What a file returns, written as a file of its own, has the same lines in
\* front, and a piece in it stays a piece.
LEMMA Rewritten ==
    ASSUME NEW f \in Content, NEW s, s = ReadLines(f)
    PROVE  /\ s \in Content /\ LinesOf(s) = LinesOf(f)
           /\ ConditionOf(s, FALSE) =
                  IF ReadLines(f) = LinesOf(f) THEN "sound" ELSE "damaged"
<1>1. s \in Decoded
  BY Stops
<1>2. s \in Content /\ TornAt(s) = {}
  BY <1>1, ContentAssumption DEF Decoded, Content, TornAt
<1>3. ReadLines(s) = s
  BY <1>2, Stops, BeforeNone
<1>4. LinesOf(s) = LinesOf(f)
  <2>1. CASE TornAt(f) = {}
    BY <2>1, Stops, BeforeNone
  <2>2. CASE TornAt(f) # {}
    <3> DEFINE n == First(TornAt(f))
    <3>1. TornAt(f) \in SUBSET (DOMAIN f)
      BY DEF TornAt
    <3>2. /\ n \in TornAt(f) /\ n \in 1..Len(f) /\ Len(s) = n - 1
          /\ \A i \in 1..(n - 1) : s[i] = f[i]
      BY <2>2, <3>1, BeforeFirst, Stops
    <3> HIDE DEF n
    <3>a. /\ Len(s) \in Nat /\ Len(f) \in Nat /\ Len(s) <= Len(f)
          /\ DOMAIN f = 1..Len(f) /\ DOMAIN s = 1..Len(s)
          /\ \A i \in 1..Len(s) : f[i] = s[i]
      BY <1>2, <3>2, Stops
    <3>b. n \in StopsAt(f)
      BY <3>2, Stops
    <3>c. AddsBehind(s, StopsAt(s), StopsAt(f))
      BY <3>a DEF AddsBehind, StopsAt
    <3>3. /\ n \in StopsAt(f) /\ AddsBehind(s, StopsAt(s), StopsAt(f)) /\ Extends(f, s)
          /\ StopsAt(s) \in SUBSET (DOMAIN s) /\ StopsAt(f) \in SUBSET (DOMAIN f)
      BY <3>a, <3>b, <3>c DEF Extends, StopsAt
    <3>4. CASE StopsAt(s) # {}
      <4>1. Before(f, StopsAt(f)) = Before(s, StopsAt(s))
        BY <1>2, <3>2, <3>3, <3>4, BeforeExtended
      <4> QED BY <1>2, <4>1, Stops
    <3>5. CASE StopsAt(s) = {}
      <4>1. StopsAt(f) \in SUBSET Nat /\ \A j \in StopsAt(f) : n <= j
        BY <3>2, <3>a, <3>3, <3>5 DEF AddsBehind
      <4>2. First(StopsAt(f)) = n /\ First(TornAt(f)) = n
        BY <3>3, <4>1, FirstIs DEF n
      <4>3. Before(f, StopsAt(f)) = Before(f, TornAt(f))
        BY <2>2, <3>3, <4>2 DEF Before
      <4>4. LinesOf(s) = s
        BY <1>2, <3>5, WholeFile
      <4> QED BY <4>3, <4>4, Stops
    <3> QED BY <3>4, <3>5
  <2> QED BY <2>1, <2>2
<1>5. CASE StopsAt(s) = {}
  BY <1>2, <1>4, <1>5, WholeFile
<1>6. CASE StopsAt(s) # {}
  <2>1. LinesOf(s) # s
    <3>1. ASSUME LinesOf(s) = s PROVE FALSE
      BY <1>2, <1>6, <3>1, Stops, LinesAreWhole
    <3> QED BY <3>1
  <2>2. ConditionOf(s, FALSE) = "damaged"
    BY <1>2, <1>3, <1>6, <2>1, ContentAssumption DEF ConditionOf
  <2> QED BY <1>2, <1>4, <2>1, <2>2
<1> QED BY <1>5, <1>6

-----------------------------------------------------------------------------
(* What the steps do to the file *)

\* A line written to a sound file is read behind the others; written to
\* another, it is not read at all.
LEMMA WriteAppends ==
    ASSUME Inv, AppendWrite
    PROVE  /\ file' \in Content /\ file' # Absent /\ file # Absent
           /\ jammed' \in BOOLEAN /\ Jams'
           /\ \E line \in Lines : job.lines = <<line>>
           /\ Condition = "sound" =>
                  Condition' = "sound" /\ LinesOf(file') = LinesOf(file) \o job.lines
           /\ Condition # "sound" => LinesOf(file') = LinesOf(file)
           /\ Condition \in {"cut", "short"} => Condition' \in {"short", "damaged"}
           /\ Condition = "damaged" => Condition' = "damaged"
<1>1. /\ file \in Content /\ file # Absent /\ job.lines \in Seq(Lines)
      /\ Len(job.lines) = 1 /\ jammed \in BOOLEAN
  BY DEF Inv, TypeOK, JobFits, AppendWrite
<1>2. job.lines = <<job.lines[1]>> /\ job.lines[1] \in Lines /\ job.lines # <<>>
  BY <1>1
<1>3. job.lines \in Content
  BY <1>1, LinesAreWhole
<1>4. /\ file' \in Content /\ file' # Absent /\ file' = file \o job.lines
      /\ jammed' \in BOOLEAN /\ (jammed => jammed')
      /\ TornAt(file) = {} => jammed' = FALSE
      /\ Jams'
  BY <1>1, <1>3, LengthenedJams DEF AppendWrite, Inv
<1>5. CASE StopsAt(file) = {}
  <2>1. file \in Seq(Lines) /\ Condition = "sound" /\ LinesOf(file) = file
    BY <1>1, <1>5, WholeFile DEF Condition
  <2>2. file' \in Seq(Lines)
    BY <1>1, <1>4, <2>1
  <2>3. Condition' = "sound" /\ LinesOf(file') = file'
    BY <2>2, LinesAreWhole, WholeFile DEF Condition
  <2> QED BY <1>1, <1>2, <1>4, <2>1, <2>3
<1>6. CASE StopsAt(file) # {}
  <2>1. Condition \in {"cut", "short", "damaged"}
        /\ (Condition \in {"cut", "short"} => TornAt(file) # {})
    BY <1>1, <1>6, StoppedIsNotSound DEF Condition
  <2>2. LinesOf(file') = LinesOf(file)
        /\ (TornAt(file) # {} => Condition' \in {"short", "damaged"})
    BY <1>1, <1>2, <1>3, <1>4, <1>6, AppendToStopped DEF Condition
  <2>3. Condition = "damaged" => Condition' = "damaged"
    BY <1>1, <1>3, <1>4, DamageStays DEF Condition
  <2> QED BY <1>1, <1>2, <1>4, <2>1, <2>2, <2>3
<1> QED BY <1>5, <1>6

\* A torn append changes no line at the front.
LEMMA TearKeepsLines ==
    ASSUME Inv, AppendTears
    PROVE  /\ file' \in Content /\ file' # Absent /\ file # Absent
           /\ jammed' \in BOOLEAN /\ Jams'
           /\ LinesOf(file') = LinesOf(file)
           /\ Condition = "sound" => Condition' \in {"cut", "damaged"}
           /\ Condition \in {"cut", "short"} => Condition' \in {"short", "damaged"}
           /\ Condition = "damaged" => Condition' = "damaged"
<1>1. file \in Content /\ file # Absent /\ jammed \in BOOLEAN
  BY DEF Inv, TypeOK, JobFits, AppendTears
<1>2. PICK part \in {<<Torn>>, <<Piece, Torn>>} : Lengthens(part)
  BY DEF AppendTears
<1>3. part \in Content /\ part # <<>>
  <2>1. CASE part = <<Torn>>
    BY <2>1 DEF Content
  <2>2. CASE part = <<Piece, Torn>>
    BY <2>2 DEF Content
  <2> QED BY <1>2, <2>1, <2>2
<1>4. /\ file' \in Content /\ file' # Absent /\ file' = file \o part
      /\ jammed' \in BOOLEAN /\ (jammed => jammed')
      /\ TornAt(file) = {} => jammed' = FALSE
      /\ Jams'
  BY <1>1, <1>2, <1>3, LengthenedJams DEF Inv
<1>5. CASE StopsAt(file) = {}
  <2>1. TornAt(file) = {} /\ Condition = "sound" /\ LinesOf(file) = file
    BY <1>1, <1>5, WholeFile DEF Condition
  <2>2. LinesOf(file') = file /\ Condition' \in {"cut", "damaged"}
    BY <1>1, <1>2, <1>4, <1>5, <2>1, TearWhole DEF Condition
  <2> QED BY <1>1, <1>4, <2>1, <2>2
<1>6. CASE StopsAt(file) # {}
  <2>1. Condition \in {"cut", "short", "damaged"}
        /\ (Condition \in {"cut", "short"} => TornAt(file) # {})
    BY <1>1, <1>6, StoppedIsNotSound DEF Condition
  <2>2. LinesOf(file') = LinesOf(file)
        /\ (TornAt(file) # {} => Condition' \in {"short", "damaged"})
    BY <1>1, <1>3, <1>4, <1>6, AppendToStopped DEF Condition
  <2>3. Condition = "damaged" => Condition' = "damaged"
    BY <1>1, <1>3, <1>4, DamageStays DEF Condition
  <2> QED BY <1>1, <1>4, <2>1, <2>2, <2>3
<1> QED BY <1>5, <1>6

\* A compaction keeps the lines at the front; it mends, unless it rewrites a
\* piece as well.
LEMMA ReplaceKeepsLines ==
    ASSUME Inv, CompactReplace
    PROVE  /\ file' \in Content /\ file' # Absent /\ file # Absent
           /\ LinesOf(file') = LinesOf(file)
           /\ Condition # "damaged" => Condition' = "sound"
           /\ Condition = "damaged" => Condition' = "damaged"
<1>1. file' = ReadLines(file) /\ jammed' = FALSE /\ jammed = FALSE /\ file # Absent
      /\ file \in Content
  BY DEF Inv, TypeOK, JobFits, CompactReplace
<1>2. file' \in Content /\ LinesOf(file') = LinesOf(file)
      /\ Condition' = IF ReadLines(file) = LinesOf(file) THEN "sound" ELSE "damaged"
  BY <1>1, Rewritten DEF Condition
<1>3. Condition # "damaged" => ReadLines(file) = LinesOf(file)
  BY <1>1, ReadableIsLines DEF Condition
<1>4. Condition = "damaged" => ReadLines(file) # LinesOf(file)
  BY <1>1 DEF Condition, ConditionOf
<1> QED BY <1>1, <1>2, <1>3, <1>4, ContentAssumption

\* Every step preserves the inductive invariant.
LEMMA InvStep == Inv /\ [Next]_vars => Inv'
<1> SUFFICES ASSUME Inv, [Next]_vars PROVE Inv'
  OBVIOUS
<1> DEFINE all == TypeOK' /\ Front' /\ Jams' /\ JobFits'
<1>1. ASSUME NEW line \in Lines, AppendOpen(line) PROVE all
  <2>1. TypeOK'
    BY <1>1, OpenKeepsLines DEF AppendOpen, Inv, TypeOK, Steps, Decoded
  <2>2. JobFits'
    BY <1>1, OpenKeepsLines, ContentAssumption DEF AppendOpen, JobFits
  <2>3. Front' /\ Jams'
    BY <1>1, OpenKeepsLines DEF AppendOpen, Inv, Front
  <2> QED BY <2>1, <2>2, <2>3
<1>2. ASSUME AppendWrite PROVE all
  <2>1. /\ file' \in Content /\ file' # Absent /\ file # Absent
        /\ jammed' \in BOOLEAN /\ Jams'
        /\ \E line \in Lines : job.lines = <<line>>
        /\ Condition = "sound" =>
               Condition' = "sound" /\ LinesOf(file') = LinesOf(file) \o job.lines
        /\ Condition # "sound" => LinesOf(file') = LinesOf(file)
    BY <1>2, WriteAppends
  <2>2. given \o job.lines \in Seq(Lines)
    BY <2>1 DEF Inv, TypeOK
  <2>3. TypeOK'
    BY <1>2, <2>1, <2>2 DEF AppendWrite, Inv, TypeOK, Steps
  <2>4. JobFits'
    BY <1>2, <2>1 DEF AppendWrite, Inv, TypeOK, JobFits
  <2>5. Front'
    BY <1>2, <2>1 DEF AppendWrite, Inv, Front
  <2> QED BY <2>1, <2>3, <2>4, <2>5
<1>3. ASSUME AppendReturn PROVE all
  BY <1>3 DEF AppendReturn, Inv, TypeOK, Front, Jams, JobFits, NoJob, Steps, Decoded
<1>4. ASSUME AppendTears PROVE all
  <2>1. TypeOK'
    BY <1>4, TearKeepsLines, Idle DEF AppendTears, Fault, Inv, TypeOK
  <2>2. JobFits'
    BY <1>4 DEF AppendTears, JobFits, NoJob
  <2>3. Front' /\ Jams'
    BY <1>4, TearKeepsLines DEF AppendTears, Inv, Front
  <2> QED BY <2>1, <2>2, <2>3
<1>5. ASSUME Delete PROVE all
  <2>1. TypeOK' /\ JobFits'
    BY <1>5, Idle DEF Delete, Inv, TypeOK, JobFits
  <2>2. Front' /\ Jams'
    BY <1>5 DEF Delete, Front, Jams, LinesOf
  <2> QED BY <2>1, <2>2
<1>6. ASSUME CompactRead PROVE all
  <2>1. TypeOK'
    BY <1>6, LinesTyped DEF CompactRead, Inv, TypeOK, Steps
  <2>2. file # Absent
    BY <1>6 DEF CompactRead, ReadLines
  <2>3. JobFits' /\ Front' /\ Jams'
    BY <1>6, <2>2 DEF CompactRead, Inv, JobFits, Front, Jams
  <2> QED BY <2>1, <2>3
<1>7. ASSUME CompactStage PROVE all
  <2>1. TypeOK'
    BY <1>7 DEF CompactStage, Inv, TypeOK, Steps
  <2>2. JobFits' /\ Front' /\ Jams'
    BY <1>7 DEF CompactStage, Inv, TypeOK, JobFits, Front, Jams
  <2> QED BY <2>1, <2>2
<1>8. ASSUME CompactTears PROVE all
  <2>1. TypeOK'
    BY <1>8 DEF CompactTears, Fault, Inv, TypeOK, NoJob, Steps, Decoded
  <2>2. JobFits' /\ Front' /\ Jams'
    BY <1>8 DEF CompactTears, Inv, JobFits, Front, Jams, NoJob
  <2> QED BY <2>1, <2>2
<1>9. ASSUME CompactReplace PROVE all
  <2>1. TypeOK'
    BY <1>9, ReplaceKeepsLines, Idle DEF CompactReplace, Inv, TypeOK
  <2>2. JobFits' /\ Jams'
    BY <1>9 DEF CompactReplace, JobFits, Jams, NoJob
  <2>3. Front'
    BY <1>9, ReplaceKeepsLines DEF CompactReplace, Inv, Front
  <2> QED BY <2>1, <2>2, <2>3
<1>10. ASSUME Interrupt PROVE all
  BY <1>10 DEF Interrupt, Fault, Inv, TypeOK, Front, Jams, JobFits, NoJob, Steps, Decoded
<1>11. ASSUME UNCHANGED vars PROVE all
  BY <1>11 DEF vars, Inv, TypeOK, Front, Jams, JobFits
<1> HIDE DEF all
<1>12. all
  BY <1>1, <1>2, <1>3, <1>4, <1>5, <1>6, <1>7, <1>8, <1>9, <1>10, <1>11 DEF Next
<1> QED BY <1>12 DEF all, Inv

\* So it always holds.
LEMMA Invariance == Spec => []Inv
BY InvInit, InvStep, PTL DEF Spec

\* File, temporary file and the operation under way keep their types.
THEOREM TypeCorrectness == Spec => []TypeOK
<1>1. Inv => TypeOK
  BY DEF Inv
<1> QED BY <1>1, Invariance, PTL

\* What a readable tape returns are always exactly the lines written whole
\* ahead of any torn frame, in their order, whatever failed or died on the way
\* (append_line, read_lines, compact).
THEOREM WrittenLinesAreKept == Spec => []GivenIsKept
<1>1. Inv => GivenIsKept
  BY ReadableIsLines DEF Inv, TypeOK, Front, GivenIsKept, Readable, Condition
<1> QED BY <1>1, Invariance, PTL

-----------------------------------------------------------------------------
(* The file store keeps the contract of Tape *)

\* A new store is an absent tape.
LEMMA ContractInit == Init => Contract!Init
BY DEF Init, Contract!Init, Condition, ConditionOf

\* There are four conditions.
LEMMA Conditions == Condition \in {"sound", "cut", "short", "damaged"}
BY DEF Condition, ConditionOf

\* Every system call is one step of the contract, or a stutter.
LEMMA ContractStep == Inv /\ [Next]_vars => [Contract!Next]_(Contract!tapeState)
<1> SUFFICES ASSUME Inv, [Next]_vars PROVE [Contract!Next]_(Contract!tapeState)
  OBVIOUS
<1> DEFINE step == [Contract!Next]_(Contract!tapeState)
<1>0. LinesOf(file) \in Seq(Lines) /\ LinesOf(file) # Absent
  BY LinesTyped, LinesPresent DEF Inv, TypeOK
<1>1. ASSUME NEW line \in Lines, AppendOpen(line) PROVE step
  <2>1. CASE file = Absent
    <3>1. file' # Absent /\ LinesOf(file') = <<>> /\ Condition' = Condition
      BY <1>1, <2>1, OpenKeepsLines, ContentAssumption DEF LinesOf
    <3>2. Contract!Create
      BY <2>1, <3>1 DEF Contract!Create
    <3> QED BY <3>2 DEF Contract!Next
  <2>2. CASE file # Absent
    BY <1>1, <2>2 DEF AppendOpen, Contract!tapeState, Condition
  <2> QED BY <2>1, <2>2
<1>2. ASSUME AppendWrite PROVE step
  <2>1. PICK line \in Lines : job.lines = <<line>>
    BY <1>2, WriteAppends
  <2>2. file # Absent /\ file' # Absent
    BY <1>2, WriteAppends
  <2>3. CASE Condition = "sound"
    <3>1. Condition' = Condition /\ LinesOf(file') = LinesOf(file) \o <<line>>
      BY <1>2, <2>1, <2>3, WriteAppends
    <3>2. LinesOf(file') = Append(LinesOf(file), line)
      BY <1>0, <3>1
    <3>3. Contract!AppendLine(line)
      BY <1>0, <2>2, <2>3, <3>1, <3>2 DEF Contract!AppendLine
    <3> QED BY <3>3 DEF Contract!Next
  <2>4. CASE Condition \in {"cut", "short"}
    <3>1. Contract!Stray
      BY <1>2, <2>2, <2>4, WriteAppends DEF Contract!Stray
    <3> QED BY <3>1 DEF Contract!Next
  <2>5. CASE Condition = "damaged"
    BY <1>2, <2>2, <2>5, WriteAppends DEF Contract!tapeState
  <2> QED BY <2>3, <2>4, <2>5, Conditions
<1>3. ASSUME AppendTears PROVE step
  <2>1. file # Absent /\ file' # Absent
    BY <1>3, TearKeepsLines
  <2>2. CASE Condition = "sound"
    <3>1. Contract!CutShort
      BY <1>0, <1>3, <2>1, <2>2, TearKeepsLines DEF Contract!CutShort
    <3> QED BY <3>1 DEF Contract!Next
  <2>3. CASE Condition \in {"cut", "short"}
    <3>1. Contract!Stray
      BY <1>3, <2>1, <2>3, TearKeepsLines DEF Contract!Stray
    <3> QED BY <3>1 DEF Contract!Next
  <2>4. CASE Condition = "damaged"
    BY <1>3, <2>1, <2>4, TearKeepsLines DEF Contract!tapeState
  <2> QED BY <2>2, <2>3, <2>4, Conditions
<1>4. ASSUME Delete PROVE step
  <2>1. Contract!Remove
    BY <1>4 DEF Delete, Contract!Remove, Condition, ConditionOf
  <2> QED BY <2>1 DEF Contract!Next
<1>5. ASSUME CompactReplace PROVE step
  <2>1. file # Absent /\ file' # Absent /\ LinesOf(file') = LinesOf(file)
    BY <1>5, ReplaceKeepsLines
  <2>2. CASE Condition = "sound" \/ Condition = "damaged"
    BY <1>5, <2>1, <2>2, ReplaceKeepsLines DEF Contract!tapeState
  <2>3. CASE Condition \in {"cut", "short"}
    <3>1. Contract!Mend
      BY <1>5, <2>1, <2>3, ReplaceKeepsLines DEF Contract!Mend
    <3> QED BY <3>1 DEF Contract!Next
  <2> QED BY <2>2, <2>3, Conditions
<1>6. ASSUME AppendReturn \/ CompactRead \/ CompactStage \/ CompactTears \/ Interrupt
             \/ UNCHANGED vars
      PROVE  step
  <2>1. UNCHANGED <<file, jammed>>
    BY <1>6 DEF AppendReturn, CompactRead, CompactStage, CompactTears, Interrupt, vars
  <2> QED BY <2>1 DEF Contract!tapeState, Condition
<1> HIDE DEF step
<1>7. step
  BY <1>1, <1>2, <1>3, <1>4, <1>5, <1>6 DEF Next
<1> QED BY <1>7 DEF step

\* The file store implements the contract of Tape: crashes and failures inside
\* its system calls show as nothing but a cut, a short or a damaged tape.
THEOREM FileStoreKeepsContract == Spec => KeepsContract
BY Invariance, ContractInit, ContractStep, PTL DEF Spec, KeepsContract, Contract!Spec

=============================================================================
