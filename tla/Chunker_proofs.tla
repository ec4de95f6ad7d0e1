--------------------------- MODULE Chunker_proofs ---------------------------
(***************************************************************************)
(* Proofs about the parser and the chunker, for any note and any sizes:    *)
(* the chunks hold the whole note (TextIsKept), none is too long unless it *)
(* ends with a whole piece of fenced code (ChunksFit), whole sections are  *)
(* joined as long as they fit (NoNeedlessCut) and have the lines that the  *)
(* chunk says (WholeSectionsAreLocated), and fenced code that fits stays   *)
(* in one chunk unless prose stands directly above it                      *)
(* (SetApartCodeIsWhole).                                                  *)
(*                                                                         *)
(* Everything rests on one measure, the ink of a text: its characters      *)
(* without the line breaks.  Stripping, joining, packing and cutting add   *)
(* and remove line breaks only, so each of them gives the ink it got.      *)
(* All(g, s) puts together the texts that g gives for the elements of s;   *)
(* the text of a file, the lines of sections and the ink of chunks are all *)
(* of this form, and its lemmas are proved once.                           *)
(*                                                                         *)
(* The loops of the code are folds.  FoldLeft takes its value from a       *)
(* function chosen by its equations, so the proofs first show that there   *)
(* is one (FoldExists) and then follow its values round by round (UpTo):   *)
(* if every round adds the text of its element to a measure, the loop      *)
(* gives the text of the whole sequence (LoopGives).                       *)
(*                                                                         *)
(* The invariant says where the text of the file is: in the sections and   *)
(* the section being read (Parsed), in the chunks and what is pending,     *)
(* against the sections taken (Chunked), in the chunks (Finished).  A      *)
(* second one says which sections they are: sections are in order          *)
(* (Ordered), so that the first character of a chunk tells its section,    *)
(* and between two chunks of whole sections there was no room (Joins).     *)
(*                                                                         *)
(* A third one is about code.  The fence that is open at a line is the     *)
(* same for the parser, which walks the whole note, and for _split_blocks, *)
(* which walks one section, because the note is cut only where no fence is *)
(* open (Matched); so a piece of code of the note is a block of its        *)
(* section, possibly with prose above it (Shaped).  A block that fits is   *)
(* not split, and from then on it is a text with ink at both ends, which   *)
(* stripping, joining and collecting leave whole (Holds): it is in a chunk *)
(* or in what is pending as soon as its section has been taken (CodeKept). *)
(***************************************************************************)
EXTENDS Chunker, FiniteSetTheorems, SequenceTheorems, WellFoundedInduction,
        TLAPS

\* The concatenation of texts is associative.
LEMMA ConcatTexts ==
  ASSUME NEW u \in Seq(Nat), NEW v \in Seq(Nat), NEW w \in Seq(Nat)
  PROVE  u \o (v \o w) = (u \o v) \o w
<1>1. (u \o v) \o w = u \o (v \o w)
  BY ConcatAssociative
<1>2. QED
  BY <1>1

-----------------------------------------------------------------------------
(***************************************************************************)
(* Induction and recursion over the positions of a sequence.               *)
(***************************************************************************)
\* Induction up to n: what holds of 0 and, with each number, of the next one.
LEMMA UpTo ==
  ASSUME NEW n \in Nat, NEW T, 0 \in T,
         \A i \in 0 .. n - 1 : i \in T => i + 1 \in T
  PROVE  0 .. n \subseteq T
<1> DEFINE left == {i \in 0 .. n : i \notin T}
<1>1. SUFFICES ASSUME left # {} PROVE FALSE
  OBVIOUS
<1>2. left \in SUBSET Nat
  OBVIOUS
<1>3. PICK i \in left : \A j \in left : ~ (<<j, i>> \in OpToRel(<, Nat))
  BY <1>1, <1>2, NatLessThanWellFounded, WFMin
<1>4. i \in left
  OBVIOUS
<1>5. i \in 0 .. n /\ i \notin T
  BY <1>4
<1>6. \A j \in left : ~ (j < i)
  BY <1>2, <1>3 DEF OpToRel
<1>7. i # 0
  BY <1>5
<1>8. i \in 1 .. n /\ i - 1 \in 0 .. n - 1 /\ i - 1 < i
  BY <1>5, <1>7
<1>9. i - 1 \in T
  BY <1>6, <1>8
<1>10. (i - 1) + 1 \in T
  BY <1>8, <1>9
<1>11. QED
  BY <1>5, <1>8, <1>10

\* The values that a loop over 1 .. n goes through.
Runs(k, n, base, step) ==
  k[0] = base /\ \A i \in 1 .. n : k[i] = step[i][k[i - 1]]

\* A loop over 1 .. n has such values.
LEMMA LoopRuns ==
  ASSUME NEW A, NEW n \in Nat, NEW base \in A, NEW step \in [1 .. n -> [A -> A]]
  PROVE  \E k \in [0 .. n -> A] : Runs(k, n, base, step)
<1> DEFINE Upto(m, k) == k \in [0 .. m -> A] /\ Runs(k, m, base, step)
           T == {m \in 0 .. n : \E k : Upto(m, k)}
<1>1. 0 \in T
  <2>1. Upto(0, [i \in 0 .. 0 |-> base])
    BY DEF Runs
  <2>2. 0 \in 0 .. n
    OBVIOUS
  <2> HIDE DEF Upto
  <2>3. QED
    BY <2>1, <2>2
<1>2. ASSUME NEW m \in 0 .. n - 1, m \in T PROVE m + 1 \in T
  <2>1. PICK k : Upto(m, k)
    BY <1>2
  <2>2. k \in [0 .. m -> A] /\ k[0] = base /\ \A i \in 1 .. m : k[i] = step[i][k[i - 1]]
    BY <2>1 DEF Runs
  <2> DEFINE g == [i \in 0 .. m + 1 |-> IF i = m + 1 THEN step[m + 1][k[m]] ELSE k[i]]
  <2>3. m + 1 \in 1 .. n /\ step[m + 1] \in [A -> A] /\ k[m] \in A
    BY <2>2
  <2>4. g \in [0 .. m + 1 -> A]
    BY <2>2, <2>3
  <2>5. g[0] = base /\ \A i \in 0 .. m : g[i] = k[i]
    BY <2>2
  <2>6. ASSUME NEW i \in 1 .. m + 1 PROVE g[i] = step[i][g[i - 1]]
    <3>1. CASE i \in 1 .. m
      <4>1. i \in 0 .. m /\ i - 1 \in 0 .. m
        BY <3>1
      <4>2. k[i] = step[i][k[i - 1]]
        BY <2>2, <3>1
      <4> HIDE DEF g
      <4>3. QED
        BY <2>5, <4>1, <4>2
    <3>2. CASE i = m + 1
      <4>1. i - 1 = m /\ m \in 0 .. m /\ i \in 0 .. m + 1
        BY <3>2
      <4>2. g[i] = step[i][k[m]]
        BY <3>2, <4>1
      <4> HIDE DEF g
      <4>3. QED
        BY <2>5, <4>1, <4>2
    <3>3. QED
      BY <3>1, <3>2
  <2>7. m + 1 \in 0 .. n
    BY <2>3
  <2> HIDE DEF g
  <2>8. Upto(m + 1, g)
    BY <2>4, <2>5, <2>6 DEF Runs
  <2> HIDE DEF Upto
  <2>9. QED
    BY <2>7, <2>8
<1>3. n \in T
  <2> HIDE DEF T
  <2>1. n \in 0 .. n
    OBVIOUS
  <2>2. QED
    BY <1>1, <1>2, <2>1, UpTo
<1>4. QED
  BY <1>3

\* The last element of a set of positions.
LEMMA MaxOf ==
  ASSUME NEW n \in Nat, NEW s \in SUBSET (1 .. n), s # {}
  PROVE  Max(s) \in s /\ \A i \in s : i <= Max(s)
<1> DEFINE T == {k \in 0 .. n : \A u \in SUBSET (1 .. k) :
                   u # {} => \E x \in u : \A y \in u : x >= y}
<1>1. 0 \in T
  <2>1. \A u \in SUBSET (1 .. 0) : u = {}
    OBVIOUS
  <2>2. 0 \in 0 .. n
    OBVIOUS
  <2>3. \A u \in SUBSET (1 .. 0) : u # {} => \E x \in u : \A y \in u : x >= y
    BY Zenon, <2>1
  <2>4. QED
    BY <2>2, <2>3
<1>2. ASSUME NEW k \in 0 .. n - 1, k \in T PROVE k + 1 \in T
  <2>1. ASSUME NEW u \in SUBSET (1 .. k + 1), u # {}
        PROVE  \E x \in u : \A y \in u : x >= y
    <3>1. CASE k + 1 \in u
      BY <3>1
    <3>2. CASE k + 1 \notin u
      <4>1. u \in SUBSET (1 .. k)
        BY <3>2
      <4>2. QED
        BY <4>1, <1>2, <2>1
    <3>3. QED
      BY <3>1, <3>2
  <2>2. k + 1 \in 0 .. n
    OBVIOUS
  <2>3. QED
    BY <2>1, <2>2
<1>3. n \in T
  <2> HIDE DEF T
  <2>1. n \in 0 .. n
    OBVIOUS
  <2>2. QED
    BY <1>1, <1>2, <2>1, UpTo
<1>4. \E x \in s : \A y \in s : x >= y
  BY <1>3
<1>5. Max(s) \in s /\ \A y \in s : Max(s) >= y
  BY <1>4 DEF Max
<1>6. QED
  BY <1>5

\* Taking the last position from the first i leaves the first i - 1.
LEMMA MaxOfInterval ==
  ASSUME NEW i \in Nat, i # 0
  PROVE  Max(1 .. i) = i /\ (1 .. i) \ {Max(1 .. i)} = 1 .. i - 1
<1>1. 1 .. i \in SUBSET (1 .. i) /\ i \in 1 .. i
  OBVIOUS
<1>2. Max(1 .. i) \in 1 .. i /\ \A j \in 1 .. i : j <= Max(1 .. i)
  BY <1>1, MaxOf
<1>3. Max(1 .. i) = i
  BY <1>1, <1>2
<1>4. (1 .. i) \ {i} = 1 .. i - 1
  OBVIOUS
<1>5. QED
  BY <1>3, <1>4

\* The first i of n positions, as FoldLeft takes them one by one.
LEMMA PrefixPositions ==
  ASSUME NEW n \in Nat, NEW i \in 1 .. n
  PROVE  /\ 1 .. i \in SUBSET (1 .. n) /\ 1 .. i # {}
         /\ i \in 0 .. n /\ i - 1 \in 0 .. n
         /\ Max(1 .. i) = i /\ (1 .. i) \ {Max(1 .. i)} = 1 .. i - 1
<1>1. i \in Nat /\ i # 0 /\ i \in 1 .. i
  OBVIOUS
<1>2. 1 .. i \in SUBSET (1 .. n) /\ i \in 0 .. n /\ i - 1 \in 0 .. n
  OBVIOUS
<1>3. Max(1 .. i) = i /\ (1 .. i) \ {Max(1 .. i)} = 1 .. i - 1
  BY <1>1, MaxOfInterval
<1>4. 1 .. i # {}
  BY <1>1
<1>5. QED
  BY Zenon, <1>2, <1>3, <1>4

\* What the recursion of a fold, over the sets of positions, computes.
Folds(g, n, base, step) ==
  g = [s \in SUBSET (1 .. n) |->
         IF s = {} THEN base ELSE step[Max(s)][g[s \ {Max(s)}]]]

\* The function that FoldLeft and FoldLeftDomain choose exists.
LEMMA FoldExists ==
  ASSUME NEW A, NEW n \in Nat, NEW base \in A, NEW step \in [1 .. n -> [A -> A]]
  PROVE  \E g \in [SUBSET (1 .. n) -> A] : Folds(g, n, base, step)
<1> DEFINE Upto(k, g) ==
             g \in [SUBSET (1 .. k) -> A] /\ g[{}] = base
             /\ \A s \in SUBSET (1 .. k) :
                  s # {} => g[s] = step[Max(s)][g[s \ {Max(s)}]]
           T == {k \in 0 .. n : \E g : Upto(k, g)}
<1>1. 0 \in T
  <2> DEFINE g == [s \in SUBSET (1 .. 0) |-> base]
  <2>1. \A s \in SUBSET (1 .. 0) : s = {}
    OBVIOUS
  <2>2. {} \in SUBSET (1 .. 0)
    OBVIOUS
  <2>3. g \in [SUBSET (1 .. 0) -> A] /\ g[{}] = base
    BY <2>2
  <2>4. Upto(0, g)
    BY <2>1, <2>3
  <2>5. 0 \in 0 .. n
    OBVIOUS
  <2> HIDE DEF Upto, g
  <2>6. QED
    BY <2>4, <2>5
<1>2. ASSUME NEW k \in 0 .. n - 1, k \in T PROVE k + 1 \in T
  <2>1. PICK h : Upto(k, h)
    BY <1>2
  <2> DEFINE g == [s \in SUBSET (1 .. k + 1) |->
                     IF k + 1 \in s THEN step[k + 1][h[s \ {k + 1}]] ELSE h[s]]
  <2>2. ASSUME NEW s \in SUBSET (1 .. k + 1), k + 1 \in s
        PROVE  s \ {k + 1} \in SUBSET (1 .. k) /\ Max(s) = k + 1
    <3>1. s \ {k + 1} \in SUBSET (1 .. k)
      OBVIOUS
    <3>2. Max(s) \in s /\ k + 1 <= Max(s)
      <4>1. k + 1 \in Nat
        OBVIOUS
      <4>2. QED
        BY <2>2, <4>1, MaxOf
    <3>3. Max(s) \in 1 .. k + 1
      BY <3>2
    <3>4. Max(s) = k + 1
      BY <3>2, <3>3
    <3>5. QED
      BY <3>1, <3>4
  <2>3. ASSUME NEW s \in SUBSET (1 .. k + 1), k + 1 \notin s
        PROVE  s \in SUBSET (1 .. k)
    BY <2>3
  <2>4. \A s \in SUBSET (1 .. k + 1) :
          k + 1 \in s => g[s] = step[k + 1][h[s \ {k + 1}]] /\ g[s] \in A
    <3> SUFFICES ASSUME NEW s \in SUBSET (1 .. k + 1), k + 1 \in s
                 PROVE  g[s] = step[k + 1][h[s \ {k + 1}]] /\ g[s] \in A
      OBVIOUS
    <3>1. h[s \ {k + 1}] \in A
      BY <2>1, <2>2
    <3>2. k + 1 \in 1 .. n
      OBVIOUS
    <3>3. QED
      BY <3>1, <3>2
  <2>5. \A s \in SUBSET (1 .. k) : s \in SUBSET (1 .. k + 1) /\ g[s] = h[s] /\ g[s] \in A
    BY <2>1
  <2>6. g \in [SUBSET (1 .. k + 1) -> A]
    BY <2>3, <2>4, <2>5
  <2>7. g[{}] = base
    BY <2>1, <2>5
  <2>8. ASSUME NEW s \in SUBSET (1 .. k + 1), s # {}
        PROVE  g[s] = step[Max(s)][g[s \ {Max(s)}]]
    <3> HIDE DEF g
    <3>1. CASE k + 1 \in s
      BY <2>2, <2>4, <2>5, <3>1
    <3>2. CASE k + 1 \notin s
      <4>1. s \in SUBSET (1 .. k) /\ s \ {Max(s)} \in SUBSET (1 .. k)
        BY <2>3, <3>2
      <4>2. h[s] = step[Max(s)][h[s \ {Max(s)}]]
        BY <2>1, <2>8, <4>1
      <4>3. QED
        BY <2>5, <4>1, <4>2
    <3>3. QED
      BY <3>1, <3>2
  <2>9. Upto(k + 1, g)
    BY <2>6, <2>7, <2>8
  <2> HIDE DEF Upto
  <2>10. k + 1 \in 0 .. n /\ \E f : Upto(k + 1, f)
    BY <2>9
  <2>11. QED
    BY <2>10
<1>3. n \in T
  <2> HIDE DEF T
  <2>1. n \in 0 .. n
    OBVIOUS
  <2>2. QED
    BY <1>1, <1>2, <2>1, UpTo
<1>4. PICK g : Upto(n, g)
  BY <1>3
<1>5. ASSUME NEW s \in SUBSET (1 .. n)
      PROVE  g[s] = IF s = {} THEN base ELSE step[Max(s)][g[s \ {Max(s)}]]
  BY <1>4
<1>6. Folds(g, n, base, step)
  BY <1>4, <1>5 DEF Folds
<1>7. QED
  BY <1>4, <1>6

\* A fold runs through its values after each position.
LEMMA MinOf ==
  ASSUME NEW n \in Nat, NEW s \in SUBSET (1 .. n), s # {}
  PROVE  Min(s) \in s /\ \A i \in s : Min(s) <= i
<1>1. s \in SUBSET Nat
  OBVIOUS
<1>2. PICK x \in s : \A y \in s : ~ (<<y, x>> \in OpToRel(<, Nat))
  BY <1>1, NatLessThanWellFounded, WFMin
<1>3. \A y \in s : ~ (y < x)
  BY <1>1, <1>2 DEF OpToRel
<1>4. \A y \in s : x <= y
  BY <1>1, <1>3
<1>5. \E z \in s : \A y \in s : z =< y
  BY <1>4
<1>6. QED
  BY <1>5 DEF Min

-----------------------------------------------------------------------------
(***************************************************************************)
(* FlattenSeq.                                                             *)
(***************************************************************************)
\* FlattenSeq puts the sequences together one by one.
LEMMA FlattenRuns ==
  ASSUME NEW S, NEW ss \in Seq(Seq(S))
  PROVE  \E k \in [0 .. Len(ss) -> Seq(S)] :
           /\ k[0] = <<>> /\ k[Len(ss)] = FlattenSeq(ss)
           /\ \A i \in 1 .. Len(ss) : k[i] = k[i - 1] \o ss[i]
<1> DEFINE n == Len(ss)
           step == [i \in 1 .. n |-> [s \in Seq(S) |-> s \o ss[i]]]
           Flattens(f) == f = [i \in 1 .. n |-> IF i = 1 THEN ss[i] ELSE f[i - 1] \o ss[i]]
           f == CHOOSE f : Flattens(f)
<1>1. n \in Nat /\ \A i \in 1 .. n : ss[i] \in Seq(S)
  OBVIOUS
<1>2. step \in [1 .. n -> [Seq(S) -> Seq(S)]]
  <2>1. ASSUME NEW i \in 1 .. n, NEW s \in Seq(S) PROVE s \o ss[i] \in Seq(S)
    BY <1>1
  <2>2. QED
    BY <2>1
<1>3. PICK k \in [0 .. n -> Seq(S)] : Runs(k, n, <<>>, step)
  <2> DEFINE A == Seq(S)
  <2>1. <<>> \in A
    OBVIOUS
  <2> HIDE DEF step, n, A
  <2>2. step \in [1 .. n -> [A -> A]]
    BY <1>2 DEF A
  <2>3. \E k \in [0 .. n -> A] : Runs(k, n, <<>>, step)
    BY <1>1, <2>1, <2>2, LoopRuns
  <2>4. QED
    BY <2>3 DEF A
<1> k[0] = <<>>
  BY <1>3 DEF Runs
<1>4. ASSUME NEW i \in 1 .. n PROVE k[i - 1] \in Seq(S) /\ k[i] = k[i - 1] \o ss[i]
  <2>1. i - 1 \in 0 .. n
    BY <1>1
  <2>2. k[i - 1] \in Seq(S)
    BY <2>1
  <2> HIDE DEF step
  <2>3. k[i] = step[i][k[i - 1]]
    BY <1>3 DEF Runs
  <2>4. step[i][k[i - 1]] = k[i - 1] \o ss[i]
    BY <2>2 DEF step
  <2>5. QED
    BY <2>2, <2>3, <2>4
<1>5. CASE n = 0
  <2>1. ss = <<>>
    BY <1>5
  <2>2. FlattenSeq(ss) = <<>>
    BY <1>5, <2>1 DEF FlattenSeq
  <2>3. QED
    BY <1>3, <1>5, <2>2
<1>6. CASE n # 0
  <2> DEFINE g == [i \in 1 .. n |-> k[i]]
  <2>1. ASSUME NEW i \in 1 .. n
        PROVE  g[i] = IF i = 1 THEN ss[i] ELSE g[i - 1] \o ss[i]
    <3>1. CASE i = 1
      <4>1. k[1] = <<>> \o ss[1]
        <5>1. k[i] = k[i - 1] \o ss[i]
          BY <1>4
        <5>2. i - 1 = 0
          BY <3>1
        <5>3. QED
          BY <1>3, <3>1, <5>1, <5>2
      <4>2. <<>> \o ss[1] = ss[1]
        BY <1>1, <3>1
      <4>3. QED
        BY <3>1, <4>1, <4>2
    <3>2. CASE i # 1
      <4>1. i - 1 \in 1 .. n
        BY <1>1, <3>2
      <4>2. QED
        BY <1>4, <3>2, <4>1
    <3>3. QED
      BY <3>1, <3>2
  <2>2. Flattens(g)
    BY <2>1
  <2>3. Flattens(f)
    BY <2>2
  <2>4. FlattenSeq(ss) = f[n]
    BY Zenon, <1>6 DEF FlattenSeq
  <2>5. n # 0 => f[n] = k[n]
    <3> DEFINE T == {i \in 0 .. n : i # 0 => f[i] = k[i]}
    <3>1. 0 \in T
      BY <1>1
    <3>2. ASSUME NEW i \in 0 .. n - 1, i \in T PROVE i + 1 \in T
      <4>1. i + 1 \in 1 .. n /\ (i + 1) - 1 = i
        BY <1>1
      <4>2. f[i + 1] = IF i + 1 = 1 THEN ss[i + 1] ELSE f[i] \o ss[i + 1]
        BY <2>3, <4>1
      <4>3. g[i + 1] = IF i + 1 = 1 THEN ss[i + 1] ELSE g[i] \o ss[i + 1]
        BY <2>1, <4>1
      <4>4. i # 0 => f[i] = g[i]
        BY <3>2
      <4>5. f[i + 1] = g[i + 1]
        BY <4>2, <4>3, <4>4
      <4>6. QED
        BY <4>1, <4>5
    <3>3. 0 .. n \subseteq T
      <4> HIDE DEF T, n
      <4>1. QED
        BY <1>1, <3>1, <3>2, UpTo
    <3>4. n \in 0 .. n
      BY <1>1
    <3>5. n \in T
      BY <3>3, <3>4
    <3>6. QED
      BY <3>5
  <2>7. FlattenSeq(ss) = k[n]
    BY <1>6, <2>4, <2>5
  <2>8. QED
    BY <1>3, <1>4, <2>7
<1>7. QED
  BY <1>5, <1>6

\* Sequences over S put together are a sequence over S.
LEMMA FlattenIsSeq ==
  ASSUME NEW S, NEW ss \in Seq(Seq(S))
  PROVE  FlattenSeq(ss) \in Seq(S)
<1>1. PICK k \in [0 .. Len(ss) -> Seq(S)] : k[Len(ss)] = FlattenSeq(ss)
  BY FlattenRuns
<1>2. Len(ss) \in 0 .. Len(ss)
  OBVIOUS
<1>3. k[Len(ss)] \in Seq(S)
  BY <1>2
<1>4. QED
  BY <1>1, <1>3

\* Nothing put together is nothing.
LEMMA FlattenEmpty == FlattenSeq(<<>>) = <<>>
BY DEF FlattenSeq

\* FlattenSeq takes its sequences from the first to the last.
LEMMA FlattenAppend ==
  ASSUME NEW S, NEW ss \in Seq(Seq(S)), NEW s \in Seq(S)
  PROVE  FlattenSeq(Append(ss, s)) = FlattenSeq(ss) \o s
<1> DEFINE n == Len(ss)
           more == Append(ss, s)
<1>1. more \in Seq(Seq(S)) /\ Len(more) = n + 1 /\ more[n + 1] = s
      /\ \A i \in 1 .. n : more[i] = ss[i]
  OBVIOUS
<1>2. PICK k \in [0 .. n -> Seq(S)] :
        /\ k[0] = <<>> /\ k[n] = FlattenSeq(ss)
        /\ \A i \in 1 .. n : k[i] = k[i - 1] \o ss[i]
  BY FlattenRuns
<1>3. PICK h \in [0 .. n + 1 -> Seq(S)] :
        /\ h[0] = <<>> /\ h[n + 1] = FlattenSeq(more)
        /\ \A i \in 1 .. n + 1 : h[i] = h[i - 1] \o more[i]
  <2> HIDE DEF more, n
  <2>1. \E h \in [0 .. Len(more) -> Seq(S)] :
          /\ h[0] = <<>> /\ h[Len(more)] = FlattenSeq(more)
          /\ \A i \in 1 .. Len(more) : h[i] = h[i - 1] \o more[i]
    BY <1>1, FlattenRuns
  <2>2. QED
    BY <1>1, <2>1
<1>4. n \in Nat
  OBVIOUS
<1>5. n \in {i \in 0 .. n : h[i] = k[i]}
  <2> DEFINE T == {i \in 0 .. n : h[i] = k[i]}
  <2> HIDE DEF n, more
  <2>1. 0 \in T
    BY <1>2, <1>3, <1>4
  <2>2. ASSUME NEW i \in 0 .. n - 1, i \in T PROVE i + 1 \in T
    <3>1. i + 1 \in 1 .. n /\ (i + 1) - 1 = i /\ i + 1 \in 1 .. n + 1 /\ i + 1 \in 0 .. n
      BY <1>4
    <3>2. k[i + 1] = k[i] \o ss[i + 1]
      BY <1>2, <3>1
    <3>3. h[i + 1] = h[i] \o more[i + 1]
      BY <1>3, <3>1
    <3>4. more[i + 1] = ss[i + 1] /\ h[i] = k[i]
      BY <1>1, <2>2, <3>1
    <3>5. QED
      BY <3>1, <3>2, <3>3, <3>4
  <2>3. n \in 0 .. n
    BY <1>4
  <2> HIDE DEF T
  <2>4. n \in T
    BY <1>4, <2>1, <2>2, <2>3, UpTo
  <2>5. QED
    BY <2>4 DEF T
<1>6. h[n + 1] = h[n] \o s
  <2>1. n + 1 \in 1 .. n + 1 /\ (n + 1) - 1 = n
    BY <1>4
  <2> HIDE DEF n, more
  <2>2. QED
    BY <1>1, <1>3, <2>1
<1>7. QED
  BY <1>2, <1>3, <1>5, <1>6

\* Induction over sequences: T holds the empty one and, with each, the longer ones.
LEMMA AllSequences ==
  ASSUME NEW S, NEW T, <<>> \in T,
         \A s \in Seq(S), e \in S : s \in T => Append(s, e) \in T
  PROVE  Seq(S) \subseteq T
<1> SUFFICES ASSUME NEW s \in Seq(S) PROVE s \in T
  OBVIOUS
<1> DEFINE n == Len(s)
           P == {i \in 0 .. n : SubSeq(s, 1, i) \in T}
<1>1. n \in Nat
  OBVIOUS
<1>2. 0 \in P
  <2>1. SubSeq(s, 1, 0) = <<>>
    OBVIOUS
  <2>2. SubSeq(s, 1, 0) \in T
    BY Zenon, <2>1
  <2>3. 0 \in 0 .. n
    BY <1>1
  <2>4. QED
    BY Zenon, <2>2, <2>3
<1>3. ASSUME NEW i \in 0 .. n - 1, i \in P PROVE i + 1 \in P
  <2>1. i + 1 \in 1 .. n
    BY <1>1
  <2>2. SubSeq(s, 1, i) \in Seq(S) /\ s[i + 1] \in S
    BY <2>1
  <2>3. SubSeq(s, 1, i + 1) = Append(SubSeq(s, 1, i), s[i + 1])
    BY <2>1
  <2>4. SubSeq(s, 1, i + 1) \in T
    BY Zenon, <1>3, <2>2, <2>3
  <2>5. i + 1 \in 0 .. n
    BY <2>1
  <2>6. QED
    BY Zenon, <2>4, <2>5
<1>4. n \in P
  <2>1. n \in 0 .. n
    BY <1>1
  <2> HIDE DEF P, n
  <2>2. QED
    BY <1>1, <1>2, <1>3, <2>1, UpTo
<1>5. SubSeq(s, 1, n) = s
  OBVIOUS
<1>6. QED
  BY <1>4, <1>5

\* FlattenSeq of two lists is that of the first and then that of the second.
LEMMA FlattenConcat ==
  ASSUME NEW S, NEW ss \in Seq(Seq(S)), NEW tt \in Seq(Seq(S))
  PROVE  FlattenSeq(ss \o tt) = FlattenSeq(ss) \o FlattenSeq(tt)
<1> DEFINE T == {us \in Seq(Seq(S)) :
                   FlattenSeq(ss \o us) = FlattenSeq(ss) \o FlattenSeq(us)}
<1>1. <<>> \in T
  <2>1. ss \o <<>> = ss
    OBVIOUS
  <2>2. FlattenSeq(ss) \in Seq(S) /\ FlattenSeq(<<>>) = <<>>
    BY FlattenIsSeq, FlattenEmpty
  <2>3. FlattenSeq(ss) \o <<>> = FlattenSeq(ss)
    BY <2>2
  <2>4. <<>> \in Seq(Seq(S))
    OBVIOUS
  <2>5. QED
    BY <2>1, <2>2, <2>3, <2>4
<1>2. ASSUME NEW us \in Seq(Seq(S)), NEW s \in Seq(S), us \in T
      PROVE  Append(us, s) \in T
  <2>1. ss \o us \in Seq(Seq(S)) /\ Append(us, s) \in Seq(Seq(S))
    OBVIOUS
  <2>2. ss \o Append(us, s) = Append(ss \o us, s)
    OBVIOUS
  <2>3. FlattenSeq(Append(ss \o us, s)) = FlattenSeq(ss \o us) \o s
    BY <2>1, FlattenAppend
  <2>4. FlattenSeq(Append(us, s)) = FlattenSeq(us) \o s
    BY FlattenAppend
  <2>5. FlattenSeq(ss) \in Seq(S) /\ FlattenSeq(us) \in Seq(S)
    BY FlattenIsSeq
  <2>6. (FlattenSeq(ss) \o FlattenSeq(us)) \o s = FlattenSeq(ss) \o (FlattenSeq(us) \o s)
    BY <2>5, ConcatAssociative
  <2>7. QED
    BY <1>2, <2>1, <2>2, <2>3, <2>4, <2>6
<1>3. Seq(Seq(S)) \subseteq T
  <2> HIDE DEF T
  <2>1. QED
    BY <1>1, <1>2, AllSequences
<1>4. QED
  BY <1>3

\* One sequence put together is itself.
LEMMA FlattenOne ==
  ASSUME NEW S, NEW s \in Seq(S)
  PROVE  FlattenSeq(<<s>>) = s
<1>1. <<>> \in Seq(Seq(S)) /\ <<s>> = Append(<<>>, s)
  OBVIOUS
<1>2. FlattenSeq(<<s>>) = <<>> \o s
  BY <1>1, FlattenAppend, FlattenEmpty
<1>3. QED
  BY <1>2

\* Between cuts a part out of a sequence, from an element of keep to another.
LEMMA BetweenIsPart ==
  ASSUME NEW S, NEW s \in Seq(S), NEW keep \in SUBSET DOMAIN s
  PROVE  /\ Between(s, keep) \in Seq(S)
         /\ Len(Between(s, keep)) <= Len(s)
         /\ keep # {} => /\ Min(keep) \in keep /\ Max(keep) \in keep
                         /\ \A i \in keep : Min(keep) <= i /\ i <= Max(keep)
                         /\ Between(s, keep) = SubSeq(s, Min(keep), Max(keep))
<1>1. Len(s) \in Nat /\ DOMAIN s = 1 .. Len(s) /\ keep \in SUBSET (1 .. Len(s))
  OBVIOUS
<1>2. CASE keep = {}
  <2>1. Between(s, keep) = <<>>
    BY <1>2 DEF Between
  <2>2. <<>> \in Seq(S) /\ Len(<<>>) = 0
    OBVIOUS
  <2>3. Between(s, keep) \in Seq(S) /\ Len(Between(s, keep)) = 0
    BY Zenon, <2>1, <2>2
  <2>4. QED
    BY <1>1, <1>2, <2>3
<1>3. CASE keep # {}
  <2>1. Between(s, keep) = SubSeq(s, Min(keep), Max(keep))
    BY <1>3 DEF Between
  <2>2. /\ Min(keep) \in keep /\ Max(keep) \in keep
        /\ \A i \in keep : Min(keep) <= i /\ i <= Max(keep)
    BY <1>1, <1>3, MinOf, MaxOf
  <2>3. Min(keep) \in 1 .. Len(s) /\ Max(keep) \in 1 .. Len(s) /\ Min(keep) <= Max(keep)
    BY <1>1, <2>2
  <2>4. /\ SubSeq(s, Min(keep), Max(keep)) \in Seq(S)
        /\ Len(SubSeq(s, Min(keep), Max(keep))) <= Len(s)
    BY <1>1, <2>3
  <2>5. QED
    BY <2>1, <2>2, <2>4
<1>4. QED
  BY <1>2, <1>3

Texts == Seq(Nat)

-----------------------------------------------------------------------------
(***************************************************************************)
(* The texts that a function gives for the elements of a sequence, put     *)
(* together.                                                               *)
(***************************************************************************)
All(g, s) == FlattenSeq([i \in DOMAIN s |-> g[s[i]]])

\* No element, no text.
LEMMA AllOfNone == \A g : All(g, <<>>) = <<>>
<1>1. ASSUME NEW g PROVE [i \in DOMAIN <<>> |-> g[<<>>[i]]] = <<>>
  OBVIOUS
<1>2. QED
  BY <1>1, FlattenEmpty DEF All

\* The texts of the elements of a sequence.
LEMMA AllEach ==
  ASSUME NEW S, NEW g \in [S -> Texts], NEW s \in Seq(S)
  PROVE  [i \in DOMAIN s |-> g[s[i]]] \in Seq(Seq(Nat))
<1>1. \A i \in DOMAIN s : g[s[i]] \in Seq(Nat)
  BY DEF Texts
<1>2. DOMAIN s = 1 .. Len(s) /\ Len(s) \in Nat
  OBVIOUS
<1>3. [i \in DOMAIN s |-> g[s[i]]] \in [1 .. Len(s) -> Seq(Nat)]
  BY <1>1, <1>2
<1>4. QED
  BY <1>2, <1>3

\* The texts of the elements make a text.
LEMMA AllIsText ==
  ASSUME NEW S, NEW g \in [S -> Texts], NEW s \in Seq(S)
  PROVE  All(g, s) \in Texts
BY AllEach, FlattenIsSeq DEF All, Texts

\* One more element adds its text at the end.
LEMMA AllAppend ==
  ASSUME NEW S, NEW g \in [S -> Texts], NEW s \in Seq(S), NEW e \in S
  PROVE  All(g, Append(s, e)) = All(g, s) \o g[e]
<1> DEFINE each == [i \in DOMAIN s |-> g[s[i]]]
<1>1. [i \in DOMAIN Append(s, e) |-> g[Append(s, e)[i]]] = Append(each, g[e])
  OBVIOUS
<1>2. each \in Seq(Seq(Nat)) /\ g[e] \in Seq(Nat)
  BY AllEach DEF Texts
<1>3. FlattenSeq(Append(each, g[e])) = FlattenSeq(each) \o g[e]
  <2> HIDE DEF each
  <2>1. QED
    BY <1>2, FlattenAppend
<1>4. QED
  BY <1>1, <1>3 DEF All

\* The text of one element.
LEMMA AllOne ==
  ASSUME NEW S, NEW g \in [S -> Texts], NEW e \in S
  PROVE  All(g, <<e>>) = g[e]
<1>1. <<>> \in Seq(S) /\ <<e>> = Append(<<>>, e) /\ g[e] \in Seq(Nat)
  BY DEF Texts
<1>2. All(g, Append(<<>>, e)) = All(g, <<>>) \o g[e]
  BY <1>1, AllAppend
<1>3. <<>> \o g[e] = g[e]
  BY <1>1
<1>4. QED
  BY Zenon, <1>1, <1>2, <1>3, AllOfNone

\* The text of two sequences is that of the first and then that of the second.
LEMMA AllConcat ==
  ASSUME NEW S, NEW g \in [S -> Texts], NEW s \in Seq(S), NEW t \in Seq(S)
  PROVE  All(g, s \o t) = All(g, s) \o All(g, t)
<1> DEFINE T == {u \in Seq(S) : All(g, s \o u) = All(g, s) \o All(g, u)}
<1>1. All(g, s) \in Seq(Nat)
  BY AllIsText DEF Texts
<1>2. <<>> \in T
  <2>1. s \o <<>> = s /\ <<>> \in Seq(S)
    OBVIOUS
  <2>2. All(g, s) \o <<>> = All(g, s)
    BY <1>1
  <2>3. QED
    BY <2>1, <2>2, AllOfNone
<1>3. ASSUME NEW u \in Seq(S), NEW e \in S, u \in T PROVE Append(u, e) \in T
  <2>1. s \o u \in Seq(S) /\ Append(u, e) \in Seq(S)
    OBVIOUS
  <2>2. s \o Append(u, e) = Append(s \o u, e)
    OBVIOUS
  <2>3. All(g, Append(s \o u, e)) = All(g, s \o u) \o g[e]
    BY <2>1, AllAppend
  <2>4. All(g, Append(u, e)) = All(g, u) \o g[e]
    BY AllAppend
  <2>5. All(g, s \o u) = All(g, s) \o All(g, u)
    BY <1>3
  <2>6. All(g, u) \in Seq(Nat) /\ g[e] \in Seq(Nat)
    BY AllIsText DEF Texts
  <2>7. (All(g, s) \o All(g, u)) \o g[e] = All(g, s) \o (All(g, u) \o g[e])
    BY <1>1, <2>6, ConcatAssociative
  <2>8. All(g, s \o Append(u, e)) = All(g, s) \o All(g, Append(u, e))
    BY Zenon, <2>2, <2>3, <2>4, <2>5, <2>7
  <2>9. QED
    BY <2>1, <2>8
<1>4. Seq(S) \subseteq T
  <2> HIDE DEF T
  <2>1. QED
    BY <1>2, <1>3, AllSequences
<1>5. QED
  BY <1>4

\* Lists that are put together: all of them give what each of them gives.
LEMMA AllOfFlatten ==
  ASSUME NEW S, NEW g \in [S -> Texts], NEW ss \in Seq(Seq(S))
  PROVE  All(g, FlattenSeq(ss)) = FlattenSeq([i \in DOMAIN ss |-> All(g, ss[i])])
<1> DEFINE each(us) == [i \in DOMAIN us |-> All(g, us[i])]
           T == {us \in Seq(Seq(S)) : All(g, FlattenSeq(us)) = FlattenSeq(each(us))}
<1>1. <<>> \in T
  <2>1. each(<<>>) = <<>> /\ <<>> \in Seq(Seq(S))
    OBVIOUS
  <2>2. QED
    BY <2>1, FlattenEmpty, AllOfNone
<1>2. ASSUME NEW us \in Seq(Seq(S)), NEW u \in Seq(S), us \in T
      PROVE  Append(us, u) \in T
  <2>1. FlattenSeq(Append(us, u)) = FlattenSeq(us) \o u /\ FlattenSeq(us) \in Seq(S)
    BY FlattenAppend, FlattenIsSeq
  <2>2. All(g, FlattenSeq(us) \o u) = All(g, FlattenSeq(us)) \o All(g, u)
    BY <2>1, AllConcat
  <2>3. each(Append(us, u)) = Append(each(us), All(g, u))
    OBVIOUS
  <2>4. each(us) \in Seq(Seq(Nat)) /\ All(g, u) \in Seq(Nat)
    <3>1. ASSUME NEW i \in DOMAIN us PROVE All(g, us[i]) \in Seq(Nat)
      <4>1. us[i] \in Seq(S)
        OBVIOUS
      <4>2. QED
        BY <4>1, AllIsText DEF Texts
    <3>2. DOMAIN us = 1 .. Len(us) /\ Len(us) \in Nat
      OBVIOUS
    <3>3. each(us) = [i \in 1 .. Len(us) |-> All(g, us[i])]
      BY <3>2
    <3>4. each(us) \in Seq(Seq(Nat))
      BY <3>1, <3>2, <3>3
    <3> HIDE DEF each
    <3>5. QED
      BY <3>4, AllIsText DEF Texts
  <2> HIDE DEF each
  <2>5. FlattenSeq(Append(each(us), All(g, u))) = FlattenSeq(each(us)) \o All(g, u)
    BY <2>4, FlattenAppend
  <2>6. Append(us, u) \in Seq(Seq(S)) /\ All(g, FlattenSeq(us)) = FlattenSeq(each(us))
    BY <1>2
  <2>7. All(g, FlattenSeq(Append(us, u))) = FlattenSeq(each(Append(us, u)))
    BY Zenon, <2>1, <2>2, <2>3, <2>5, <2>6
  <2>8. QED
    BY <2>6, <2>7
<1>3. Seq(Seq(S)) \subseteq T
  <2> HIDE DEF T
  <2>1. QED
    BY <1>1, <1>2, AllSequences
<1>4. QED
  BY <1>3

\* Elements that give nothing.
LEMMA AllOfNothing ==
  ASSUME NEW S, NEW g \in [S -> Texts], NEW s \in Seq(S),
         \A i \in DOMAIN s : g[s[i]] = <<>>
  PROVE  All(g, s) = <<>>
<1> DEFINE U == {e \in S : g[e] = <<>>}
           T == {u \in Seq(U) : All(g, u) = <<>>}
<1>1. <<>> \in T
  BY AllOfNone
<1>2. ASSUME NEW u \in Seq(U), NEW e \in U, u \in T PROVE Append(u, e) \in T
  <2>1. u \in Seq(S) /\ e \in S /\ Append(u, e) \in Seq(U) /\ g[e] = <<>> /\ All(g, u) = <<>>
    BY <1>2
  <2>2. All(g, Append(u, e)) = All(g, u) \o g[e]
    BY <2>1, AllAppend
  <2>3. <<>> \o <<>> = <<>>
    OBVIOUS
  <2>4. All(g, Append(u, e)) = <<>>
    BY Zenon, <2>1, <2>2, <2>3
  <2>5. QED
    BY <2>1, <2>4
<1>3. Seq(U) \subseteq T
  <2> HIDE DEF T, U
  <2>1. QED
    BY <1>1, <1>2, AllSequences
<1>4. s \in Seq(U)
  OBVIOUS
<1>5. QED
  BY <1>3, <1>4

\* What is cut off at the ends gives nothing.
LEMMA AllOfBetween ==
  ASSUME NEW S, NEW g \in [S -> Texts], NEW s \in Seq(S), NEW keep \in SUBSET DOMAIN s,
         \A i \in DOMAIN s : i \notin keep => g[s[i]] = <<>>
  PROVE  All(g, Between(s, keep)) = All(g, s)
<1>1. Len(s) \in Nat /\ DOMAIN s = 1 .. Len(s)
  OBVIOUS
<1>2. CASE keep = {}
  <2>1. All(g, s) = <<>>
    BY <1>2, AllOfNothing
  <2>2. QED
    BY <1>2, <2>1, AllOfNone DEF Between
<1>3. CASE keep # {}
  <2> DEFINE a == Min(keep)
             b == Max(keep)
             before == SubSeq(s, 1, a - 1)
             part == SubSeq(s, a, b)
             after == SubSeq(s, b + 1, Len(s))
  <2>1. /\ a \in 1 .. Len(s) /\ b \in a .. Len(s)
        /\ \A i \in keep : a <= i /\ i <= b
        /\ Between(s, keep) = part
    <3>1. /\ a \in keep /\ b \in keep
          /\ \A i \in keep : a <= i /\ i <= b
          /\ Between(s, keep) = part
      BY <1>1, <1>3, BetweenIsPart
    <3> HIDE DEF a, b, part
    <3>2. QED
      BY <1>1, <3>1
  <2> HIDE DEF a, b
  <2>2. before \in Seq(S) /\ part \in Seq(S) /\ after \in Seq(S)
    BY <1>1, <2>1
  <2>3. before \o part = SubSeq(s, 1, b)
    <3>1. 1 \in 1 .. Len(s) + 1 /\ a - 1 \in 1 - 1 .. Len(s) /\ b \in a - 1 .. Len(s)
          /\ (a - 1) + 1 = a
      BY <1>1, <2>1
    <3>2. QED
      BY <1>1, <3>1, ConcatAdjacentSubSeq
  <2>4. SubSeq(s, 1, b) \o after = s
    <3>1. 1 \in 1 .. Len(s) + 1 /\ b \in 1 - 1 .. Len(s) /\ Len(s) \in b .. Len(s)
      BY <1>1, <2>1
    <3>2. SubSeq(s, 1, b) \o after = SubSeq(s, 1, Len(s))
      BY <1>1, <3>1, ConcatAdjacentSubSeq
    <3>3. QED
      BY <1>1, <3>2, SubSeqFull
  <2>5. All(g, before) = <<>>
    <3>1. \A i \in DOMAIN before : i \in DOMAIN s /\ i \notin keep /\ before[i] = s[i]
      BY <1>1, <2>1
    <3>2. \A i \in DOMAIN before : g[before[i]] = <<>>
      BY <3>1
    <3> HIDE DEF before
    <3>3. QED
      BY <2>2, <3>2, AllOfNothing
  <2>6. All(g, after) = <<>>
    <3>1. \A i \in DOMAIN after : i + b \in DOMAIN s /\ i + b \notin keep /\ after[i] = s[i + b]
      BY <1>1, <2>1
    <3>2. \A i \in DOMAIN after : g[after[i]] = <<>>
      BY <3>1
    <3> HIDE DEF after
    <3>3. QED
      BY <2>2, <3>2, AllOfNothing
  <2> HIDE DEF before, part, after
  <2>7. All(g, before \o part) = All(g, before) \o All(g, part)
    BY <2>2, AllConcat
  <2>8. All(g, (before \o part) \o after) = All(g, before \o part) \o All(g, after)
    <3>1. before \o part \in Seq(S)
      BY <2>2
    <3>2. QED
      BY <2>2, <3>1, AllConcat
  <2>9. All(g, part) \in Seq(Nat)
    BY <2>2, AllIsText DEF Texts
  <2>10. (<<>> \o All(g, part)) \o <<>> = All(g, part)
    BY <2>9
  <2>11. (before \o part) \o after = s
    BY <2>3, <2>4
  <2>12. QED
    BY Zenon, <2>1, <2>5, <2>6, <2>7, <2>8, <2>10, <2>11
<1>4. QED
  BY <1>2, <1>3

-----------------------------------------------------------------------------
(***************************************************************************)
(* The characters of a text that are no line breaks, its ink.              *)
(***************************************************************************)
Ink(t)    == Where(t, Marks(t))
Character == [c \in Nat |-> IF c = 0 THEN <<>> ELSE <<c>>]

\* Where takes elements out of a sequence and adds none.
LEMMA WhereIsSeq ==
  ASSUME NEW S, NEW s \in Seq(S), NEW keep
  PROVE  Where(s, keep) \in Seq(S)
<1> DEFINE picked == [i \in DOMAIN s |-> IF i \in keep THEN <<s[i]>> ELSE <<>>]
<1>1. DOMAIN s = 1 .. Len(s) /\ Len(s) \in Nat /\ \A i \in DOMAIN s : s[i] \in S
  OBVIOUS
<1>2. \A i \in DOMAIN s : picked[i] \in Seq(S)
  BY <1>1
<1>3. picked \in Seq(Seq(S))
  BY <1>1, <1>2
<1>4. QED
  BY <1>3, FlattenIsSeq DEF Where

\* The ink of a text is the ink of its characters.
LEMMA InkIsAll ==
  /\ Character \in [Nat -> Texts]
  /\ \A t \in Texts : Ink(t) = All(Character, t)
<1>1. ASSUME NEW c \in Nat PROVE (IF c = 0 THEN <<>> ELSE <<c>>) \in Texts
  BY DEF Texts
<1>2. Character \in [Nat -> Texts]
  BY <1>1 DEF Character
<1>3. ASSUME NEW t \in Texts PROVE Ink(t) = All(Character, t)
  <2>1. \A i \in DOMAIN t : (IF i \in Marks(t) THEN <<t[i]>> ELSE <<>>) = Character[t[i]]
    BY DEF Marks, Character, Texts
  <2>2. [i \in DOMAIN t |-> IF i \in Marks(t) THEN <<t[i]>> ELSE <<>>]
          = [i \in DOMAIN t |-> Character[t[i]]]
    BY <2>1
  <2>3. QED
    BY Zenon, <2>2 DEF Ink, Where, All
<1>4. QED
  BY <1>2, <1>3

\* The ink of a text is a text.
LEMMA InkIsText ==
  ASSUME NEW t \in Texts
  PROVE  Ink(t) \in Texts
BY WhereIsSeq DEF Ink, Texts

\* The empty text has no ink.
LEMMA InkOfNone == Ink(<<>>) = <<>>
<1>1. <<>> \in Texts
  BY DEF Texts
<1>2. QED
  BY <1>1, InkIsAll, AllOfNone

\* The ink of two texts is that of the first and then that of the second.
LEMMA InkConcat ==
  ASSUME NEW t \in Texts, NEW u \in Texts
  PROVE  Ink(t \o u) = Ink(t) \o Ink(u)
<1>1. t \in Seq(Nat) /\ u \in Seq(Nat) /\ t \o u \in Texts
  BY DEF Texts
<1>2. All(Character, t \o u) = All(Character, t) \o All(Character, u)
  BY <1>1, InkIsAll, AllConcat
<1>3. QED
  BY Zenon, <1>1, <1>2, InkIsAll

\* A character adds itself to the ink, a line break nothing.
LEMMA InkAppend ==
  ASSUME NEW t \in Texts, NEW c \in Nat
  PROVE  Ink(Append(t, c)) = IF c = 0 THEN Ink(t) ELSE Append(Ink(t), c)
<1>1. t \in Seq(Nat) /\ Append(t, c) \in Texts /\ Ink(t) \in Seq(Nat)
  BY InkIsText DEF Texts
<1>2. All(Character, Append(t, c)) = All(Character, t) \o Character[c]
  BY <1>1, InkIsAll, AllAppend
<1>3. Character[c] = IF c = 0 THEN <<>> ELSE <<c>>
  BY DEF Character
<1>4. Ink(Append(t, c)) = Ink(t) \o Character[c]
  BY Zenon, <1>1, <1>2, InkIsAll
<1>5. QED
  BY <1>1, <1>3, <1>4

\* A text of line breaks only has no ink.
LEMMA InkOfBreaks ==
  ASSUME NEW t \in Texts, Marks(t) = {}
  PROVE  Ink(t) = <<>>
<1>1. t \in Seq(Nat) /\ \A i \in DOMAIN t : t[i] = 0
  BY DEF Marks, Texts
<1>2. \A i \in DOMAIN t : Character[t[i]] = <<>>
  BY <1>1 DEF Character
<1>3. All(Character, t) = <<>>
  BY <1>1, <1>2, InkIsAll, AllOfNothing
<1>4. QED
  BY <1>3, InkIsAll

-----------------------------------------------------------------------------
(***************************************************************************)
(* What strip, rstrip and the joins do to a text.                          *)
(***************************************************************************)
\* Whatever is cut off is line breaks.
LEMMA InkOfBetween ==
  ASSUME NEW t \in Texts, NEW keep \in SUBSET DOMAIN t, Marks(t) \subseteq keep
  PROVE  Ink(Between(t, keep)) = Ink(t)
<1>1. t \in Seq(Nat) /\ \A i \in DOMAIN t : i \notin keep => t[i] = 0
  BY DEF Marks, Texts
<1>2. \A i \in DOMAIN t : i \notin keep => Character[t[i]] = <<>>
  BY <1>1 DEF Character
<1>3. All(Character, Between(t, keep)) = All(Character, t)
  BY <1>1, <1>2, InkIsAll, AllOfBetween
<1>4. Between(t, keep) \in Texts
  BY <1>1, BetweenIsPart DEF Texts
<1>5. QED
  BY Zenon, <1>3, <1>4, InkIsAll

\* The characters that are no line breaks are characters of the text.
LEMMA MarksInText == \A t : Marks(t) \in SUBSET DOMAIN t
BY DEF Marks

\* str.strip loses no ink.
LEMMA StripKeepsInk ==
  ASSUME NEW t \in Texts
  PROVE  Strip(t) \in Texts /\ Len(Strip(t)) <= Len(t) /\ Ink(Strip(t)) = Ink(t)
BY MarksInText, BetweenIsPart, InkOfBetween DEF Strip, Texts

\* str.rstrip loses no ink.
LEMMA RStripKeepsInk ==
  ASSUME NEW t \in Texts
  PROVE  RStrip(t) \in Texts /\ Len(RStrip(t)) <= Len(t) /\ Ink(RStrip(t)) = Ink(t)
<1> DEFINE keep == {i \in DOMAIN t : \E j \in Marks(t) : i <= j}
<1>1. keep \in SUBSET DOMAIN t
  OBVIOUS
<1>2. Marks(t) \subseteq keep
  <2>1. \A j \in Marks(t) : j \in DOMAIN t /\ j <= j
    BY DEF Marks, Texts
  <2>2. QED
    BY <2>1
<1>3. RStrip(t) = Between(t, keep)
  BY DEF RStrip
<1> HIDE DEF keep
<1>4. QED
  BY <1>1, <1>2, <1>3, BetweenIsPart, InkOfBetween DEF Texts

\* A join loses no ink, and a text joined with none gets no longer.
LEMMA JoinBlocksKeepsInk ==
  ASSUME NEW left \in Texts, NEW right \in Texts
  PROVE  /\ JoinBlocks(left, right) \in Texts
         /\ Ink(JoinBlocks(left, right)) = Ink(left) \o Ink(right)
         /\ left = <<>> => Len(JoinBlocks(left, right)) <= Len(right)
<1>1. left \in Seq(Nat) /\ right \in Seq(Nat) /\ left \o right \in Texts
      /\ Ink(left) \in Seq(Nat) /\ Ink(right) \in Seq(Nat)
  BY InkIsText DEF Texts
<1>2. CASE left = <<>> \/ right = <<>>
  <2>1. JoinBlocks(left, right) = Strip(left \o right)
    BY <1>2 DEF JoinBlocks
  <2>2. Strip(left \o right) \in Texts /\ Len(Strip(left \o right)) <= Len(left \o right)
        /\ Ink(Strip(left \o right)) = Ink(left) \o Ink(right)
    BY <1>1, StripKeepsInk, InkConcat
  <2>3. left = <<>> => Len(left \o right) = Len(right)
    BY <1>1
  <2>4. QED
    BY <2>1, <2>2, <2>3
<1>3. CASE ~ (left = <<>> \/ right = <<>>)
  <2> DEFINE l == RStrip(left)
             r == Strip(right)
             gap == <<0, 0>>
  <2>1. JoinBlocks(left, right) = l \o gap \o r
    BY <1>3 DEF JoinBlocks
  <2>2. l \in Texts /\ r \in Texts /\ Ink(l) = Ink(left) /\ Ink(r) = Ink(right)
    BY RStripKeepsInk, StripKeepsInk
  <2>3. gap \in Texts /\ Ink(gap) = <<>>
    <3>1. gap \in Texts
      BY DEF Texts
    <3>2. Marks(gap) = {}
      BY DEF Marks
    <3>3. QED
      BY <3>1, <3>2, InkOfBreaks
  <2> HIDE DEF l, r, gap
  <2>4. l \o gap \in Texts /\ (l \o gap) \o r \in Texts
    BY <2>2, <2>3 DEF Texts
  <2>5. Ink((l \o gap) \o r) = (Ink(l) \o Ink(gap)) \o Ink(r)
    BY <2>2, <2>3, <2>4, InkConcat
  <2>6. (Ink(left) \o <<>>) \o Ink(right) = Ink(left) \o Ink(right)
    BY <1>1
  <2>7. QED
    BY <1>3, <2>1, <2>2, <2>3, <2>4, <2>5, <2>6
<1>4. QED
  BY <1>2, <1>3

-----------------------------------------------------------------------------
(***************************************************************************)
(* The ink of several texts.                                               *)
(***************************************************************************)
Inks(ts) == FlattenSeq([i \in DOMAIN ts |-> Ink(ts[i])])

InkFunction == [t \in Texts |-> Ink(t)]

\* The ink of several texts is a text of their elements.
LEMMA InksAreAll ==
  /\ InkFunction \in [Texts -> Texts]
  /\ \A t \in Texts : InkFunction[t] = Ink(t)
  /\ \A ts \in Seq(Texts) : Inks(ts) = All(InkFunction, ts)
<1>1. \A t \in Texts : Ink(t) \in Texts
  BY InkIsText
<1>2. InkFunction \in [Texts -> Texts] /\ \A t \in Texts : InkFunction[t] = Ink(t)
  BY <1>1 DEF InkFunction
<1>3. ASSUME NEW ts \in Seq(Texts) PROVE Inks(ts) = All(InkFunction, ts)
  <2>1. \A i \in DOMAIN ts : InkFunction[ts[i]] = Ink(ts[i])
    BY <1>2
  <2>2. [i \in DOMAIN ts |-> InkFunction[ts[i]]] = [i \in DOMAIN ts |-> Ink(ts[i])]
    BY <2>1
  <2>3. QED
    BY Zenon, <2>2 DEF Inks, All
<1>4. QED
  BY <1>2, <1>3

\* No texts have no ink.
LEMMA InksOfNone == Inks(<<>>) = <<>>
<1>1. <<>> \in Seq(Texts)
  OBVIOUS
<1>2. QED
  BY <1>1, InksAreAll, AllOfNone

\* The ink of several texts is a text.
LEMMA InksIsText ==
  ASSUME NEW ts \in Seq(Texts)
  PROVE  Inks(ts) \in Texts
BY InksAreAll, AllIsText

\* One more text adds its ink at the end.
LEMMA InksAppend ==
  ASSUME NEW ts \in Seq(Texts), NEW t \in Texts
  PROVE  Inks(Append(ts, t)) = Inks(ts) \o Ink(t)
<1>1. Append(ts, t) \in Seq(Texts)
  OBVIOUS
<1>2. All(InkFunction, Append(ts, t)) = All(InkFunction, ts) \o InkFunction[t]
  BY InksAreAll, AllAppend
<1>3. QED
  BY Zenon, <1>1, <1>2, InksAreAll

\* The ink of a list of one text is that of the text.
LEMMA InksOne ==
  ASSUME NEW t \in Texts
  PROVE  Inks(<<t>>) = Ink(t)
<1>1. <<t>> \in Seq(Texts)
  OBVIOUS
<1>2. All(InkFunction, <<t>>) = InkFunction[t]
  BY InksAreAll, AllOne
<1>3. QED
  BY Zenon, <1>1, <1>2, InksAreAll

\* The ink of a text put together from parts is that of the parts.
LEMMA InkOfFlatten ==
  ASSUME NEW ts \in Seq(Texts)
  PROVE  Ink(FlattenSeq(ts)) = Inks(ts)
<1> DEFINE T == {vs \in Seq(Texts) : Ink(FlattenSeq(vs)) = Inks(vs)}
<1>1. <<>> \in T
  BY FlattenEmpty, InksOfNone, InkOfNone
<1>2. ASSUME NEW vs \in Seq(Texts), NEW t \in Texts, vs \in T PROVE Append(vs, t) \in T
  <2>1. FlattenSeq(Append(vs, t)) = FlattenSeq(vs) \o t
    BY FlattenAppend DEF Texts
  <2>2. FlattenSeq(vs) \in Texts
    BY FlattenIsSeq DEF Texts
  <2>3. Ink(FlattenSeq(vs) \o t) = Ink(FlattenSeq(vs)) \o Ink(t)
    BY <2>2, InkConcat
  <2>4. Inks(Append(vs, t)) = Inks(vs) \o Ink(t)
    BY InksAppend
  <2>5. Append(vs, t) \in Seq(Texts) /\ Ink(FlattenSeq(vs)) = Inks(vs)
    BY <1>2
  <2>6. Ink(FlattenSeq(Append(vs, t))) = Inks(Append(vs, t))
    BY Zenon, <2>1, <2>3, <2>4, <2>5
  <2>7. QED
    BY <2>5, <2>6
<1>3. Seq(Texts) \subseteq T
  <2> HIDE DEF T
  <2>1. QED
    BY <1>1, <1>2, AllSequences
<1>4. QED
  BY <1>3

\* The ink of lists of texts put together is that of the lists.
LEMMA InksOfFlatten ==
  ASSUME NEW tss \in Seq(Seq(Texts))
  PROVE  Inks(FlattenSeq(tss)) = FlattenSeq([i \in DOMAIN tss |-> Inks(tss[i])])
<1>1. FlattenSeq(tss) \in Seq(Texts) /\ \A i \in DOMAIN tss : tss[i] \in Seq(Texts)
  BY FlattenIsSeq
<1>2. All(InkFunction, FlattenSeq(tss))
        = FlattenSeq([i \in DOMAIN tss |-> All(InkFunction, tss[i])])
  BY InksAreAll, AllOfFlatten
<1>3. \A i \in DOMAIN tss : All(InkFunction, tss[i]) = Inks(tss[i])
  BY <1>1, InksAreAll
<1>4. [i \in DOMAIN tss |-> All(InkFunction, tss[i])] = [i \in DOMAIN tss |-> Inks(tss[i])]
  BY <1>3
<1>5. QED
  BY Zenon, <1>1, <1>2, <1>4, InksAreAll

-----------------------------------------------------------------------------
(***************************************************************************)
(* A loop over a sequence, whose state gives a text that each round adds   *)
(* to.                                                                     *)
(***************************************************************************)
\* f[1 .. i] is the state after i rounds, and m gives its text.
Loops(f, s, A, m, g) ==
  /\ f[{}] \in A /\ m[f[{}]] = <<>>
  /\ \A i \in 1 .. Len(s) :
       f[1 .. i - 1] \in A =>
         f[1 .. i] \in A /\ m[f[1 .. i]] = m[f[1 .. i - 1]] \o g[s[i]]

\* After such a loop the measure is the text of all elements.
LEMMA LoopGives ==
  ASSUME NEW S, NEW s \in Seq(S), NEW g \in [S -> Texts],
         NEW A, NEW m \in [A -> Texts], NEW f, Loops(f, s, A, m, g)
  PROVE  f[1 .. Len(s)] \in A /\ m[f[1 .. Len(s)]] = All(g, s)
<1> DEFINE n == Len(s)
           read(i) == SubSeq(s, 1, i)
           T == {i \in 0 .. n : f[1 .. i] \in A /\ m[f[1 .. i]] = All(g, read(i))}
<1>1. n \in Nat /\ DOMAIN s = 1 .. n
  OBVIOUS
<1>2. 0 \in T
  <2>1. 1 .. 0 = {} /\ read(0) = <<>> /\ 0 \in 0 .. n
    BY <1>1
  <2> HIDE DEF read
  <2>2. QED
    BY <2>1, AllOfNone DEF Loops
<1>3. ASSUME NEW i \in 0 .. n - 1, i \in T PROVE i + 1 \in T
  <2>1. i + 1 \in 1 .. n /\ (i + 1) - 1 = i /\ i + 1 \in 0 .. n
    BY <1>1
  <2>2. read(i) \in Seq(S) /\ s[i + 1] \in S /\ read(i + 1) = Append(read(i), s[i + 1])
    BY <1>1, <2>1
  <2> HIDE DEF read
  <2>3. f[1 .. i] \in A /\ m[f[1 .. i]] = All(g, read(i))
    BY <1>3
  <2>4. f[1 .. i + 1] \in A /\ m[f[1 .. i + 1]] = m[f[1 .. i]] \o g[s[i + 1]]
    BY <2>1, <2>3 DEF Loops
  <2>5. All(g, read(i + 1)) = All(g, read(i)) \o g[s[i + 1]]
    <3> HIDE DEF T, n
    <3>1. PICK r, e : r = read(i) /\ e = s[i + 1]
      OBVIOUS
    <3>2. r \in Seq(S) /\ e \in S /\ read(i + 1) = Append(r, e)
      BY <2>2, <3>1
    <3>3. All(g, Append(r, e)) = All(g, r) \o g[e]
      BY <3>2, AllAppend
    <3>4. QED
      BY Zenon, <3>1, <3>2, <3>3
  <2>6. QED
    BY <2>1, <2>3, <2>4, <2>5
<1>4. n \in T
  <2>1. n \in 0 .. n
    BY <1>1
  <2> HIDE DEF T, n
  <2>2. QED
    BY <1>1, <1>2, <1>3, <2>1, UpTo
<1>5. read(n) = s
  BY <1>1, SubSeqFull
<1> HIDE DEF read
<1>6. QED
  BY <1>4, <1>5

-----------------------------------------------------------------------------
(***************************************************************************)
(* Packing the parts of a text.                                            *)
(***************************************************************************)
Packed == [out : Seq(Texts), text : Texts]
NonePacked == [out |-> <<>>, text |-> <<>>]

\* An empty text that is not kept had no ink.
LEMMA KeptKeepsInk ==
  ASSUME NEW out \in Seq(Texts), NEW text \in Texts
  PROVE  Kept(out, text) \in Seq(Texts) /\ Inks(Kept(out, text)) = Inks(out) \o Ink(text)
<1>1. CASE text = <<>>
  <2>1. Inks(out) \in Seq(Nat)
    BY InksIsText DEF Texts
  <2>2. Inks(out) \o <<>> = Inks(out)
    BY <2>1
  <2>3. QED
    BY <1>1, <2>2, InkOfNone DEF Kept
<1>2. CASE text # <<>>
  <2>1. Kept(out, text) = Append(out, text)
    BY <1>2 DEF Kept
  <2>2. Append(out, text) \in Seq(Texts)
    OBVIOUS
  <2>3. QED
    BY <2>1, <2>2, InksAppend
<1>3. QED
  BY <1>1, <1>2

\* A round of the packing adds the ink of its atom.
LEMMA PackAtomKeepsInk ==
  ASSUME NEW acc \in Packed, NEW atom \in Texts
  PROVE  LET new == PackAtom(acc, atom)
         IN /\ new \in Packed
            /\ Inks(new.out) \o Ink(new.text) = (Inks(acc.out) \o Ink(acc.text)) \o Ink(atom)
<1> DEFINE joined == JoinBlocks(acc.text, atom)
           new == PackAtom(acc, atom)
<1>1. acc.out \in Seq(Texts) /\ acc.text \in Texts
  BY DEF Packed
<1>2. joined \in Texts /\ Ink(joined) = Ink(acc.text) \o Ink(atom)
  BY <1>1, JoinBlocksKeepsInk
<1>3. Inks(acc.out) \in Seq(Nat) /\ Ink(acc.text) \in Seq(Nat) /\ Ink(atom) \in Seq(Nat)
  BY <1>1, InksIsText, InkIsText DEF Texts
<1>4. CASE acc.text # <<>> /\ Len(joined) > MaxSize
  <2>1. new = [out |-> Append(acc.out, acc.text), text |-> atom]
    BY <1>4 DEF PackAtom
  <2>2. Append(acc.out, acc.text) \in Seq(Texts)
    BY <1>1
  <2>3. Inks(Append(acc.out, acc.text)) = Inks(acc.out) \o Ink(acc.text)
    BY <1>1, InksAppend
  <2> HIDE DEF new
  <2>4. new \in Packed /\ new.out = Append(acc.out, acc.text) /\ new.text = atom
    BY <2>1, <2>2 DEF Packed
  <2>5. new \in Packed
        /\ Inks(new.out) \o Ink(new.text) = (Inks(acc.out) \o Ink(acc.text)) \o Ink(atom)
    BY <2>3, <2>4
  <2>6. QED
    BY <2>5 DEF new
<1>5. CASE ~ (acc.text # <<>> /\ Len(joined) > MaxSize)
  <2>1. new = [acc EXCEPT !.text = joined]
    BY <1>5 DEF PackAtom
  <2> HIDE DEF joined
  <2>2. new \in Packed /\ new.out = acc.out /\ new.text = joined
    BY <1>2, <2>1 DEF Packed
  <2>3. Inks(acc.out) \o (Ink(acc.text) \o Ink(atom))
          = (Inks(acc.out) \o Ink(acc.text)) \o Ink(atom)
    BY <1>3, ConcatAssociative
  <2>4. QED
    BY <1>2, <2>2, <2>3
<1>6. QED
  BY <1>4, <1>5

InkOfPacked == [acc \in Packed |-> Inks(acc.out) \o Ink(acc.text)]

\* What has been packed has an ink; at the start there is none.
LEMMA InkOfPackedIsText ==
  /\ InkOfPacked \in [Packed -> Texts]
  /\ \A acc \in Packed : InkOfPacked[acc] = Inks(acc.out) \o Ink(acc.text)
  /\ NonePacked \in Packed /\ InkOfPacked[NonePacked] = <<>>
<1>1. ASSUME NEW acc \in Packed PROVE Inks(acc.out) \o Ink(acc.text) \in Texts
  <2>1. acc.out \in Seq(Texts) /\ acc.text \in Texts
    BY DEF Packed
  <2>2. Inks(acc.out) \in Seq(Nat) /\ Ink(acc.text) \in Seq(Nat)
    BY <2>1, InksIsText, InkIsText DEF Texts
  <2>3. QED
    BY <2>2 DEF Texts
<1>2. NonePacked \in Packed /\ NonePacked.out = <<>> /\ NonePacked.text = <<>>
  BY DEF NonePacked, Packed, Texts
<1>3. Inks(NonePacked.out) \o Ink(NonePacked.text) = <<>>
  <2>1. <<>> \o <<>> = <<>>
    OBVIOUS
  <2>2. QED
    BY Zenon, <1>2, <2>1, InksOfNone, InkOfNone
<1>4. QED
  BY <1>1, <1>2, <1>3 DEF InkOfPacked

\* The pieces that _pack_pattern_splits packs hold all of its atoms.
LEMMA PackKeepsInk ==
  ASSUME NEW atoms \in Seq(Texts)
  PROVE  Pack(atoms) \in Seq(Texts) /\ Inks(Pack(atoms)) = Inks(atoms)
<1> DEFINE n == Len(atoms)
           step == [i \in 1 .. n |-> [acc \in Packed |-> PackAtom(acc, atoms[i])]]
           Fold(f) == f = [s \in SUBSET DOMAIN atoms |->
                             IF s = {} THEN NonePacked
                             ELSE PackAtom(f[s \ {Max(s)}], atoms[Max(s)])]
           f == CHOOSE f : Fold(f)
<1>1. n \in Nat /\ DOMAIN atoms = 1 .. n /\ \A i \in 1 .. n : atoms[i] \in Texts
  OBVIOUS
<1>2. step \in [1 .. n -> [Packed -> Packed]] /\ NonePacked \in Packed
  <2>1. ASSUME NEW i \in 1 .. n, NEW acc \in Packed PROVE PackAtom(acc, atoms[i]) \in Packed
    BY <1>1, PackAtomKeepsInk
  <2>2. NonePacked \in Packed
    BY DEF NonePacked, Packed, Texts
  <2>3. QED
    BY <2>1, <2>2
<1>3. PICK g \in [SUBSET (1 .. n) -> Packed] : Folds(g, n, NonePacked, step)
  <2> HIDE DEF n, step
  <2>1. QED
    BY <1>1, <1>2, FoldExists
<1>4. Fold(g)
  <2>1. ASSUME NEW s \in SUBSET (1 .. n)
        PROVE  g[s] = IF s = {} THEN NonePacked
                      ELSE PackAtom(g[s \ {Max(s)}], atoms[Max(s)])
    <3>1. CASE s = {}
      BY <1>3, <3>1 DEF Folds
    <3>2. CASE s # {}
      <4>1. Max(s) \in 1 .. n /\ s \ {Max(s)} \in SUBSET (1 .. n)
        BY <1>1, <3>2, MaxOf
      <4>2. g[s] = step[Max(s)][g[s \ {Max(s)}]]
        BY Zenon, <1>3, <3>2 DEF Folds
      <4>3. g[s \ {Max(s)}] \in Packed
        BY <4>1
      <4>4. QED
        BY <3>2, <4>1, <4>2, <4>3
    <3>3. QED
      BY <3>1, <3>2
  <2>2. QED
    BY <1>1, <1>3, <2>1 DEF Folds
<1>5. Fold(f)
  BY <1>4
<1>6. Pack(atoms) = Kept(f[DOMAIN atoms].out, f[DOMAIN atoms].text)
  BY Zenon DEF Pack, FoldLeft, MapThenFoldSet, NonePacked
<1>7. f[{}] = NonePacked
  <2>1. {} \in SUBSET DOMAIN atoms
    OBVIOUS
  <2>2. QED
    BY Zenon, <1>5, <2>1
<1>8. ASSUME NEW i \in 1 .. n PROVE f[1 .. i] = PackAtom(f[1 .. i - 1], atoms[i])
  <2>1. Max(1 .. i) = i /\ (1 .. i) \ {Max(1 .. i)} = 1 .. i - 1
    BY <1>1, PrefixPositions
  <2>2. 1 .. i \in SUBSET DOMAIN atoms /\ 1 .. i # {}
    BY Zenon, <1>1, PrefixPositions
  <2>3. f[1 .. i] = PackAtom(f[(1 .. i) \ {Max(1 .. i)}], atoms[Max(1 .. i)])
    BY Zenon, <1>5, <2>2
  <2>4. QED
    BY Zenon, <2>1, <2>3
<1> HIDE DEF f, Fold
<1>9. f[1 .. n] \in Packed /\ InkOfPacked[f[1 .. n]] = All(InkFunction, atoms)
  <2>1. f[{}] \in Packed /\ InkOfPacked[f[{}]] = <<>>
    BY <1>7, InkOfPackedIsText
  <2>2. ASSUME NEW i \in 1 .. Len(atoms), f[1 .. i - 1] \in Packed
        PROVE  /\ f[1 .. i] \in Packed
               /\ InkOfPacked[f[1 .. i]] = InkOfPacked[f[1 .. i - 1]] \o InkFunction[atoms[i]]
    <3>1. PICK acc, atom : acc = f[1 .. i - 1] /\ atom = atoms[i]
      OBVIOUS
    <3>2. acc \in Packed /\ atom \in Texts
      BY <1>1, <2>2, <3>1
    <3>3. /\ PackAtom(acc, atom) \in Packed
          /\ InkOfPacked[PackAtom(acc, atom)] = InkOfPacked[acc] \o Ink(atom)
      BY <3>2, PackAtomKeepsInk, InkOfPackedIsText
    <3>4. f[1 .. i] = PackAtom(acc, atom) /\ InkFunction[atom] = Ink(atom)
      BY <1>8, <3>1, <3>2, InksAreAll
    <3>5. QED
      BY Zenon, <3>1, <3>3, <3>4
  <2>3. Loops(f, atoms, Packed, InkOfPacked, InkFunction)
    BY <2>1, <2>2 DEF Loops
  <2>4. QED
    BY <2>3, InksAreAll, InkOfPackedIsText, LoopGives
<1>10. QED
  <2>1. f[DOMAIN atoms] = f[1 .. n]
    BY <1>1
  <2>2. PICK acc : acc = f[1 .. n]
    OBVIOUS
  <2>3. acc \in Packed /\ Inks(acc.out) \o Ink(acc.text) = Inks(atoms)
    BY <1>9, <2>2, InksAreAll, InkOfPackedIsText
  <2>4. acc.out \in Seq(Texts) /\ acc.text \in Texts
    BY <2>3 DEF Packed
  <2>5. QED
    BY <1>6, <2>1, <2>2, <2>3, <2>4, KeptKeepsInk

\* A boundary pattern matches line breaks and nothing else.
LEMMA BoundaryIsBreaks ==
  ASSUME NEW t, NEW pattern \in 1 .. 3
  PROVE  Boundary(t, pattern) \in SUBSET (DOMAIN t \ Marks(t))
<1>1. pattern = 1 \/ pattern = 2 \/ pattern = 3
  OBVIOUS
<1>2. CASE pattern = 1
  BY <1>2 DEF Boundary
<1>3. CASE pattern = 2
  BY <1>3 DEF Boundary
<1>4. CASE pattern = 3
  BY <1>4 DEF Boundary
<1>5. QED
  BY <1>1, <1>2, <1>3, <1>4

ReadAt(t, cut, acc, i) ==
  IF i \in cut THEN [out |-> Kept(acc.out, acc.text), text |-> <<>>]
  ELSE [acc EXCEPT !.text = Append(@, t[i])]

\* A round of the splitting adds the ink of its character.
LEMMA ReadAtKeepsInk ==
  ASSUME NEW t \in Texts, NEW cut \in SUBSET (DOMAIN t \ Marks(t)),
         NEW acc \in Packed, NEW i \in DOMAIN t
  PROVE  /\ ReadAt(t, cut, acc, i) \in Packed
         /\ Inks(ReadAt(t, cut, acc, i).out) \o Ink(ReadAt(t, cut, acc, i).text)
              = (Inks(acc.out) \o Ink(acc.text))
                  \o (IF t[i] = 0 THEN <<>> ELSE <<t[i]>>)
<1> DEFINE new == ReadAt(t, cut, acc, i)
           ink == IF t[i] = 0 THEN <<>> ELSE <<t[i]>>
<1>1. acc.out \in Seq(Texts) /\ acc.text \in Texts /\ t[i] \in Nat
  BY DEF Packed, Texts
<1>2. /\ Inks(acc.out) \in Seq(Nat) /\ Ink(acc.text) \in Seq(Nat) /\ ink \in Seq(Nat)
      /\ Inks(acc.out) \o Ink(acc.text) \in Seq(Nat)
  BY <1>1, InksIsText, InkIsText DEF Texts
<1>3. CASE i \in cut
  <2>1. t[i] = 0
    BY <1>3 DEF Marks
  <2>2. Kept(acc.out, acc.text) \in Seq(Texts)
        /\ Inks(Kept(acc.out, acc.text)) = Inks(acc.out) \o Ink(acc.text)
    BY <1>1, KeptKeepsInk
  <2>3. new = [out |-> Kept(acc.out, acc.text), text |-> <<>>]
    BY <1>3 DEF ReadAt
  <2> HIDE DEF new
  <2>4. new \in Packed /\ new.out = Kept(acc.out, acc.text) /\ new.text = <<>>
    BY <2>2, <2>3 DEF Packed, Texts
  <2>5. Inks(new.out) \o Ink(new.text) = (Inks(acc.out) \o Ink(acc.text)) \o <<>>
    BY <2>2, <2>4, InkOfNone
  <2>6. QED
    BY <2>1, <2>4, <2>5 DEF new
<1>4. CASE i \notin cut
  <2>1. new = [acc EXCEPT !.text = Append(@, t[i])]
    BY <1>4 DEF ReadAt
  <2> HIDE DEF new
  <2>2. new \in Packed /\ new.out = acc.out /\ new.text = Append(acc.text, t[i])
    <3>1. Append(acc.text, t[i]) \in Texts
      BY <1>1 DEF Texts
    <3>2. acc = [out |-> acc.out, text |-> acc.text]
      BY DEF Packed
    <3>3. new = [out |-> acc.out, text |-> Append(acc.text, t[i])]
      BY <2>1, <3>2
    <3>4. QED
      BY <1>1, <3>1, <3>3 DEF Packed
  <2>3. Ink(Append(acc.text, t[i])) = Ink(acc.text) \o ink
    <3>1. Ink(Append(acc.text, t[i]))
            = IF t[i] = 0 THEN Ink(acc.text) ELSE Append(Ink(acc.text), t[i])
      BY <1>1, InkAppend
    <3>2. Ink(acc.text) \o <<>> = Ink(acc.text)
          /\ Append(Ink(acc.text), t[i]) = Ink(acc.text) \o <<t[i]>>
      BY <1>1, <1>2
    <3>3. QED
      BY <3>1, <3>2
  <2>4. Inks(acc.out) \o (Ink(acc.text) \o ink) = (Inks(acc.out) \o Ink(acc.text)) \o ink
    BY <1>2, ConcatAssociative
  <2>5. Inks(new.out) \o Ink(new.text) = (Inks(acc.out) \o Ink(acc.text)) \o ink
    BY <2>2, <2>3, <2>4
  <2>6. QED
    BY <2>2, <2>5 DEF new
<1>5. QED
  BY <1>3, <1>4

\* Splitting at a boundary pattern loses no ink.
LEMMA AtomsKeepInk ==
  ASSUME NEW t \in Texts, NEW pattern \in 1 .. 3
  PROVE  Atoms(t, pattern) \in Seq(Texts) /\ Inks(Atoms(t, pattern)) = Ink(t)
<1> DEFINE n == Len(t)
           cut == Boundary(t, pattern)
           step == [i \in 1 .. n |-> [acc \in Packed |-> ReadAt(t, cut, acc, i)]]
           all == [i \in DOMAIN t |-> i]
           Fold(f) == f = [s \in SUBSET DOMAIN all |->
                             IF s = {} THEN NonePacked
                             ELSE ReadAt(t, cut, f[s \ {Max(s)}], all[Max(s)])]
           f == CHOOSE f : Fold(f)
<1>1. n \in Nat /\ DOMAIN t = 1 .. n /\ DOMAIN all = 1 .. n /\ t \in Seq(Nat)
      /\ \A i \in 1 .. n : all[i] = i
  BY DEF Texts
<1>2. step \in [1 .. n -> [Packed -> Packed]] /\ NonePacked \in Packed
  <2>1. ASSUME NEW i \in 1 .. n, NEW acc \in Packed PROVE ReadAt(t, cut, acc, i) \in Packed
    BY <1>1, BoundaryIsBreaks, ReadAtKeepsInk
  <2>2. NonePacked \in Packed
    BY DEF NonePacked, Packed, Texts
  <2>3. QED
    BY <2>1, <2>2
<1>3. PICK g \in [SUBSET (1 .. n) -> Packed] : Folds(g, n, NonePacked, step)
  <2> HIDE DEF n, step
  <2>1. QED
    BY <1>1, <1>2, FoldExists
<1>4. Fold(g)
  <2>1. ASSUME NEW s \in SUBSET (1 .. n)
        PROVE  g[s] = IF s = {} THEN NonePacked
                      ELSE ReadAt(t, cut, g[s \ {Max(s)}], all[Max(s)])
    <3>1. CASE s = {}
      BY <1>3, <3>1 DEF Folds
    <3>2. CASE s # {}
      <4>1. Max(s) \in 1 .. n /\ s \ {Max(s)} \in SUBSET (1 .. n)
        BY <1>1, <3>2, MaxOf
      <4>2. g[s] = step[Max(s)][g[s \ {Max(s)}]]
        BY Zenon, <1>3, <3>2 DEF Folds
      <4>3. g[s \ {Max(s)}] \in Packed /\ all[Max(s)] = Max(s)
        BY <1>1, <4>1
      <4> HIDE DEF cut, all
      <4>4. QED
        BY <3>2, <4>1, <4>2, <4>3
    <3>3. QED
      BY <3>1, <3>2
  <2> HIDE DEF all, cut, n
  <2>2. QED
    BY <1>1, <1>3, <2>1 DEF Folds
<1>5. Fold(f)
  BY <1>4
<1>6. Atoms(t, pattern) = Kept(f[DOMAIN all].out, f[DOMAIN all].text)
  BY Zenon DEF Atoms, FoldLeftDomain, FoldLeft, MapThenFoldSet, NonePacked, ReadAt
<1>7. f[{}] = NonePacked
  <2>1. {} \in SUBSET DOMAIN all
    OBVIOUS
  <2>2. QED
    BY Zenon, <1>5, <2>1
<1>8. ASSUME NEW i \in 1 .. n PROVE f[1 .. i] = ReadAt(t, cut, f[1 .. i - 1], i)
  <2>1. Max(1 .. i) = i /\ (1 .. i) \ {Max(1 .. i)} = 1 .. i - 1
    BY <1>1, PrefixPositions
  <2>2. 1 .. i \in SUBSET DOMAIN all /\ 1 .. i # {}
    BY Zenon, <1>1, PrefixPositions
  <2>3. f[1 .. i] = ReadAt(t, cut, f[(1 .. i) \ {Max(1 .. i)}], all[Max(1 .. i)])
    BY Zenon, <1>5, <2>2
  <2>4. all[i] = i
    BY <1>1
  <2>5. QED
    BY Zenon, <2>1, <2>3, <2>4
<1> HIDE DEF f, Fold, all
<1>9. f[1 .. n] \in Packed /\ InkOfPacked[f[1 .. n]] = All(Character, t)
  <2>1. f[{}] \in Packed /\ InkOfPacked[f[{}]] = <<>>
    BY <1>7, InkOfPackedIsText
  <2>2. ASSUME NEW i \in 1 .. Len(t), f[1 .. i - 1] \in Packed
        PROVE  /\ f[1 .. i] \in Packed
               /\ InkOfPacked[f[1 .. i]] = InkOfPacked[f[1 .. i - 1]] \o Character[t[i]]
    <3>1. PICK acc : acc = f[1 .. i - 1]
      OBVIOUS
    <3>2. acc \in Packed /\ i \in DOMAIN t /\ t[i] \in Nat
      BY <1>1, <2>2, <3>1
    <3>3. cut \in SUBSET (DOMAIN t \ Marks(t))
      BY BoundaryIsBreaks
    <3> HIDE DEF cut
    <3>4. /\ ReadAt(t, cut, acc, i) \in Packed
          /\ InkOfPacked[ReadAt(t, cut, acc, i)]
               = InkOfPacked[acc] \o (IF t[i] = 0 THEN <<>> ELSE <<t[i]>>)
      <4>1. /\ ReadAt(t, cut, acc, i) \in Packed
            /\ Inks(ReadAt(t, cut, acc, i).out) \o Ink(ReadAt(t, cut, acc, i).text)
                 = (Inks(acc.out) \o Ink(acc.text))
                     \o (IF t[i] = 0 THEN <<>> ELSE <<t[i]>>)
        BY <3>2, <3>3, ReadAtKeepsInk
      <4>2. QED
        BY <3>2, <4>1, InkOfPackedIsText
    <3>5. Character[t[i]] = IF t[i] = 0 THEN <<>> ELSE <<t[i]>>
      BY <3>2 DEF Character
    <3>6. f[1 .. i] = ReadAt(t, cut, acc, i)
      BY <1>8, <3>1
    <3>7. QED
      BY Zenon, <3>1, <3>4, <3>5, <3>6
  <2>3. Loops(f, t, Packed, InkOfPacked, Character)
    BY <2>1, <2>2 DEF Loops
  <2>4. t \in Seq(Nat) /\ Character \in [Nat -> Texts] /\ InkOfPacked \in [Packed -> Texts]
    BY InkIsAll, InkOfPackedIsText DEF Texts
  <2>5. f[1 .. n] \in Packed /\ InkOfPacked[f[1 .. n]] = All(Character, t)
    BY <2>3, <2>4, LoopGives
  <2>6. QED
    BY <2>5
<1>10. QED
  <2>1. f[DOMAIN all] = f[1 .. n]
    BY <1>1
  <2>2. PICK acc : acc = f[1 .. n]
    OBVIOUS
  <2>3. acc \in Packed /\ Inks(acc.out) \o Ink(acc.text) = Ink(t)
    BY <1>9, <2>2, InkIsAll, InkOfPackedIsText
  <2>4. acc.out \in Seq(Texts) /\ acc.text \in Texts
    BY <2>3 DEF Packed
  <2>5. QED
    BY <1>6, <2>1, <2>2, <2>3, <2>4, KeptKeepsInk

-----------------------------------------------------------------------------
(***************************************************************************)
(* Cutting a text that is too long.                                        *)
(***************************************************************************)
\* A pattern cuts a text at line breaks, or leaves it as it is.
LEMMA PackPatternKeepsInk ==
  ASSUME NEW t \in Texts, NEW pattern \in 1 .. 3
  PROVE  PackPattern(t, pattern) \in Seq(Texts) /\ Inks(PackPattern(t, pattern)) = Ink(t)
<1>1. CASE Len(t) <= MaxSize \/ Len(Atoms(t, pattern)) <= 1
  <2>1. PackPattern(t, pattern) = <<t>>
    BY <1>1 DEF PackPattern
  <2>2. <<t>> \in Seq(Texts)
    OBVIOUS
  <2>3. QED
    BY <2>1, <2>2, InksOne
<1>2. CASE ~ (Len(t) <= MaxSize \/ Len(Atoms(t, pattern)) <= 1)
  <2>1. PackPattern(t, pattern) = Pack(Atoms(t, pattern))
    BY <1>2 DEF PackPattern
  <2>2. QED
    BY <2>1, AtomsKeepInk, PackKeepsInk
<1>3. QED
  BY <1>1, <1>2

\* Each piece is replaced by pieces with its ink.
LEMMA FlattenKeepsInk ==
  ASSUME NEW ts \in Seq(Texts), NEW parts, parts = [i \in DOMAIN ts |-> parts[i]],
         \A i \in DOMAIN ts : parts[i] \in Seq(Texts) /\ Inks(parts[i]) = Ink(ts[i])
  PROVE  FlattenSeq(parts) \in Seq(Texts) /\ Inks(FlattenSeq(parts)) = Inks(ts)
<1>1. DOMAIN ts = 1 .. Len(ts) /\ Len(ts) \in Nat
  OBVIOUS
<1>2. parts \in Seq(Seq(Texts)) /\ DOMAIN parts = DOMAIN ts
  <2>1. parts \in [1 .. Len(ts) -> Seq(Texts)]
    BY <1>1
  <2>2. QED
    BY <1>1, <2>1
<1>3. [i \in DOMAIN parts |-> Inks(parts[i])] = [i \in DOMAIN ts |-> Ink(ts[i])]
  BY <1>2
<1>4. Inks(FlattenSeq(parts)) = FlattenSeq([i \in DOMAIN parts |-> Inks(parts[i])])
  BY <1>2, InksOfFlatten
<1>5. FlattenSeq(parts) \in Seq(Texts)
  BY <1>2, FlattenIsSeq
<1>6. QED
  BY Zenon, <1>3, <1>4, <1>5 DEF Inks

\* A pass of _split_text_by_boundaries loses no ink.
LEMMA RefineKeepsInk ==
  ASSUME NEW ts \in Seq(Texts), NEW pattern \in 1 .. 3
  PROVE  Refine(ts, pattern) \in Seq(Texts) /\ Inks(Refine(ts, pattern)) = Inks(ts)
<1> DEFINE parts == [i \in DOMAIN ts |-> PackPattern(ts[i], pattern)]
<1>1. \A i \in DOMAIN ts : parts[i] \in Seq(Texts) /\ Inks(parts[i]) = Ink(ts[i])
  BY PackPatternKeepsInk
<1>2. parts = [i \in DOMAIN ts |-> parts[i]]
  OBVIOUS
<1>3. Refine(ts, pattern) = FlattenSeq(parts)
  BY DEF Refine
<1> HIDE DEF parts
<1>4. QED
  BY <1>1, <1>2, <1>3, FlattenKeepsInk

\* The smaller of two numbers.
LEMMA MinOfTwo ==
  ASSUME NEW x \in Nat, NEW y \in Nat
  PROVE  Min({x, y}) = IF x <= y THEN x ELSE y
<1> DEFINE m == IF x <= y THEN x ELSE y
<1>1. m \in {x, y} /\ \A z \in {x, y} : m <= z
  OBVIOUS
<1>2. Min({x, y}) \in {x, y} /\ \A z \in {x, y} : Min({x, y}) <= z
  <2>1. \E u \in {x, y} : \A z \in {x, y} : u =< z
    BY <1>1
  <2> HIDE DEF m
  <2>2. QED
    BY <2>1 DEF Min
<1>3. QED
  BY <1>1, <1>2

\* The number of pieces of size m that n characters make.
LEMMA Pieces ==
  ASSUME NEW n \in Nat, NEW m \in Nat \ {0}
  PROVE  /\ (n + m - 1) \div m \in Nat
         /\ n <= ((n + m - 1) \div m) * m
         /\ \A i \in Nat : i < (n + m - 1) \div m => i * m < n
<1> DEFINE s == n + m - 1
           q == s \div m
<1>1. s \in Nat
  OBVIOUS
<1>2. q \in Nat /\ q * m <= s /\ s < q * m + m
  OBVIOUS
<1>3. n <= q * m
  <2>1. PICK p : p = q * m
    OBVIOUS
  <2>2. p \in Nat
    BY <1>2, <2>1
  <2> HIDE DEF q
  <2>3. QED
    BY <1>2, <2>1, <2>2
<1>4. ASSUME NEW i \in Nat, i < q PROVE i * m < n
  <2>1. (i + 1) * m <= q * m
    <3> HIDE DEF q
    <3>1. PICK d \in Nat : q = (i + 1) + d
      <4>1. q - (i + 1) \in Nat /\ q = (i + 1) + (q - (i + 1))
        BY <1>2, <1>4
      <4>2. QED
        BY <4>1
    <3>2. q * m = (i + 1) * m + d * m
      BY <3>1
    <3>3. d * m \in Nat /\ (i + 1) * m \in Nat
      OBVIOUS
    <3>4. QED
      BY <3>2, <3>3
  <2>2. (i + 1) * m = i * m + m
    OBVIOUS
  <2>3. QED
    BY <1>2, <2>1, <2>2
<1>5. QED
  BY <1>2, <1>3, <1>4

\* The pieces of a hard cut are not longer than the limit, and no character is
\* lost at a cut.
LEMMA HardCutKeepsInk ==
  ASSUME NEW t \in Texts
  PROVE  /\ HardCut(t) \in Seq(Texts)
         /\ \A i \in DOMAIN HardCut(t) : Len(HardCut(t)[i]) <= MaxSize
         /\ Inks(HardCut(t)) = Ink(t)
<1> USE SizesAssumption
<1> DEFINE n == Len(t)
           m == MaxSize
           q == (n + m - 1) \div m
           end(i) == Min({i * m, n})
           piece(i) == SubSeq(t, (i - 1) * m + 1, end(i))
           pieces == [i \in 1 .. q |-> piece(i)]
           read(i) == SubSeq(pieces, 1, i)
<1>1. n \in Nat /\ t \in Seq(Nat) /\ m \in Nat /\ m # 0 /\ HardCut(t) = pieces
  BY DEF Texts, HardCut
<1>2. q \in Nat /\ n <= q * m /\ \A i \in Nat : i < q => i * m < n
  <2> HIDE DEF n, m
  <2>1. m \in Nat \ {0}
    BY <1>1
  <2>2. QED
    BY <1>1, <2>1, Pieces
<1> HIDE DEF n, m, q
<1>3. ASSUME NEW i \in 1 .. q
      PROVE  /\ i - 1 \in Nat /\ (i - 1) * m \in Nat /\ i * m = (i - 1) * m + m
             /\ (i - 1) * m < n /\ end(i - 1) = (i - 1) * m
             /\ end(i) \in (i - 1) * m + 1 .. n /\ end(i) <= (i - 1) * m + m
  <2>1. i - 1 \in Nat /\ i - 1 < q /\ i \in Nat
    BY <1>2
  <2>2. (i - 1) * m < n
    BY <1>2, <2>1
  <2>3. (i - 1) * m \in Nat /\ i * m = (i - 1) * m + m /\ i * m \in Nat
    BY <1>1, <2>1
  <2>4. end(i - 1) = (i - 1) * m
    <3>1. PICK x : x = (i - 1) * m
      OBVIOUS
    <3>2. x \in Nat /\ x < n
      BY <2>2, <2>3, <3>1
    <3>3. Min({x, n}) = x
      BY <1>1, <3>2, MinOfTwo
    <3>4. QED
      BY <3>1, <3>3
  <2>5. end(i) = IF i * m <= n THEN i * m ELSE n
    BY <1>1, <2>3, MinOfTwo
  <2>6. PICK x, y : x = (i - 1) * m /\ y = i * m
    OBVIOUS
  <2> HIDE DEF end
  <2>7. end(i) \in x + 1 .. n /\ end(i) <= x + m
    BY <1>1, <2>2, <2>3, <2>5, <2>6
  <2>8. QED
    BY <2>1, <2>2, <2>3, <2>4, <2>6, <2>7
<1>4. ASSUME NEW i \in 1 .. q
      PROVE  piece(i) \in Seq(Nat) /\ Len(piece(i)) <= m
  <2>1. PICK x : x = (i - 1) * m
    OBVIOUS
  <2>2. x \in Nat /\ end(i) \in x + 1 .. n /\ end(i) <= x + m
    BY <1>3, <2>1
  <2>3. piece(i) = SubSeq(t, x + 1, end(i))
    BY <2>1
  <2> HIDE DEF end, piece
  <2>4. SubSeq(t, x + 1, end(i)) \in Seq(Nat)
        /\ Len(SubSeq(t, x + 1, end(i))) = end(i) - (x + 1) + 1
    BY <1>1, <2>2 DEF n
  <2>5. QED
    BY <1>1, <2>2, <2>3, <2>4
<1>5. pieces \in Seq(Texts) /\ Len(pieces) = q /\ DOMAIN pieces = 1 .. q
  <2> HIDE DEF piece
  <2>1. \A i \in 1 .. q : piece(i) \in Texts
    BY <1>4 DEF Texts
  <2>2. QED
    BY <1>2, <2>1
<1>6. FlattenSeq(pieces) = t
  <2> DEFINE T == {i \in 0 .. q : FlattenSeq(read(i)) = SubSeq(t, 1, end(i))}
  <2>1. 0 \in T
    <3>1. read(0) = <<>> /\ 0 \in 0 .. q
      BY <1>2, <1>5
    <3>2. end(0) = 0
      <4>1. 0 * m = 0 /\ 0 \in Nat
        BY <1>1
      <4>2. QED
        BY <1>1, <4>1, MinOfTwo
    <3>3. SubSeq(t, 1, 0) = <<>>
      BY <1>1
    <3> HIDE DEF read, end
    <3>4. QED
      BY <3>1, <3>2, <3>3, FlattenEmpty
  <2>2. ASSUME NEW i \in 0 .. q - 1, i \in T PROVE i + 1 \in T
    <3>1. i + 1 \in 1 .. q /\ (i + 1) - 1 = i /\ i + 1 \in 0 .. q
      BY <1>2
    <3> HIDE DEF piece
    <3>2. pieces[i + 1] = piece(i + 1)
      BY <3>1
    <3> HIDE DEF pieces
    <3>3. read(i) \in Seq(Texts) /\ read(i + 1) = Append(read(i), pieces[i + 1])
      BY <1>2, <1>5, <3>1
    <3> HIDE DEF read
    <3>4. pieces[i + 1] \in Seq(Nat)
      BY <1>4, <3>1, <3>2
    <3>5. FlattenSeq(read(i + 1)) = FlattenSeq(read(i)) \o pieces[i + 1]
      BY <3>3, <3>4, FlattenAppend DEF Texts
    <3>6. PICK x : x = i * m
      OBVIOUS
    <3>7. x \in Nat /\ x < n /\ end(i) = x /\ end(i + 1) \in x + 1 .. n
      <4> HIDE DEF end
      <4>1. QED
        BY <1>3, <3>1, <3>6
    <3>8. piece(i + 1) = SubSeq(t, x + 1, end(i + 1))
      BY <3>1, <3>6 DEF piece
    <3> HIDE DEF end
    <3>9. SubSeq(t, 1, x) \o SubSeq(t, x + 1, end(i + 1)) = SubSeq(t, 1, end(i + 1))
      <4>1. 1 \in 1 .. Len(t) + 1 /\ x \in 1 - 1 .. Len(t) /\ end(i + 1) \in x .. Len(t)
        BY <1>1, <3>7 DEF n
      <4>2. QED
        BY <1>1, <4>1, ConcatAdjacentSubSeq
    <3>10. FlattenSeq(read(i)) = SubSeq(t, 1, x)
      BY <2>2, <3>7
    <3>11. FlattenSeq(read(i + 1)) = SubSeq(t, 1, end(i + 1))
      BY Zenon, <3>2, <3>5, <3>8, <3>9, <3>10
    <3>12. QED
      BY <3>1, <3>11
  <2>3. q \in T
    <3>1. q \in 0 .. q
      BY <1>2
    <3> HIDE DEF T
    <3>2. QED
      BY <1>2, <2>1, <2>2, <3>1, UpTo
  <2>4. end(q) = n
    <3>1. q * m \in Nat
      BY <1>1, <1>2
    <3>2. end(q) = IF q * m <= n THEN q * m ELSE n
      BY <1>1, <3>1, MinOfTwo
    <3>3. PICK x : x = q * m
      OBVIOUS
    <3> HIDE DEF end
    <3>4. QED
      BY <1>1, <1>2, <3>1, <3>2, <3>3
  <2>5. read(q) = pieces
    BY <1>5, SubSeqFull
  <2>6. SubSeq(t, 1, n) = t
    BY <1>1, SubSeqFull DEF n
  <2> HIDE DEF read, end, pieces
  <2>7. QED
    BY <2>3, <2>4, <2>5, <2>6
<1>7. Inks(pieces) = Ink(t)
  <2> HIDE DEF pieces
  <2>1. QED
    BY <1>5, <1>6, InkOfFlatten
<1>8. \A i \in DOMAIN pieces : Len(pieces[i]) <= MaxSize
  <2> HIDE DEF piece
  <2>1. QED
    BY <1>4, <1>5 DEF m
<1>9. QED
  <2> HIDE DEF pieces
  <2>1. QED
    BY <1>1, <1>5, <1>7, <1>8

Fitting == {t \in Texts : Len(t) <= MaxSize}

\* A text that is split keeps its ink, and its parts fit.
LEMMA SplitTextKeepsInk ==
  ASSUME NEW t \in Texts
  PROVE  SplitText(t) \in Seq(Fitting) /\ Inks(SplitText(t)) = Ink(t)
<1> DEFINE z == <<t>>
           a == Refine(z, 1)
           b == Refine(a, 2)
           c == Refine(b, 3)
           parts == [i \in DOMAIN c |-> HardCut(c[i])]
<1>1. z \in Seq(Texts) /\ Inks(z) = Ink(t)
  BY InksOne
<1> HIDE DEF z
<1>2. a \in Seq(Texts) /\ Inks(a) = Ink(t)
  BY <1>1, RefineKeepsInk
<1> HIDE DEF a
<1>3. b \in Seq(Texts) /\ Inks(b) = Ink(t)
  BY <1>2, RefineKeepsInk
<1> HIDE DEF b
<1>4. c \in Seq(Texts) /\ Inks(c) = Ink(t)
  BY <1>3, RefineKeepsInk
<1>5. SplitText(t) = FlattenSeq(parts)
  BY DEF SplitText, z, a, b
<1> HIDE DEF c
<1>6. \A i \in DOMAIN c : /\ parts[i] \in Seq(Texts) /\ Inks(parts[i]) = Ink(c[i])
                          /\ parts[i] \in Seq(Fitting)
  <2>1. ASSUME NEW i \in DOMAIN c
        PROVE  /\ HardCut(c[i]) \in Seq(Texts) /\ Inks(HardCut(c[i])) = Ink(c[i])
               /\ HardCut(c[i]) \in Seq(Fitting)
    <3>1. c[i] \in Texts
      BY <1>4
    <3>2. /\ HardCut(c[i]) \in Seq(Texts) /\ Inks(HardCut(c[i])) = Ink(c[i])
          /\ \A j \in DOMAIN HardCut(c[i]) : Len(HardCut(c[i])[j]) <= MaxSize
      BY <3>1, HardCutKeepsInk
    <3>3. QED
      BY <3>2 DEF Fitting
  <2>2. QED
    BY <2>1
<1>7. parts = [i \in DOMAIN c |-> parts[i]] /\ DOMAIN parts = DOMAIN c
  OBVIOUS
<1>8. parts \in Seq(Seq(Fitting))
  <2> HIDE DEF parts
  <2>1. DOMAIN c = 1 .. Len(c) /\ Len(c) \in Nat
    BY <1>4
  <2>2. parts \in [1 .. Len(c) -> Seq(Fitting)]
    BY <1>6, <1>7, <2>1
  <2>3. QED
    BY <2>1, <2>2
<1> HIDE DEF parts
<1>9. Inks(FlattenSeq(parts)) = Inks(c)
  BY <1>4, <1>6, <1>7, FlattenKeepsInk
<1>10. FlattenSeq(parts) \in Seq(Fitting)
  BY <1>8, FlattenIsSeq
<1>11. QED
  BY <1>4, <1>5, <1>9, <1>10

-----------------------------------------------------------------------------
(***************************************************************************)
(* The lines of the file.                                                  *)
(***************************************************************************)
LinesOf(f) == [n \in DOMAIN f |-> [i \in 1 .. Size[f[n]] |-> n]]

\* A text without line breaks is all ink.
LEMMA InkOfMarks ==
  ASSUME NEW t \in Seq(Nat \ {0})
  PROVE  t \in Texts /\ Ink(t) = t
<1> DEFINE T == {u \in Texts : Ink(u) = u}
<1>1. <<>> \in T
  BY InkOfNone DEF Texts
<1>2. ASSUME NEW u \in Seq(Nat \ {0}), NEW c \in Nat \ {0}, u \in T PROVE Append(u, c) \in T
  <2>1. u \in Texts /\ Ink(u) = u /\ c \in Nat /\ c # 0 /\ Append(u, c) \in Texts
    BY <1>2 DEF Texts
  <2>2. Ink(Append(u, c)) = Append(u, c)
    BY <2>1, InkAppend
  <2>3. QED
    BY <2>1, <2>2
<1>3. Seq(Nat \ {0}) \subseteq T
  <2> HIDE DEF T
  <2>1. QED
    BY <1>1, <1>2, AllSequences
<1>4. QED
  BY <1>3

\* A line is a text without line breaks, and only an empty line has none.
LEMMA LinesOfTexts ==
  ASSUME NEW f \in Seq(Kinds)
  PROVE  /\ LinesOf(f) \in [DOMAIN f -> Texts]
         /\ \A n \in DOMAIN f : /\ LinesOf(f)[n] \in Seq(Nat \ {0})
                                /\ Ink(LinesOf(f)[n]) = LinesOf(f)[n]
                                /\ LinesOf(f)[n] = <<>> <=> f[n] = "blank"
<1>1. ASSUME NEW n \in DOMAIN f
      PROVE  /\ LinesOf(f)[n] \in Seq(Nat \ {0})
             /\ LinesOf(f)[n] = <<>> <=> f[n] = "blank"
  <2>1. f[n] \in Kinds /\ n \in Nat \ {0}
    OBVIOUS
  <2>2. Size[f[n]] \in Nat /\ (Size[f[n]] = 0 <=> f[n] = "blank")
    BY <2>1, KindsAssumption
  <2>3. PICK m : m = Size[f[n]]
    OBVIOUS
  <2>4. LinesOf(f)[n] = [i \in 1 .. m |-> n]
    BY <2>3 DEF LinesOf
  <2>5. [i \in 1 .. m |-> n] \in Seq(Nat \ {0}) /\ Len([i \in 1 .. m |-> n]) = m
    BY <2>1, <2>2, <2>3
  <2>6. QED
    BY <2>2, <2>3, <2>4, <2>5
<1>2. ASSUME NEW n \in DOMAIN f
      PROVE  LinesOf(f)[n] \in Texts /\ Ink(LinesOf(f)[n]) = LinesOf(f)[n]
  BY <1>1, InkOfMarks
<1>3. LinesOf(f) \in [DOMAIN f -> Texts]
  BY <1>2 DEF LinesOf
<1>4. QED
  BY <1>1, <1>2, <1>3

\* The same of the lines of the file that is read.
LEMMA LineIsText ==
  ASSUME file \in Seq(Kinds), NEW n \in DOMAIN file
  PROVE  /\ LineText(n) = LinesOf(file)[n] /\ LineText(n) \in Texts
         /\ LineText(n) \in Seq(Nat \ {0})
         /\ Ink(LineText(n)) = LineText(n)
         /\ LineText(n) = <<>> <=> file[n] = "blank"
<1>1. LineText(n) = LinesOf(file)[n]
  BY DEF LineText, LinesOf
<1>2. QED
  BY <1>1, LinesOfTexts, InkOfMarks

\* Joining lines with line breaks loses no ink.
LEMMA JoinLinesKeepsInk ==
  ASSUME file \in Seq(Kinds), NEW ns \in Seq(DOMAIN file)
  PROVE  JoinLines(ns) \in Texts /\ Ink(JoinLines(ns)) = All(LinesOf(file), ns)
<1> DEFINE part(i) == IF i = 1 THEN LineText(ns[i]) ELSE <<0>> \o LineText(ns[i])
           parts == [i \in DOMAIN ns |-> part(i)]
<1>1. DOMAIN ns = 1 .. Len(ns) /\ Len(ns) \in Nat
  OBVIOUS
<1>2. ASSUME NEW i \in DOMAIN ns
      PROVE  part(i) \in Texts /\ Ink(part(i)) = LinesOf(file)[ns[i]]
  <2>1. ns[i] \in DOMAIN file
    OBVIOUS
  <2>2. /\ LineText(ns[i]) \in Seq(Nat) /\ Ink(LineText(ns[i])) = LinesOf(file)[ns[i]]
        /\ LinesOf(file)[ns[i]] \in Seq(Nat)
    BY <2>1, LineIsText DEF Texts
  <2>3. CASE i = 1
    BY <2>2, <2>3 DEF Texts
  <2>4. CASE i # 1
    <3>1. <<0>> \in Texts /\ <<0>> \o LineText(ns[i]) \in Texts
      BY <2>2 DEF Texts
    <3>2. Marks(<<0>>) = {}
      BY DEF Marks
    <3>3. Ink(<<0>>) = <<>>
      BY <3>1, <3>2, InkOfBreaks
    <3>4. Ink(<<0>> \o LineText(ns[i])) = Ink(<<0>>) \o Ink(LineText(ns[i]))
      BY <2>2, <3>1, InkConcat DEF Texts
    <3>5. <<>> \o LinesOf(file)[ns[i]] = LinesOf(file)[ns[i]]
      BY <2>2
    <3>6. part(i) = <<0>> \o LineText(ns[i])
      BY <2>4
    <3> HIDE DEF part
    <3>7. QED
      BY <2>2, <3>1, <3>3, <3>4, <3>5, <3>6
  <2>5. QED
    BY <2>3, <2>4
<1> HIDE DEF part
<1>3. parts \in Seq(Texts)
  BY <1>1, <1>2
<1>4. JoinLines(ns) = FlattenSeq(parts)
  BY DEF JoinLines, part
<1>5. [i \in DOMAIN parts |-> Ink(parts[i])] = [i \in DOMAIN ns |-> LinesOf(file)[ns[i]]]
  BY <1>2
<1>6. Ink(FlattenSeq(parts)) = Inks(parts) /\ FlattenSeq(parts) \in Texts
  <2> HIDE DEF parts
  <2>1. QED
    BY <1>3, InkOfFlatten, FlattenIsSeq DEF Texts
<1>7. QED
  BY Zenon, <1>4, <1>5, <1>6 DEF Inks, All

\* Lines that begin and end with a line that is not empty.
Trimmed(ns) ==
  ns # <<>> /\ file[ns[1]] # "blank" /\ file[ns[Len(ns)]] # "blank"

\* Only empty lines are trimmed.
LEMMA TrimKeepsLines ==
  ASSUME file \in Seq(Kinds), NEW ns \in Seq(DOMAIN file)
  PROVE  /\ Trim(ns) \in Seq(DOMAIN file)
         /\ All(LinesOf(file), Trim(ns)) = All(LinesOf(file), ns)
         /\ Trim(ns) # <<>> => Trimmed(Trim(ns))
<1> DEFINE keep == {i \in DOMAIN ns : file[ns[i]] # "blank"}
<1>1. keep \in SUBSET DOMAIN ns /\ Trim(ns) = Between(ns, keep)
  BY DEF Trim
<1>2. \A i \in DOMAIN ns : i \notin keep => LinesOf(file)[ns[i]] = <<>>
  BY LinesOfTexts
<1>3. DOMAIN ns = 1 .. Len(ns) /\ Len(ns) \in Nat /\ \A i \in keep : file[ns[i]] # "blank"
  OBVIOUS
<1> HIDE DEF keep
<1>4. Between(ns, keep) \in Seq(DOMAIN file)
  BY <1>1, BetweenIsPart
<1>5. All(LinesOf(file), Between(ns, keep)) = All(LinesOf(file), ns)
  BY <1>1, <1>2, LinesOfTexts, AllOfBetween
<1>6. CASE keep = {}
  BY <1>1, <1>4, <1>5, <1>6 DEF Between
<1>7. CASE keep # {}
  <2> DEFINE a == Min(keep)
             b == Max(keep)
  <2>1. a \in keep /\ b \in keep /\ a <= b /\ Between(ns, keep) = SubSeq(ns, a, b)
    BY <1>1, <1>7, BetweenIsPart
  <2> HIDE DEF a, b
  <2>2. a \in 1 .. Len(ns) /\ b \in a .. Len(ns)
    BY <1>1, <1>3, <2>1
  <2>3. /\ SubSeq(ns, a, b)[1] = ns[a] /\ Len(SubSeq(ns, a, b)) = b - a + 1
        /\ SubSeq(ns, a, b)[b - a + 1] = ns[b] /\ SubSeq(ns, a, b) # <<>>
    <3>1. PICK m : m = Len(ns)
      OBVIOUS
    <3>2. a \in 1 .. m /\ b \in a .. m /\ m \in Nat
      BY <1>3, <2>2, <3>1
    <3>3. /\ Len(SubSeq(ns, a, b)) = b - a + 1
          /\ \A i \in 1 .. b - a + 1 : SubSeq(ns, a, b)[i] = ns[a + i - 1]
      BY <3>1, <3>2, SubSeqProperties
    <3>4. 1 \in 1 .. b - a + 1 /\ b - a + 1 \in 1 .. b - a + 1
          /\ a + 1 - 1 = a /\ a + (b - a + 1) - 1 = b /\ b - a + 1 # 0
      BY <3>2
    <3>5. SubSeq(ns, a, b)[1] = ns[a] /\ SubSeq(ns, a, b)[b - a + 1] = ns[b]
      BY <3>3, <3>4
    <3>6. QED
      BY <3>3, <3>4, <3>5
  <2>4. Trimmed(SubSeq(ns, a, b))
    BY <1>3, <2>1, <2>3 DEF Trimmed
  <2>5. QED
    BY <1>1, <1>4, <1>5, <2>1, <2>4
<1>8. QED
  BY <1>6, <1>7

\* A text that begins and ends with a character.
Edged(t) == t # <<>> /\ t[1] # 0 /\ t[Len(t)] # 0

\* strip changes nothing in such a text.
LEMMA StripOfEdged ==
  ASSUME NEW t \in Texts, Edged(t)
  PROVE  Strip(t) = t
<1>1. /\ t \in Seq(Nat) /\ Len(t) \in Nat \ {0} /\ DOMAIN t = 1 .. Len(t)
      /\ t[1] # 0 /\ t[Len(t)] # 0
  BY DEF Texts, Edged
<1>2. 1 \in Marks(t) /\ Len(t) \in Marks(t)
  BY <1>1 DEF Marks
<1>3. /\ Min(Marks(t)) \in Marks(t) /\ Max(Marks(t)) \in Marks(t)
      /\ \A i \in Marks(t) : Min(Marks(t)) <= i /\ i <= Max(Marks(t))
      /\ Between(t, Marks(t)) = SubSeq(t, Min(Marks(t)), Max(Marks(t)))
  BY <1>1, <1>2, MarksInText, BetweenIsPart
<1>4. Min(Marks(t)) \in 1 .. Len(t) /\ Max(Marks(t)) \in 1 .. Len(t)
  BY <1>1, <1>3, MarksInText
<1>5. Min(Marks(t)) <= 1 /\ Len(t) <= Max(Marks(t))
  BY <1>2, <1>3
<1>6. Min(Marks(t)) = 1 /\ Max(Marks(t)) = Len(t)
  BY <1>1, <1>4, <1>5
<1>7. SubSeq(t, 1, Len(t)) = t
  BY <1>1, SubSeqFull
<1>8. QED
  BY <1>3, <1>6, <1>7 DEF Strip

\* A text of trimmed lines is stripped.
LEMMA JoinOfTrimmed ==
  ASSUME file \in Seq(Kinds), NEW ns \in Seq(DOMAIN file), Trimmed(ns)
  PROVE  Edged(JoinLines(ns)) /\ Strip(JoinLines(ns)) = JoinLines(ns)
<1> DEFINE part(i) == IF i = 1 THEN LineText(ns[i]) ELSE <<0>> \o LineText(ns[i])
           parts == [i \in DOMAIN ns |-> part(i)]
           n == Len(ns)
           front == SubSeq(parts, 1, n - 1)
           back == SubSeq(parts, 2, n)
           F == FlattenSeq(front)
           B == FlattenSeq(back)
           t == JoinLines(ns)
<1>1. DOMAIN ns = 1 .. n /\ n \in Nat \ {0}
  BY DEF Trimmed
<1>2. ASSUME NEW i \in 1 .. n
      PROVE  /\ part(i) \in Seq(Nat)
             /\ i = 1 => part(i) = LineText(ns[i])
             /\ file[ns[i]] # "blank" => part(i) # <<>> /\ part(i)[Len(part(i))] # 0
             /\ i = 1 /\ file[ns[i]] # "blank" => part(i)[1] # 0
  <2>1. ns[i] \in DOMAIN file
    BY <1>1
  <2>2. LineText(ns[i]) \in Seq(Nat \ {0}) /\ (LineText(ns[i]) = <<>> <=> file[ns[i]] = "blank")
    BY <2>1, LineIsText
  <2>3. PICK l : l = LineText(ns[i])
    OBVIOUS
  <2>4. l \in Seq(Nat \ {0}) /\ l \in Seq(Nat) /\ (l = <<>> <=> file[ns[i]] = "blank")
    BY <2>2, <2>3
  <2>5. l # <<>> => Len(l) \in 1 .. Len(l) /\ l[Len(l)] # 0 /\ l[1] # 0
    BY <2>4
  <2>6. /\ <<0>> \o l \in Seq(Nat)
        /\ l # <<>> => <<0>> \o l # <<>> /\ (<<0>> \o l)[Len(<<0>> \o l)] = l[Len(l)]
    BY <2>4
  <2>7. part(i) = IF i = 1 THEN l ELSE <<0>> \o l
    BY <2>3
  <2> HIDE DEF part
  <2>8. QED
    BY <2>3, <2>4, <2>5, <2>6, <2>7
<1> HIDE DEF part
<1>3. parts \in Seq(Seq(Nat)) /\ DOMAIN parts = 1 .. n /\ Len(parts) = n
      /\ parts[1] = part(1) /\ parts[n] = part(n)
  BY <1>1, <1>2
<1>4. t = FlattenSeq(parts)
  BY DEF JoinLines, part
<1> HIDE DEF parts, n, t
<1>5. /\ front \in Seq(Seq(Nat)) /\ parts = Append(front, part(n))
      /\ back \in Seq(Seq(Nat)) /\ parts = <<part(1)>> \o back
  BY <1>1, <1>3
<1> HIDE DEF front, back
<1>6. part(1) \in Seq(Nat) /\ part(1) # <<>> /\ part(1)[1] # 0
  BY <1>1, <1>2 DEF Trimmed, n
<1>7. part(n) \in Seq(Nat) /\ part(n) # <<>> /\ part(n)[Len(part(n))] # 0
  BY <1>1, <1>2 DEF Trimmed, n
<1>8. F \in Seq(Nat) /\ t = F \o part(n)
  BY <1>4, <1>5, <1>7, FlattenIsSeq, FlattenAppend
<1>9. B \in Seq(Nat) /\ t = part(1) \o B
  <2>1. <<part(1)>> \in Seq(Seq(Nat)) /\ FlattenSeq(<<part(1)>>) = part(1)
    BY <1>6, FlattenOne
  <2>2. FlattenSeq(<<part(1)>> \o back) = FlattenSeq(<<part(1)>>) \o B
    BY <1>5, <2>1, FlattenConcat
  <2>3. QED
    BY <1>4, <1>5, <2>1, <2>2, FlattenIsSeq
<1> HIDE DEF F, B
<1>10. t \in Texts /\ t # <<>> /\ t[1] # 0
  BY <1>6, <1>9 DEF Texts
<1>11. t[Len(t)] # 0
  <2>1. PICK p : p = part(n)
    OBVIOUS
  <2>2. (F \o p)[Len(F \o p)] = p[Len(p)]
    BY <1>7, <1>8, <2>1
  <2>3. QED
    BY <1>7, <1>8, <2>1, <2>2
<1>12. QED
  BY <1>10, <1>11, StripOfEdged DEF t, Edged

-----------------------------------------------------------------------------
(***************************************************************************)
(* The blocks of a section.                                                *)
(***************************************************************************)
BlockSet ==
  {b \in [lines : Seq(DOMAIN file), from : Int, to : Int] : Trimmed(b.lines)}
Reading ==
  [out : Seq(BlockSet), cur : Seq(DOMAIN file), from : Int, open : Fences \cup {"none"}]
NothingRead == [out |-> <<>>, cur |-> <<>>, from |-> 1, open |-> "none"]

LinesOfBlock   == [b \in BlockSet |-> All(LinesOf(file), b.lines)]
LinesOfReading ==
  [acc \in Reading |-> All(LinesOfBlock, acc.out) \o All(LinesOf(file), acc.cur)]

\* The lines of a block have a text.
LEMMA LinesOfBlocks ==
  ASSUME file \in Seq(Kinds)
  PROVE  /\ LinesOf(file) \in [DOMAIN file -> Texts]
         /\ LinesOfBlock \in [BlockSet -> Texts]
         /\ \A b \in BlockSet : LinesOfBlock[b] = All(LinesOf(file), b.lines)
<1>1. LinesOf(file) \in [DOMAIN file -> Texts]
  BY LinesOfTexts
<1>2. ASSUME NEW b \in BlockSet PROVE All(LinesOf(file), b.lines) \in Texts
  <2>1. b.lines \in Seq(DOMAIN file)
    BY DEF BlockSet
  <2>2. QED
    BY <1>1, <2>1, AllIsText
<1>3. QED
  BY <1>1, <1>2 DEF LinesOfBlock

\* What has been read into blocks has a text; at the start there is none.
LEMMA LinesOfReadings ==
  ASSUME file \in Seq(Kinds)
  PROVE  /\ LinesOfReading \in [Reading -> Texts]
         /\ \A acc \in Reading :
              LinesOfReading[acc] = All(LinesOfBlock, acc.out) \o All(LinesOf(file), acc.cur)
         /\ NothingRead \in Reading /\ LinesOfReading[NothingRead] = <<>>
<1>1. ASSUME NEW acc \in Reading
      PROVE  All(LinesOfBlock, acc.out) \o All(LinesOf(file), acc.cur) \in Texts
  <2>1. acc.out \in Seq(BlockSet) /\ acc.cur \in Seq(DOMAIN file)
    BY DEF Reading
  <2>2. All(LinesOfBlock, acc.out) \in Seq(Nat) /\ All(LinesOf(file), acc.cur) \in Seq(Nat)
    BY <2>1, LinesOfBlocks, AllIsText DEF Texts
  <2>3. QED
    BY <2>2 DEF Texts
<1>2. NothingRead \in Reading /\ NothingRead.out = <<>> /\ NothingRead.cur = <<>>
  BY DEF NothingRead, Reading
<1>3. All(LinesOfBlock, NothingRead.out) \o All(LinesOf(file), NothingRead.cur) = <<>>
  <2>1. <<>> \o <<>> = <<>>
    OBVIOUS
  <2>2. QED
    BY Zenon, <1>2, <2>1, AllOfNone
<1>4. QED
  BY <1>1, <1>2, <1>3 DEF LinesOfReading

\* Ending a block loses empty lines only.
LEMMA FlushBlockKeepsLines ==
  ASSUME file \in Seq(Kinds), NEW acc \in Reading, NEW end \in Int
  PROVE  LET new == FlushBlock(acc, end)
         IN /\ new \in Reading /\ LinesOfReading[new] = LinesOfReading[acc]
            /\ LinesOfReading[new] = All(LinesOfBlock, new.out)
<1> DEFINE new == FlushBlock(acc, end)
           lines == Trim(acc.cur)
           block == [lines |-> lines, from |-> acc.from, to |-> end]
<1>1. /\ acc.out \in Seq(BlockSet) /\ acc.cur \in Seq(DOMAIN file) /\ acc.from \in Int
      /\ acc.open \in Fences \cup {"none"}
      /\ acc = [out |-> acc.out, cur |-> acc.cur, from |-> acc.from, open |-> acc.open]
  BY DEF Reading
<1>2. new = FlushBlock(acc, end)
  OBVIOUS
<1> HIDE DEF new
<1>3. acc = [out |-> acc.out, cur |-> acc.cur, from |-> acc.from, open |-> acc.open]
  BY <1>1
<1>4. /\ lines \in Seq(DOMAIN file)
      /\ All(LinesOf(file), lines) = All(LinesOf(file), acc.cur)
      /\ lines # <<>> => Trimmed(lines)
  BY <1>1, TrimKeepsLines
<1>5. /\ All(LinesOfBlock, acc.out) \in Seq(Nat) /\ All(LinesOf(file), acc.cur) \in Seq(Nat)
      /\ LinesOfReading[acc] = All(LinesOfBlock, acc.out) \o All(LinesOf(file), acc.cur)
  BY <1>1, LinesOfBlocks, LinesOfReadings, AllIsText DEF Texts
<1>6. ASSUME NEW out \in Seq(BlockSet),
             new = [out |-> out, cur |-> <<>>, from |-> acc.from, open |-> acc.open],
             All(LinesOfBlock, out) = LinesOfReading[acc]
      PROVE  /\ new \in Reading /\ LinesOfReading[new] = LinesOfReading[acc]
             /\ LinesOfReading[new] = All(LinesOfBlock, new.out)
  <2>1. <<>> \in Seq(DOMAIN file)
    OBVIOUS
  <2>2. new \in Reading /\ new.out = out /\ new.cur = <<>>
    BY <1>1, <1>6, <2>1 DEF Reading
  <2>3. LinesOfReading[new] = All(LinesOfBlock, out) \o <<>>
    BY <2>2, LinesOfReadings, AllOfNone
  <2>4. All(LinesOfBlock, out) \in Seq(Nat)
    BY LinesOfBlocks, AllIsText DEF Texts
  <2>5. All(LinesOfBlock, out) \o <<>> = All(LinesOfBlock, out)
    BY <2>4
  <2>6. QED
    BY <1>6, <2>2, <2>3, <2>5
<1>7. CASE lines = <<>>
  <2>1. new = [acc EXCEPT !.cur = <<>>, !.out = acc.out]
    BY <1>7, <1>2 DEF FlushBlock
  <2>2. new = [out |-> acc.out, cur |-> <<>>, from |-> acc.from, open |-> acc.open]
    BY <1>3, <2>1
  <2>3. All(LinesOf(file), acc.cur) = <<>>
    BY <1>4, <1>7, AllOfNone
  <2>4. All(LinesOfBlock, acc.out) = LinesOfReading[acc]
    BY <1>5, <2>3
  <2>5. QED
    BY <1>1, <1>6, <2>2, <2>4 DEF new
<1>8. CASE lines # <<>>
  <2>1. new = [out |-> Append(acc.out, block), cur |-> <<>>, from |-> acc.from,
               open |-> acc.open]
    <3>1. new = [acc EXCEPT !.cur = <<>>, !.out = Append(acc.out, block)]
      BY <1>8, <1>2 DEF FlushBlock
    <3> HIDE DEF block
    <3>2. QED
      BY <1>3, <3>1
  <2> HIDE DEF lines
  <2>2. block \in BlockSet
    BY <1>1, <1>4, <1>8 DEF BlockSet
  <2>3. block.lines = lines
    OBVIOUS
  <2> HIDE DEF block
  <2>4. LinesOfBlock[block] = All(LinesOf(file), acc.cur)
    BY <1>4, <2>2, <2>3, LinesOfBlocks
  <2>5. All(LinesOfBlock, Append(acc.out, block))
          = All(LinesOfBlock, acc.out) \o LinesOfBlock[block]
    BY <1>1, <2>2, LinesOfBlocks, AllAppend
  <2>6. All(LinesOfBlock, Append(acc.out, block)) = LinesOfReading[acc]
    BY Zenon, <1>5, <2>4, <2>5
  <2>7. Append(acc.out, block) \in Seq(BlockSet)
    BY <1>1, <2>2
  <2>8. PICK out : out = Append(acc.out, block)
    OBVIOUS
  <2>9. out \in Seq(BlockSet) /\ All(LinesOfBlock, out) = LinesOfReading[acc]
        /\ new = [out |-> out, cur |-> <<>>, from |-> acc.from, open |-> acc.open]
    BY <2>1, <2>6, <2>7, <2>8
  <2>10. QED
    BY <1>6, <2>9 DEF new
<1>9. QED
  BY <1>7, <1>8 DEF new

\* A round of the loop over the lines of a section adds the text of its line.
LEMMA ReadBlockLineKeepsLines ==
  ASSUME file \in Seq(Kinds), NEW acc \in Reading, NEW n \in DOMAIN file, NEW i \in Int
  PROVE  LET new == ReadBlockLine(acc, n, i)
         IN new \in Reading /\ LinesOfReading[new] = LinesOfReading[acc] \o LinesOf(file)[n]
<1> DEFINE new == ReadBlockLine(acc, n, i)
           k == file[n]
           open == Toggled(acc.open, k)
           from == IF acc.cur = <<>> THEN i ELSE acc.from
           here == [acc EXCEPT !.from = IF acc.cur = <<>> THEN i ELSE @]
           more == [here EXCEPT !.cur = Append(@, n), !.open = open]
<1>1. /\ acc.out \in Seq(BlockSet) /\ acc.cur \in Seq(DOMAIN file) /\ acc.from \in Int
      /\ acc.open \in Fences \cup {"none"}
      /\ acc = [out |-> acc.out, cur |-> acc.cur, from |-> acc.from, open |-> acc.open]
  BY DEF Reading
<1>2. open \in Fences \cup {"none"}
  BY <1>1 DEF Toggled
<1>3. from \in Int
  BY <1>1
<1> HIDE DEF open
<1>4. /\ here = [out |-> acc.out, cur |-> acc.cur, from |-> from, open |-> acc.open]
      /\ more = [out |-> acc.out, cur |-> Append(acc.cur, n), from |-> from, open |-> open]
  <2>1. here = [acc EXCEPT !.from = from] /\ more = [here EXCEPT !.cur = Append(@, n), !.open = open]
    OBVIOUS
  <2>2. acc = [out |-> acc.out, cur |-> acc.cur, from |-> acc.from, open |-> acc.open]
    BY <1>1
  <2> HIDE DEF here, more, from
  <2>3. here = [out |-> acc.out, cur |-> acc.cur, from |-> from, open |-> acc.open]
    BY <2>1, <2>2
  <2>4. more = [here EXCEPT !.cur = Append(here.cur, n), !.open = open]
    BY <2>1
  <2>5. here.cur = acc.cur
    BY <2>3
  <2>6. PICK c : c = Append(acc.cur, n)
    OBVIOUS
  <2>7. more = [here EXCEPT !.cur = c, !.open = open]
    BY Zenon, <2>4, <2>5, <2>6
  <2>8. QED
    BY <2>3, <2>6, <2>7
<1>5. new = IF EndsBlock(acc.open, k) THEN FlushBlock(here, i - 1)
            ELSE IF acc.open # "none" /\ open = "none" THEN FlushBlock(more, i) ELSE more
  BY DEF ReadBlockLine, open
<1> HIDE DEF from, here, more, new, k
<1>6. /\ LinesOf(file)[n] \in Seq(Nat) /\ All(LinesOf(file), acc.cur) \in Seq(Nat)
      /\ All(LinesOfBlock, acc.out) \in Seq(Nat)
      /\ LinesOfReading[acc] = All(LinesOfBlock, acc.out) \o All(LinesOf(file), acc.cur)
  BY <1>1, LinesOfBlocks, LinesOfReadings, AllIsText DEF Texts
<1>7. here \in Reading /\ LinesOfReading[here] = LinesOfReading[acc]
  <2>1. here \in Reading
    BY <1>1, <1>3, <1>4 DEF Reading
  <2>2. here.out = acc.out /\ here.cur = acc.cur
    BY <1>4
  <2>3. QED
    BY <1>6, <2>1, <2>2, LinesOfReadings
<1>8. more \in Reading /\ LinesOfReading[more] = LinesOfReading[acc] \o LinesOf(file)[n]
  <2>1. Append(acc.cur, n) \in Seq(DOMAIN file)
    BY <1>1
  <2>2. more \in Reading
    BY <1>1, <1>2, <1>3, <1>4, <2>1 DEF Reading
  <2>3. more.out = acc.out /\ more.cur = Append(acc.cur, n)
    BY <1>4
  <2>4. All(LinesOf(file), Append(acc.cur, n)) = All(LinesOf(file), acc.cur) \o LinesOf(file)[n]
    <3>1. PICK c : c = acc.cur
      OBVIOUS
    <3>2. c \in Seq(DOMAIN file)
      BY <1>1, <3>1
    <3>3. All(LinesOf(file), Append(c, n)) = All(LinesOf(file), c) \o LinesOf(file)[n]
      BY <3>2, LinesOfBlocks, AllAppend
    <3>4. QED
      BY Zenon, <3>1, <3>3
  <2>5. LinesOfReading[more]
          = All(LinesOfBlock, acc.out) \o (All(LinesOf(file), acc.cur) \o LinesOf(file)[n])
    BY <2>2, <2>3, <2>4, LinesOfReadings
  <2>6. All(LinesOfBlock, acc.out) \o (All(LinesOf(file), acc.cur) \o LinesOf(file)[n])
          = (All(LinesOfBlock, acc.out) \o All(LinesOf(file), acc.cur)) \o LinesOf(file)[n]
    <3>1. PICK a, b, c : /\ a = All(LinesOfBlock, acc.out)
                         /\ b = All(LinesOf(file), acc.cur) /\ c = LinesOf(file)[n]
      OBVIOUS
    <3>2. a \in Seq(Nat) /\ b \in Seq(Nat) /\ c \in Seq(Nat)
      BY <1>6, <3>1
    <3>3. a \o (b \o c) = (a \o b) \o c
      BY Zenon, <3>2, ConcatTexts
    <3>4. QED
      BY Zenon, <3>1, <3>3
  <2>7. QED
    BY Zenon, <1>6, <2>2, <2>5, <2>6
<1>9. CASE EndsBlock(acc.open, k)
  <2>1. file[n] = "blank"
    BY <1>9 DEF EndsBlock, k
  <2>2. LinesOf(file)[n] = <<>>
    BY <2>1, LinesOfTexts
  <2>3. new = FlushBlock(here, i - 1) /\ i - 1 \in Int
    BY <1>5, <1>9
  <2>4. new \in Reading /\ LinesOfReading[new] = LinesOfReading[here]
    BY <1>7, <2>3, FlushBlockKeepsLines
  <2>5. LinesOfReading[acc] \o <<>> = LinesOfReading[acc]
    BY <1>6
  <2>6. QED
    BY <1>7, <2>2, <2>4, <2>5 DEF new
<1>10. CASE ~ EndsBlock(acc.open, k) /\ acc.open # "none" /\ open = "none"
  <2>1. new = FlushBlock(more, i)
    BY <1>5, <1>10
  <2>2. new \in Reading /\ LinesOfReading[new] = LinesOfReading[more]
    BY <1>8, <2>1, FlushBlockKeepsLines
  <2>3. QED
    BY <1>8, <2>2 DEF new
<1>11. CASE ~ EndsBlock(acc.open, k) /\ ~ (acc.open # "none" /\ open = "none")
  <2>1. new = more
    BY <1>5, <1>11
  <2>2. QED
    BY <1>8, <2>1 DEF new
<1>12. QED
  BY <1>9, <1>10, <1>11

\* The values of the loop of Blocks, after its first i rounds f[1 .. i].
BlockRounds(f, lines) ==
  /\ f[{}] = NothingRead /\ NothingRead \in Reading
  /\ \A i \in 1 .. Len(lines) :
       f[1 .. i - 1] \in Reading =>
         /\ f[1 .. i] = ReadBlockLine(f[1 .. i - 1], lines[i], i)
         /\ f[1 .. i] \in Reading
         /\ LinesOfReading[f[1 .. i]]
              = LinesOfReading[f[1 .. i - 1]] \o LinesOf(file)[lines[i]]
  /\ Blocks(lines) = FlushBlock(f[1 .. Len(lines)], Len(lines)).out

\* The fold of _split_blocks_preserving_code goes line by line.
LEMMA BlocksRuns ==
  ASSUME file \in Seq(Kinds), NEW lines \in Seq(DOMAIN file)
  PROVE  \E f : BlockRounds(f, lines)
<1> DEFINE n == Len(lines)
           step == [i \in 1 .. n |-> [acc \in Reading |-> ReadBlockLine(acc, lines[i], i)]]
           all == [i \in DOMAIN lines |-> i]
           Fold(f) == f = [s \in SUBSET DOMAIN all |->
                             IF s = {} THEN NothingRead
                             ELSE ReadBlockLine(f[s \ {Max(s)}], lines[all[Max(s)]],
                                                all[Max(s)])]
           f == CHOOSE f : Fold(f)
<1>1. n \in Nat /\ DOMAIN lines = 1 .. n /\ DOMAIN all = 1 .. n
      /\ \A i \in 1 .. n : all[i] = i /\ lines[i] \in DOMAIN file
  OBVIOUS
<1>2. step \in [1 .. n -> [Reading -> Reading]] /\ NothingRead \in Reading
  <2>1. ASSUME NEW i \in 1 .. n, NEW acc \in Reading
        PROVE  ReadBlockLine(acc, lines[i], i) \in Reading
    <3>1. PICK m : m = lines[i]
      OBVIOUS
    <3>2. m \in DOMAIN file /\ i \in Int
      BY <1>1, <3>1
    <3>3. ReadBlockLine(acc, m, i) \in Reading
      BY <3>2, ReadBlockLineKeepsLines
    <3>4. QED
      BY <3>1, <3>3
  <2>2. QED
    BY <2>1, LinesOfReadings
<1>3. PICK g \in [SUBSET (1 .. n) -> Reading] : Folds(g, n, NothingRead, step)
  <2> HIDE DEF n, step
  <2>1. QED
    BY <1>1, <1>2, FoldExists
<1>4. Fold(g)
  <2>1. ASSUME NEW s \in SUBSET (1 .. n)
        PROVE  g[s] = IF s = {} THEN NothingRead
                      ELSE ReadBlockLine(g[s \ {Max(s)}], lines[all[Max(s)]], all[Max(s)])
    <3>1. CASE s = {}
      BY <1>3, <3>1 DEF Folds
    <3>2. CASE s # {}
      <4>1. Max(s) \in 1 .. n /\ s \ {Max(s)} \in SUBSET (1 .. n)
        BY <1>1, <3>2, MaxOf
      <4>2. g[s] = step[Max(s)][g[s \ {Max(s)}]]
        BY Zenon, <1>3, <3>2 DEF Folds
      <4>3. g[s \ {Max(s)}] \in Reading /\ all[Max(s)] = Max(s)
        BY <1>1, <4>1
      <4> HIDE DEF all
      <4>4. QED
        BY <3>2, <4>1, <4>2, <4>3
    <3>3. QED
      BY <3>1, <3>2
  <2> HIDE DEF all, n
  <2>2. QED
    BY <1>1, <1>3, <2>1 DEF Folds
<1>5. Fold(f)
  BY <1>4
<1>6. Blocks(lines) = FlushBlock(f[DOMAIN all], Len(lines)).out
  BY Zenon DEF Blocks, FoldLeftDomain, FoldLeft, MapThenFoldSet, NothingRead
<1>7. f[{}] = NothingRead
  <2>1. {} \in SUBSET DOMAIN all
    OBVIOUS
  <2>2. QED
    BY Zenon, <1>5, <2>1
<1>8. ASSUME NEW i \in 1 .. n PROVE f[1 .. i] = ReadBlockLine(f[1 .. i - 1], lines[i], i)
  <2>1. Max(1 .. i) = i /\ (1 .. i) \ {Max(1 .. i)} = 1 .. i - 1
    BY <1>1, PrefixPositions
  <2>2. 1 .. i \in SUBSET DOMAIN all /\ 1 .. i # {}
    BY Zenon, <1>1, PrefixPositions
  <2>3. f[1 .. i] = ReadBlockLine(f[(1 .. i) \ {Max(1 .. i)}], lines[all[Max(1 .. i)]],
                                  all[Max(1 .. i)])
    BY Zenon, <1>5, <2>2
  <2>4. all[i] = i
    BY <1>1
  <2>5. QED
    BY Zenon, <2>1, <2>3, <2>4
<1> HIDE DEF f, Fold, all
<1>9. ASSUME NEW i \in 1 .. Len(lines), f[1 .. i - 1] \in Reading
      PROVE  /\ f[1 .. i] = ReadBlockLine(f[1 .. i - 1], lines[i], i)
             /\ f[1 .. i] \in Reading
             /\ LinesOfReading[f[1 .. i]]
                  = LinesOfReading[f[1 .. i - 1]] \o LinesOf(file)[lines[i]]
  <2>1. PICK acc, m : acc = f[1 .. i - 1] /\ m = lines[i]
    OBVIOUS
  <2>2. acc \in Reading /\ m \in DOMAIN file /\ i \in Int
    BY <1>1, <1>9, <2>1
  <2>3. /\ ReadBlockLine(acc, m, i) \in Reading
        /\ LinesOfReading[ReadBlockLine(acc, m, i)] = LinesOfReading[acc] \o LinesOf(file)[m]
    BY <2>2, ReadBlockLineKeepsLines
  <2>4. f[1 .. i] = ReadBlockLine(acc, m, i)
    BY <1>8, <2>1
  <2>5. QED
    BY Zenon, <2>1, <2>3, <2>4
<1>10. f[DOMAIN all] = f[1 .. Len(lines)]
  BY <1>1
<1>11. Blocks(lines) = FlushBlock(f[1 .. Len(lines)], Len(lines)).out
  BY Zenon, <1>6, <1>10
<1>12. BlockRounds(f, lines)
  BY <1>2, <1>7, <1>9, <1>11 DEF BlockRounds
<1>13. QED
  BY <1>12

\* _split_blocks_preserving_code loses no line that has text, and the blocks it
\* makes are trimmed.
LEMMA BlocksKeepLines ==
  ASSUME file \in Seq(Kinds), NEW lines \in Seq(DOMAIN file)
  PROVE  /\ Blocks(lines) \in Seq(BlockSet)
         /\ All(LinesOfBlock, Blocks(lines)) = All(LinesOf(file), lines)
<1>1. PICK f : BlockRounds(f, lines)
  BY BlocksRuns
<1>2. PICK n : n = Len(lines) /\ n \in Int
  OBVIOUS
<1>3. f[1 .. n] \in Reading /\ LinesOfReading[f[1 .. n]] = All(LinesOf(file), lines)
  <2>1. f[{}] \in Reading /\ LinesOfReading[f[{}]] = <<>>
    BY <1>1, LinesOfReadings DEF BlockRounds
  <2>2. Loops(f, lines, Reading, LinesOfReading, LinesOf(file))
    BY <1>1, <2>1 DEF Loops, BlockRounds
  <2>3. LinesOf(file) \in [DOMAIN file -> Texts] /\ LinesOfReading \in [Reading -> Texts]
    BY LinesOfBlocks, LinesOfReadings
  <2>4. QED
    BY <1>2, <2>2, <2>3, LoopGives
<1>4. PICK acc : acc = f[1 .. n]
  OBVIOUS
<1>5. acc \in Reading /\ LinesOfReading[acc] = All(LinesOf(file), lines)
  BY <1>3, <1>4
<1>6. PICK new : new = FlushBlock(acc, n)
  OBVIOUS
<1>7. /\ new \in Reading /\ LinesOfReading[new] = LinesOfReading[acc]
      /\ LinesOfReading[new] = All(LinesOfBlock, new.out)
  BY <1>2, <1>5, <1>6, FlushBlockKeepsLines
<1>8. Blocks(lines) = new.out
  BY <1>1, <1>2, <1>4, <1>6 DEF BlockRounds
<1>9. new.out \in Seq(BlockSet)
  BY <1>7 DEF Reading
<1>10. QED
  BY <1>5, <1>7, <1>8, <1>9

-----------------------------------------------------------------------------
(***************************************************************************)
(* A section that is too long: its blocks become units, and its units      *)
(* chunks.                                                                 *)
(***************************************************************************)
SectionSet(f) == [lines : Seq(DOMAIN f), path : Seq(Nat), from : Int, to : Int]
ChunkSet   == [text : Texts, path : Seq(Nat), from : Int, to : Int]

\* The text of a block of code, of the blocks bs, that is not split.
KeptCode(text, bs) ==
  \E b \in ToSet(bs) : text = JoinLines(b.lines) /\ IsFenced(b.lines)

UnitSet(bs) ==
  {u \in [text : Texts, alone : BOOLEAN, from : Int, to : Int] :
     IF u.alone THEN KeptCode(u.text, bs) ELSE Len(u.text) <= MaxSize}
FitSet(bs) == {c \in ChunkSet : Len(c.text) <= MaxSize \/ KeptCode(c.text, bs)}
Short      == {c \in ChunkSet : Len(c.text) <= MaxSize}
Splits(bs) == [out : Seq(FitSet(bs)), pend : Short]

InkOfUnit(bs)  == [u \in UnitSet(bs) |-> Ink(u.text)]
InkOfChunk     == [c \in ChunkSet |-> Ink(c.text)]
InkOfSplit(bs) ==
  [acc \in Splits(bs) |-> All(InkOfChunk, acc.out) \o Ink(acc.pend.text)]

\* The units of a section have an ink.
LEMMA InkOfUnits ==
  ASSUME NEW bs
  PROVE  /\ InkOfUnit(bs) \in [UnitSet(bs) -> Texts]
         /\ \A u \in UnitSet(bs) : u.text \in Texts /\ InkOfUnit(bs)[u] = Ink(u.text)
<1>1. \A u \in UnitSet(bs) : u.text \in Texts
  BY DEF UnitSet
<1>2. \A u \in UnitSet(bs) : Ink(u.text) \in Texts
  BY <1>1, InkIsText
<1>3. QED
  BY <1>1, <1>2 DEF InkOfUnit

\* Chunks have an ink.
LEMMA InkOfChunks ==
  /\ InkOfChunk \in [ChunkSet -> Texts]
  /\ \A c \in ChunkSet : c.text \in Texts /\ InkOfChunk[c] = Ink(c.text)
<1>1. \A c \in ChunkSet : c.text \in Texts
  BY DEF ChunkSet
<1>2. \A c \in ChunkSet : Ink(c.text) \in Texts
  BY <1>1, InkIsText
<1>3. QED
  BY <1>1, <1>2 DEF InkOfChunk

\* The units of a block hold all of it, and one that may be too long is the
\* whole block.
LEMMA BlockUnitsKeepInk ==
  ASSUME file \in Seq(Kinds), NEW s \in SectionSet(file), NEW bs \in Seq(BlockSet),
         NEW b \in ToSet(bs)
  PROVE  /\ BlockUnits(s, b) \in Seq(UnitSet(bs))
         /\ All(InkOfUnit(bs), BlockUnits(s, b)) = LinesOfBlock[b]
<1> DEFINE text == JoinLines(b.lines)
           kept == Len(text) > MaxSize /\ IsFenced(b.lines)
           parts == IF kept THEN <<text>> ELSE SplitText(text)
           from(i) == IF i = 1 THEN s.from + b.from - 1 ELSE NoLine
           to(i) == IF i = Len(parts) THEN s.from + b.to - 1 ELSE NoLine
           unit(i) == [text |-> parts[i], alone |-> kept, from |-> from(i), to |-> to(i)]
           units == [i \in DOMAIN parts |-> unit(i)]
<1>1. b \in BlockSet
  BY DEF ToSet
<1>2. b.lines \in Seq(DOMAIN file) /\ b.from \in Int /\ b.to \in Int /\ s.from \in Int
  BY <1>1 DEF BlockSet, SectionSet
<1>3. text \in Texts /\ Ink(text) = LinesOfBlock[b]
  BY <1>1, <1>2, JoinLinesKeepsInk, LinesOfBlocks
<1>4. BlockUnits(s, b) = units
  BY DEF BlockUnits
<1>5. kept \in BOOLEAN /\ (kept => KeptCode(text, bs))
  BY DEF KeptCode
<1> HIDE DEF text
<1>6. parts \in Seq(Texts) /\ Inks(parts) = LinesOfBlock[b]
      /\ \A i \in DOMAIN parts : IF kept THEN KeptCode(parts[i], bs) ELSE Len(parts[i]) <= MaxSize
  <2>1. CASE kept
    <3>1. parts = <<text>>
      BY <2>1
    <3>2. <<text>> \in Seq(Texts) /\ Inks(<<text>>) = Ink(text)
      BY <1>3, InksOne
    <3>3. \A i \in DOMAIN <<text>> : <<text>>[i] = text
      OBVIOUS
    <3> HIDE DEF parts, kept
    <3>4. QED
      BY <1>3, <1>5, <2>1, <3>1, <3>2, <3>3
  <2>2. CASE ~ kept
    <3>1. parts = SplitText(text)
      BY <2>2
    <3>2. parts \in Seq(Fitting) /\ Inks(parts) = Ink(text)
      BY <1>3, <3>1, SplitTextKeepsInk
    <3> HIDE DEF parts, kept
    <3>3. parts \in Seq(Texts) /\ \A i \in DOMAIN parts : Len(parts[i]) <= MaxSize
      BY <3>2 DEF Fitting
    <3>4. QED
      BY <1>3, <2>2, <3>2, <3>3
  <2>3. QED
    BY <2>1, <2>2
<1>7. \A i : from(i) \in Int /\ to(i) \in Int
  BY <1>2 DEF NoLine
<1> HIDE DEF parts, kept, from, to
<1>8. ASSUME NEW i \in DOMAIN parts PROVE unit(i) \in UnitSet(bs) /\ unit(i).text = parts[i]
  <2>1. parts[i] \in Texts
    BY <1>6
  <2>2. /\ unit(i) \in [text : Texts, alone : BOOLEAN, from : Int, to : Int]
        /\ unit(i).text = parts[i] /\ unit(i).alone = kept
    BY <1>5, <1>7, <2>1
  <2> HIDE DEF unit
  <2>3. QED
    BY <1>6, <2>2 DEF UnitSet
<1> HIDE DEF unit
<1>9. units \in Seq(UnitSet(bs)) /\ DOMAIN units = DOMAIN parts
  <2>1. DOMAIN parts = 1 .. Len(parts) /\ Len(parts) \in Nat
    BY <1>6
  <2>2. units \in [1 .. Len(parts) -> UnitSet(bs)]
    BY <1>8, <2>1
  <2>3. QED
    BY <2>1, <2>2
<1>10. \A i \in DOMAIN parts : InkOfUnit(bs)[unit(i)] = Ink(parts[i])
  BY <1>8, InkOfUnits
<1>11. [i \in DOMAIN units |-> InkOfUnit(bs)[units[i]]] = [i \in DOMAIN parts |-> Ink(parts[i])]
  BY <1>9, <1>10
<1>12. All(InkOfUnit(bs), units) = Inks(parts)
  BY Zenon, <1>11 DEF All, Inks
<1> HIDE DEF units
<1>13. QED
  BY <1>4, <1>6, <1>9, <1>12

\* The units of a section hold all of its lines.
LEMMA UnitsKeepInk ==
  ASSUME file \in Seq(Kinds), NEW s \in SectionSet(file)
  PROVE  LET bs == Blocks(s.lines)
         IN /\ Units(s) \in Seq(UnitSet(bs))
            /\ All(InkOfUnit(bs), Units(s)) = All(LinesOf(file), s.lines)
<1>1. PICK bs : bs = Blocks(s.lines)
  OBVIOUS
<1> DEFINE parts == [i \in DOMAIN bs |-> BlockUnits(s, bs[i])]
           g == InkOfUnit(bs)
<1>2. s.lines \in Seq(DOMAIN file)
  BY DEF SectionSet
<1>3. bs \in Seq(BlockSet) /\ All(LinesOfBlock, bs) = All(LinesOf(file), s.lines)
  BY <1>1, <1>2, BlocksKeepLines
<1>4. Units(s) = FlattenSeq(parts)
  BY <1>1 DEF Units
<1>5. ASSUME NEW i \in DOMAIN bs
      PROVE  BlockUnits(s, bs[i]) \in Seq(UnitSet(bs))
             /\ All(g, BlockUnits(s, bs[i])) = LinesOfBlock[bs[i]]
  <2>1. bs[i] \in ToSet(bs)
    BY DEF ToSet
  <2>2. QED
    BY <1>3, <2>1, BlockUnitsKeepInk
<1>6. parts \in Seq(Seq(UnitSet(bs))) /\ DOMAIN parts = DOMAIN bs
  <2>1. DOMAIN bs = 1 .. Len(bs) /\ Len(bs) \in Nat
    BY <1>3
  <2>2. parts \in [1 .. Len(bs) -> Seq(UnitSet(bs))]
    BY <1>5, <2>1
  <2>3. QED
    BY <2>1, <2>2
<1>7. [i \in DOMAIN parts |-> All(g, parts[i])] = [i \in DOMAIN bs |-> LinesOfBlock[bs[i]]]
  BY <1>5, <1>6
<1> HIDE DEF parts
<1>8. All(g, FlattenSeq(parts)) = FlattenSeq([i \in DOMAIN parts |-> All(g, parts[i])])
  BY <1>6, InkOfUnits, AllOfFlatten
<1>9. FlattenSeq(parts) \in Seq(UnitSet(bs))
  BY <1>6, FlattenIsSeq
<1>10. All(g, FlattenSeq(parts)) = All(LinesOfBlock, bs)
  BY Zenon, <1>7, <1>8 DEF All
<1>11. QED
  BY <1>1, <1>3, <1>4, <1>9, <1>10

\* _valid_line_range changes no text.
LEMMA ValidRangeKeepsText ==
  ASSUME NEW c \in ChunkSet
  PROVE  ValidRange(c) \in ChunkSet /\ ValidRange(c).text = c.text
<1>1. /\ c = [text |-> c.text, path |-> c.path, from |-> c.from, to |-> c.to]
      /\ c.text \in Texts /\ c.path \in Seq(Nat) /\ c.from \in Int /\ c.to \in Int
  BY DEF ChunkSet
<1>2. CASE c.from = NoLine \/ c.to = NoLine \/ c.to < c.from
  <2>1. ValidRange(c) = [c EXCEPT !.from = NoLine, !.to = NoLine]
    BY <1>2 DEF ValidRange
  <2>2. ValidRange(c) = [text |-> c.text, path |-> c.path, from |-> NoLine, to |-> NoLine]
    BY <1>1, <2>1
  <2>3. QED
    BY <1>1, <2>2 DEF ChunkSet, NoLine
<1>3. CASE ~ (c.from = NoLine \/ c.to = NoLine \/ c.to < c.from)
  BY <1>3 DEF ValidRange
<1>4. QED
  BY <1>2, <1>3

\* What has been put together becomes a chunk unless it is empty.
LEMMA EmittedKeepsInk ==
  ASSUME NEW c \in ChunkSet, NEW bs, Len(c.text) <= MaxSize
  PROVE  /\ Emitted(c) \in Seq(FitSet(bs)) /\ Emitted(c) \in Seq(ChunkSet)
         /\ All(InkOfChunk, Emitted(c)) = Ink(c.text)
<1>1. CASE c.text = <<>>
  <2>1. Emitted(c) = <<>>
    BY <1>1 DEF Emitted
  <2>2. QED
    BY <1>1, <2>1, InkOfNone, AllOfNone
<1>2. CASE c.text # <<>>
  <2>1. PICK v : v = ValidRange(c)
    OBVIOUS
  <2>2. v \in ChunkSet /\ v.text = c.text
    BY <2>1, ValidRangeKeepsText
  <2>3. Emitted(c) = <<v>>
    BY <1>2, <2>1 DEF Emitted
  <2>4. v \in FitSet(bs)
    BY <2>2 DEF FitSet
  <2>5. All(InkOfChunk, <<v>>) = InkOfChunk[v] /\ InkOfChunk[v] = Ink(c.text)
    BY <2>2, InkOfChunks, AllOne
  <2>6. <<v>> \in Seq(FitSet(bs)) /\ <<v>> \in Seq(ChunkSet)
    BY <2>2, <2>4
  <2>7. QED
    BY <2>3, <2>5, <2>6
<1>3. QED
  BY <1>1, <1>2

\* The chunks of a long section have an ink while they are made.
LEMMA InkOfSplits ==
  ASSUME NEW bs
  PROVE  /\ InkOfSplit(bs) \in [Splits(bs) -> Texts]
         /\ \A acc \in Splits(bs) :
              /\ acc.out \in Seq(FitSet(bs)) /\ acc.out \in Seq(ChunkSet)
              /\ acc.pend \in Short /\ acc.pend \in ChunkSet /\ acc.pend.text \in Texts
              /\ Len(acc.pend.text) <= MaxSize
              /\ All(InkOfChunk, acc.out) \in Seq(Nat) /\ Ink(acc.pend.text) \in Seq(Nat)
              /\ InkOfSplit(bs)[acc] = All(InkOfChunk, acc.out) \o Ink(acc.pend.text)
<1>1. ASSUME NEW acc \in Splits(bs)
      PROVE  /\ acc.out \in Seq(FitSet(bs)) /\ acc.out \in Seq(ChunkSet)
             /\ acc.pend \in Short /\ acc.pend \in ChunkSet /\ acc.pend.text \in Texts
             /\ Len(acc.pend.text) <= MaxSize
             /\ All(InkOfChunk, acc.out) \in Seq(Nat) /\ Ink(acc.pend.text) \in Seq(Nat)
             /\ All(InkOfChunk, acc.out) \o Ink(acc.pend.text) \in Texts
  <2>1. acc.out \in Seq(FitSet(bs)) /\ acc.pend \in Short
    BY DEF Splits
  <2>2. FitSet(bs) \subseteq ChunkSet
    BY DEF FitSet
  <2>3. acc.out \in Seq(ChunkSet)
    BY <2>1, <2>2
  <2>4. acc.pend \in ChunkSet /\ Len(acc.pend.text) <= MaxSize
    BY <2>1 DEF Short
  <2>5. acc.pend.text \in Texts
    BY <2>4, InkOfChunks
  <2>6. All(InkOfChunk, acc.out) \in Seq(Nat) /\ Ink(acc.pend.text) \in Seq(Nat)
    BY <2>3, <2>5, InkIsText, InkOfChunks, AllIsText DEF Texts
  <2>7. QED
    BY <2>1, <2>3, <2>4, <2>5, <2>6 DEF Texts
<1>2. QED
  BY <1>1 DEF InkOfSplit

\* A round of the loop of _split_oversized_section adds the ink of its unit, and
\* no chunk it makes is too long but for a block of code.
LEMMA AddUnitKeepsInk ==
  ASSUME NEW bs, NEW acc \in Splits(bs), NEW u \in UnitSet(bs)
  PROVE  LET new == AddUnit(acc, u)
         IN new \in Splits(bs) /\ InkOfSplit(bs)[new] = InkOfSplit(bs)[acc] \o Ink(u.text)
<1> DEFINE new == AddUnit(acc, u)
           p == acc.pend
           joined == JoinBlocks(p.text, u.text)
           none == [Nothing EXCEPT !.path = p.path]
           chunk == [none EXCEPT !.text = u.text, !.from = u.from, !.to = u.to]
           A == All(InkOfChunk, acc.out)
           P == Ink(p.text)
           U == Ink(u.text)
<1>1. /\ acc.out \in Seq(FitSet(bs)) /\ acc.out \in Seq(ChunkSet)
      /\ p \in Short /\ p \in ChunkSet /\ p.text \in Texts /\ Len(p.text) <= MaxSize
      /\ A \in Seq(Nat) /\ P \in Seq(Nat) /\ InkOfSplit(bs)[acc] = A \o P
  BY InkOfSplits
<1>2. p.path \in Seq(Nat) /\ p.from \in Int /\ p.to \in Int
  BY <1>1 DEF ChunkSet
<1>3. /\ u.text \in Texts /\ u.alone \in BOOLEAN /\ u.from \in Int /\ u.to \in Int
      /\ IF u.alone THEN KeptCode(u.text, bs) ELSE Len(u.text) <= MaxSize
  BY DEF UnitSet
<1>4. U \in Seq(Nat)
  BY <1>3, InkIsText DEF Texts
<1>5. none = [text |-> <<>>, path |-> p.path, from |-> NoLine, to |-> NoLine]
  BY DEF Nothing
<1>6. none \in Short /\ none.text = <<>>
  <2> HIDE DEF none, p
  <2>1. <<>> \in Texts /\ NoLine \in Int /\ Len(<<>>) = 0 /\ MaxSize \in Nat
    BY SizesAssumption DEF Texts, NoLine
  <2>2. QED
    BY <1>2, <1>5, <2>1 DEF Short, ChunkSet
<1>7. chunk \in ChunkSet /\ chunk.text = u.text
  <2>1. chunk = [none EXCEPT !.text = u.text, !.from = u.from, !.to = u.to]
    OBVIOUS
  <2> HIDE DEF none, p, chunk
  <2>2. chunk = [text |-> u.text, path |-> p.path, from |-> u.from, to |-> u.to]
    BY <1>5, <2>1
  <2>3. QED
    BY <1>2, <1>3, <2>2 DEF ChunkSet
<1>8. chunk \in FitSet(bs) /\ (~ u.alone => chunk \in Short)
  <2> HIDE DEF chunk
  <2>1. QED
    BY <1>3, <1>7 DEF FitSet, Short
<1>9. joined \in Texts /\ Ink(joined) = P \o U
      /\ (p.text = <<>> => Len(joined) <= Len(u.text))
  BY <1>1, <1>3, JoinBlocksKeepsInk
<1>10. /\ Emitted(p) \in Seq(FitSet(bs)) /\ Emitted(p) \in Seq(ChunkSet)
       /\ All(InkOfChunk, Emitted(p)) = P
  BY <1>1, EmittedKeepsInk
<1>11. /\ acc.out \o Emitted(p) \in Seq(FitSet(bs)) /\ acc.out \o Emitted(p) \in Seq(ChunkSet)
       /\ All(InkOfChunk, acc.out \o Emitted(p)) = A \o P
  <2>1. PICK o, e : o = acc.out /\ e = Emitted(p)
    OBVIOUS
  <2>2. o \in Seq(FitSet(bs)) /\ e \in Seq(FitSet(bs)) /\ o \in Seq(ChunkSet)
        /\ e \in Seq(ChunkSet)
    BY <1>1, <1>10, <2>1
  <2>3. All(InkOfChunk, o \o e) = All(InkOfChunk, o) \o All(InkOfChunk, e)
    BY <2>2, InkOfChunks, AllConcat
  <2>4. o \o e \in Seq(FitSet(bs)) /\ o \o e \in Seq(ChunkSet)
    BY <2>2
  <2>5. QED
    BY <1>10, <2>1, <2>3, <2>4
<1>12. ASSUME NEW out \in Seq(FitSet(bs)), NEW pend \in Short,
              new = [out |-> out, pend |-> pend],
              All(InkOfChunk, out) \o Ink(pend.text) = (A \o P) \o U
       PROVE  new \in Splits(bs) /\ InkOfSplit(bs)[new] = InkOfSplit(bs)[acc] \o U
  <2> HIDE DEF new, A, P, U
  <2>1. new \in Splits(bs) /\ new.out = out /\ new.pend = pend
    BY <1>12 DEF Splits
  <2>2. QED
    BY <1>1, <1>12, <2>1, InkOfSplits
<1> HIDE DEF A, P, U, joined, none, chunk
<1>13. CASE u.alone
  <2> DEFINE before == acc.out \o Emitted(p)
             out == before \o <<chunk>>
  <2>1. new = [out |-> out, pend |-> none]
    BY <1>13 DEF AddUnit, joined, none, chunk
  <2> HIDE DEF before, new, p
  <2>2. /\ before \in Seq(FitSet(bs)) /\ before \in Seq(ChunkSet)
        /\ All(InkOfChunk, before) = A \o P
    BY <1>11 DEF before
  <2>3. <<chunk>> \in Seq(FitSet(bs)) /\ <<chunk>> \in Seq(ChunkSet)
    BY <1>7, <1>8
  <2>4. All(InkOfChunk, <<chunk>>) = U
    BY <1>7, InkOfChunks, AllOne DEF U
  <2>5. All(InkOfChunk, out) = (A \o P) \o U
    <3>1. PICK c : c = <<chunk>>
      OBVIOUS
    <3>2. All(InkOfChunk, before \o c) = All(InkOfChunk, before) \o All(InkOfChunk, c)
      BY <2>2, <2>3, <3>1, InkOfChunks, AllConcat
    <3>3. QED
      BY Zenon, <2>2, <2>4, <3>1, <3>2
  <2>6. out \in Seq(FitSet(bs))
    BY <2>2, <2>3
  <2>7. (A \o P) \o U \in Seq(Nat) /\ ((A \o P) \o U) \o <<>> = (A \o P) \o U
    BY <1>1, <1>4
  <2> HIDE DEF out
  <2>8. All(InkOfChunk, out) \o Ink(none.text) = (A \o P) \o U
    BY Zenon, <1>6, <2>5, <2>7, InkOfNone
  <2>9. QED
    BY <1>6, <1>12, <2>1, <2>6, <2>8 DEF new, U
<1>14. CASE ~ u.alone /\ p.text # <<>> /\ Len(joined) > MaxSize
  <2> DEFINE out == acc.out \o Emitted(p)
  <2>1. new = [out |-> out, pend |-> chunk]
    BY <1>14 DEF AddUnit, joined, none, chunk
  <2> HIDE DEF new, p, out
  <2>2. out \in Seq(FitSet(bs)) /\ All(InkOfChunk, out) = A \o P
    BY <1>11 DEF out
  <2>3. chunk \in Short /\ Ink(chunk.text) = U
    BY <1>7, <1>8, <1>14 DEF U
  <2>4. All(InkOfChunk, out) \o Ink(chunk.text) = (A \o P) \o U
    BY Zenon, <2>2, <2>3
  <2>5. QED
    BY <1>12, <2>1, <2>2, <2>3, <2>4 DEF new, U
<1>15. CASE ~ u.alone /\ ~ (p.text # <<>> /\ Len(joined) > MaxSize)
  <2> DEFINE from == IF p.from = NoLine THEN u.from ELSE p.from
             pend == [text |-> joined, path |-> p.path, from |-> from, to |-> u.to]
  <2>1. new = [acc EXCEPT !.pend.text = joined, !.pend.to = u.to,
                          !.pend.from = IF @ = NoLine THEN u.from ELSE @]
    BY <1>13, <1>15 DEF AddUnit, joined, none, chunk
  <2>2. acc = [out |-> acc.out, pend |-> p]
    BY DEF Splits
  <2>3. p = [text |-> p.text, path |-> p.path, from |-> p.from, to |-> p.to]
    BY <1>1 DEF ChunkSet
  <2>4. new = [out |-> acc.out, pend |-> pend]
    BY <2>1, <2>2, <2>3
  <2> HIDE DEF new, p
  <2>5. Len(joined) \in Nat /\ Len(u.text) \in Nat /\ MaxSize \in Nat
    BY <1>3, <1>9, SizesAssumption DEF Texts
  <2>6. Len(joined) <= MaxSize
    BY <1>3, <1>9, <1>15, <2>5
  <2>7. from \in Int
    BY <1>2, <1>3
  <2> HIDE DEF from
  <2>8. pend \in Short /\ pend.text = joined
    BY <1>2, <1>3, <1>9, <2>6, <2>7 DEF Short, ChunkSet
  <2> HIDE DEF pend
  <2>9. A \o (P \o U) = (A \o P) \o U
    <3>1. PICK a, b, c : a = A /\ b = P /\ c = U
      OBVIOUS
    <3>2. a \in Seq(Nat) /\ b \in Seq(Nat) /\ c \in Seq(Nat)
      BY <1>1, <1>4, <3>1
    <3>3. a \o (b \o c) = (a \o b) \o c
      BY Zenon, <3>2, ConcatTexts
    <3>4. QED
      BY Zenon, <3>1, <3>3
  <2>10. All(InkOfChunk, acc.out) \o Ink(pend.text) = (A \o P) \o U
    BY Zenon, <1>9, <2>8, <2>9 DEF A
  <2>11. QED
    BY <1>1, <1>12, <2>4, <2>8, <2>10 DEF new, U
<1>16. QED
  BY <1>3, <1>13, <1>14, <1>15

\* The values of the loop of SplitSection, after its first i rounds f[1 .. i].
SplitRounds(f, s) ==
  LET bs == Blocks(s.lines)
      units == Units(s)
  IN /\ f[{}] \in Splits(bs) /\ InkOfSplit(bs)[f[{}]] = <<>>
     /\ \A i \in 1 .. Len(units) :
          f[1 .. i - 1] \in Splits(bs) =>
            /\ f[1 .. i] = AddUnit(f[1 .. i - 1], units[i])
            /\ f[1 .. i] \in Splits(bs)
            /\ InkOfSplit(bs)[f[1 .. i]]
                 = InkOfSplit(bs)[f[1 .. i - 1]] \o InkOfUnit(bs)[units[i]]
     /\ SplitSection(s) = f[1 .. Len(units)].out \o Emitted(f[1 .. Len(units)].pend)

\* The fold of _split_oversized_section goes unit by unit.
LEMMA SplitRuns ==
  ASSUME file \in Seq(Kinds), NEW s \in SectionSet(file)
  PROVE  \E f : SplitRounds(f, s)
<1> DEFINE bs == Blocks(s.lines)
           units == Units(s)
           n == Len(units)
           begin == [out |-> <<>>, pend |-> [Nothing EXCEPT !.path = s.path]]
           step == [i \in 1 .. n |-> [acc \in Splits(bs) |-> AddUnit(acc, units[i])]]
           Fold(f) == f = [t \in SUBSET DOMAIN units |->
                             IF t = {} THEN begin
                             ELSE AddUnit(f[t \ {Max(t)}], units[Max(t)])]
           f == CHOOSE f : Fold(f)
<1>1. /\ units \in Seq(UnitSet(bs))
      /\ All(InkOfUnit(bs), units) = All(LinesOf(file), s.lines)
  BY UnitsKeepInk
<1>2. SplitSection(s) = f[DOMAIN units].out \o Emitted(f[DOMAIN units].pend)
  BY Zenon DEF SplitSection, FoldLeft, MapThenFoldSet
<1>3. begin \in Splits(bs) /\ begin.out = <<>> /\ begin.pend.text = <<>>
  <2> DEFINE pend == [Nothing EXCEPT !.path = s.path]
  <2>1. s.path \in Seq(Nat)
    BY DEF SectionSet
  <2>2. pend = [text |-> <<>>, path |-> s.path, from |-> NoLine, to |-> NoLine]
    BY DEF Nothing
  <2>3. <<>> \in Texts /\ NoLine \in Int /\ Len(<<>>) = 0 /\ MaxSize \in Nat
    BY SizesAssumption DEF Texts, NoLine
  <2>4. pend \in Short /\ pend.text = <<>>
    BY <2>1, <2>2, <2>3 DEF Short, ChunkSet
  <2>5. begin = [out |-> <<>>, pend |-> pend]
    OBVIOUS
  <2> HIDE DEF pend, bs, begin
  <2>6. QED
    BY <2>4, <2>5 DEF Splits
<1>4. InkOfSplit(bs)[begin] = <<>>
  <2>1. <<>> \o <<>> = <<>>
    OBVIOUS
  <2> HIDE DEF begin, bs
  <2>2. InkOfSplit(bs)[begin] = All(InkOfChunk, <<>>) \o Ink(<<>>)
    BY <1>3, InkOfSplits
  <2>3. QED
    BY Zenon, <2>1, <2>2, InkOfNone, AllOfNone
<1> HIDE DEF units, begin, bs
<1>5. n \in Nat /\ DOMAIN units = 1 .. n /\ \A i \in 1 .. n : units[i] \in UnitSet(bs)
  BY <1>1
<1>6. step \in [1 .. n -> [Splits(bs) -> Splits(bs)]]
  <2>1. ASSUME NEW i \in 1 .. n, NEW acc \in Splits(bs)
        PROVE  AddUnit(acc, units[i]) \in Splits(bs)
    <3>1. units[i] \in UnitSet(bs)
      BY <1>5
    <3>2. QED
      BY <3>1, AddUnitKeepsInk
  <2>2. QED
    BY <2>1
<1>7. PICK g \in [SUBSET (1 .. n) -> Splits(bs)] : Folds(g, n, begin, step)
  <2> HIDE DEF n, step
  <2>1. QED
    BY <1>3, <1>5, <1>6, FoldExists
<1>8. Fold(g)
  <2>1. ASSUME NEW t \in SUBSET (1 .. n)
        PROVE  g[t] = IF t = {} THEN begin ELSE AddUnit(g[t \ {Max(t)}], units[Max(t)])
    <3>1. CASE t = {}
      BY <1>7, <3>1 DEF Folds
    <3>2. CASE t # {}
      <4>1. Max(t) \in 1 .. n /\ t \ {Max(t)} \in SUBSET (1 .. n)
        BY <1>5, <3>2, MaxOf
      <4>2. g[t] = step[Max(t)][g[t \ {Max(t)}]]
        BY Zenon, <1>7, <3>2 DEF Folds
      <4>3. g[t \ {Max(t)}] \in Splits(bs)
        BY <4>1
      <4>4. QED
        BY <3>2, <4>1, <4>2, <4>3
    <3>3. QED
      BY <3>1, <3>2
  <2>2. QED
    BY <1>5, <1>7, <2>1 DEF Folds
<1>9. Fold(f)
  BY <1>8
<1>10. f[{}] = begin
  <2>1. {} \in SUBSET DOMAIN units
    OBVIOUS
  <2>2. QED
    BY Zenon, <1>9, <2>1
<1>11. ASSUME NEW i \in 1 .. n PROVE f[1 .. i] = AddUnit(f[1 .. i - 1], units[i])
  <2>1. Max(1 .. i) = i /\ (1 .. i) \ {Max(1 .. i)} = 1 .. i - 1
    BY <1>5, PrefixPositions
  <2>2. 1 .. i \in SUBSET DOMAIN units /\ 1 .. i # {}
    BY Zenon, <1>5, PrefixPositions
  <2>3. f[1 .. i] = AddUnit(f[(1 .. i) \ {Max(1 .. i)}], units[Max(1 .. i)])
    BY Zenon, <1>9, <2>2
  <2>4. QED
    BY Zenon, <2>1, <2>3
<1> HIDE DEF f, Fold
<1>12. ASSUME NEW i \in 1 .. Len(units), f[1 .. i - 1] \in Splits(bs)
       PROVE  /\ f[1 .. i] = AddUnit(f[1 .. i - 1], units[i])
              /\ f[1 .. i] \in Splits(bs)
              /\ InkOfSplit(bs)[f[1 .. i]]
                   = InkOfSplit(bs)[f[1 .. i - 1]] \o InkOfUnit(bs)[units[i]]
  <2>1. PICK acc, u : acc = f[1 .. i - 1] /\ u = units[i]
    OBVIOUS
  <2>2. acc \in Splits(bs) /\ u \in UnitSet(bs)
    BY <1>5, <1>12, <2>1
  <2>3. /\ AddUnit(acc, u) \in Splits(bs)
        /\ InkOfSplit(bs)[AddUnit(acc, u)] = InkOfSplit(bs)[acc] \o Ink(u.text)
    BY <2>2, AddUnitKeepsInk
  <2>4. f[1 .. i] = AddUnit(acc, u) /\ InkOfUnit(bs)[u] = Ink(u.text)
    BY <1>11, <2>1, <2>2, InkOfUnits
  <2>5. QED
    BY Zenon, <2>1, <2>3, <2>4
<1>13. f[DOMAIN units] = f[1 .. Len(units)]
  BY <1>5
<1>14. /\ f[{}] \in Splits(bs) /\ InkOfSplit(bs)[f[{}]] = <<>>
       /\ SplitSection(s) = f[1 .. Len(units)].out \o Emitted(f[1 .. Len(units)].pend)
  BY Zenon, <1>2, <1>3, <1>4, <1>10, <1>13
<1>15. SplitRounds(f, s)
  BY <1>12, <1>14 DEF SplitRounds, units, bs
<1>16. QED
  BY <1>15

\* The chunks of a long section hold all of its lines and fit.
LEMMA SplitSectionKeepsInk ==
  ASSUME file \in Seq(Kinds), NEW s \in SectionSet(file)
  PROVE  /\ SplitSection(s) \in Seq(FitSet(Blocks(s.lines)))
         /\ SplitSection(s) \in Seq(ChunkSet)
         /\ All(InkOfChunk, SplitSection(s)) = All(LinesOf(file), s.lines)
<1>1. PICK bs, units : bs = Blocks(s.lines) /\ units = Units(s)
  OBVIOUS
<1>2. /\ units \in Seq(UnitSet(bs))
      /\ All(InkOfUnit(bs), units) = All(LinesOf(file), s.lines)
  BY <1>1, UnitsKeepInk
<1>3. PICK f : SplitRounds(f, s)
  BY SplitRuns
<1>4. PICK acc : acc = f[1 .. Len(units)]
  OBVIOUS
<1>5. acc \in Splits(bs) /\ InkOfSplit(bs)[acc] = All(LinesOf(file), s.lines)
  <2>1. Loops(f, units, Splits(bs), InkOfSplit(bs), InkOfUnit(bs))
    BY <1>1, <1>3 DEF Loops, SplitRounds
  <2>2. /\ InkOfUnit(bs) \in [UnitSet(bs) -> Texts]
        /\ InkOfSplit(bs) \in [Splits(bs) -> Texts]
    BY InkOfUnits, InkOfSplits
  <2>3. QED
    BY <1>2, <1>4, <2>1, <2>2, LoopGives
<1>6. PICK o, e : o = acc.out /\ e = Emitted(acc.pend)
  OBVIOUS
<1>7. /\ o \in Seq(FitSet(bs)) /\ o \in Seq(ChunkSet)
      /\ acc.pend \in ChunkSet /\ Len(acc.pend.text) <= MaxSize
      /\ InkOfSplit(bs)[acc] = All(InkOfChunk, o) \o Ink(acc.pend.text)
  BY <1>5, <1>6, InkOfSplits
<1>8. /\ e \in Seq(FitSet(bs)) /\ e \in Seq(ChunkSet)
      /\ All(InkOfChunk, e) = Ink(acc.pend.text)
  BY <1>6, <1>7, EmittedKeepsInk
<1>9. All(InkOfChunk, o \o e) = All(InkOfChunk, o) \o All(InkOfChunk, e)
  BY <1>7, <1>8, InkOfChunks, AllConcat
<1>10. o \o e \in Seq(FitSet(bs)) /\ o \o e \in Seq(ChunkSet)
  BY <1>7, <1>8
<1>11. SplitSection(s) = o \o e
  BY <1>1, <1>3, <1>4, <1>6 DEF SplitRounds
<1>12. QED
  BY <1>1, <1>5, <1>7, <1>8, <1>9, <1>10, <1>11

-----------------------------------------------------------------------------
(***************************************************************************)
(* The file grows while it is parsed.                                      *)
(***************************************************************************)
LinesOfSection(f) == [s \in SectionSet(f) |-> All(LinesOf(f), s.lines)]
Whole(f) == FlattenSeq([n \in DOMAIN f |-> LinesOf(f)[n]])

\* The lines of a section have a text.
LEMMA LinesOfSections ==
  ASSUME NEW f \in Seq(Kinds)
  PROVE  /\ LinesOf(f) \in [DOMAIN f -> Texts]
         /\ LinesOfSection(f) \in [SectionSet(f) -> Texts]
         /\ \A s \in SectionSet(f) : LinesOfSection(f)[s] = All(LinesOf(f), s.lines)
<1>1. LinesOf(f) \in [DOMAIN f -> Texts]
  BY LinesOfTexts
<1>2. ASSUME NEW s \in SectionSet(f) PROVE All(LinesOf(f), s.lines) \in Texts
  <2>1. s.lines \in Seq(DOMAIN f)
    BY DEF SectionSet
  <2>2. QED
    BY <1>1, <2>1, AllIsText
<1>3. QED
  BY <1>1, <1>2 DEF LinesOfSection

\* One more line changes nothing in the lines and sections before it.
LEMMA FileGrows ==
  ASSUME NEW f \in Seq(Kinds), NEW k \in Kinds
  PROVE  LET g == Append(f, k)
             n == Len(f) + 1
         IN /\ g \in Seq(Kinds) /\ n \in DOMAIN g /\ DOMAIN f \subseteq DOMAIN g
            /\ \A ns \in Seq(DOMAIN f) :
                 ns \in Seq(DOMAIN g) /\ All(LinesOf(g), ns) = All(LinesOf(f), ns)
            /\ \A ss \in Seq(SectionSet(f)) :
                 /\ ss \in Seq(SectionSet(g))
                 /\ All(LinesOfSection(g), ss) = All(LinesOfSection(f), ss)
            /\ Whole(g) = Whole(f) \o LinesOf(g)[n]
<1> DEFINE g == Append(f, k)
           n == Len(f) + 1
<1>1. /\ g \in Seq(Kinds) /\ n \in DOMAIN g /\ DOMAIN f \subseteq DOMAIN g
      /\ DOMAIN f = 1 .. Len(f) /\ DOMAIN g = 1 .. Len(f) + 1 /\ Len(f) \in Nat
      /\ \A i \in DOMAIN f : g[i] = f[i]
  OBVIOUS
<1> HIDE DEF g
<1>2. \A i \in DOMAIN f : LinesOf(g)[i] = LinesOf(f)[i]
  BY <1>1 DEF LinesOf
<1>3. ASSUME NEW ns \in Seq(DOMAIN f)
      PROVE  ns \in Seq(DOMAIN g) /\ All(LinesOf(g), ns) = All(LinesOf(f), ns)
  <2>1. ns \in Seq(DOMAIN g)
    BY <1>1
  <2>2. \A i \in DOMAIN ns : LinesOf(g)[ns[i]] = LinesOf(f)[ns[i]]
    BY <1>2
  <2>3. [i \in DOMAIN ns |-> LinesOf(g)[ns[i]]] = [i \in DOMAIN ns |-> LinesOf(f)[ns[i]]]
    BY <2>2
  <2>4. QED
    BY Zenon, <2>1, <2>3 DEF All
<1>4. ASSUME NEW ss \in Seq(SectionSet(f))
      PROVE  /\ ss \in Seq(SectionSet(g))
             /\ All(LinesOfSection(g), ss) = All(LinesOfSection(f), ss)
  <2>1. ASSUME NEW s \in SectionSet(f)
        PROVE  s \in SectionSet(g) /\ LinesOfSection(g)[s] = LinesOfSection(f)[s]
    <3>1. s.lines \in Seq(DOMAIN f)
      BY DEF SectionSet
    <3>2. s.lines \in Seq(DOMAIN g) /\ All(LinesOf(g), s.lines) = All(LinesOf(f), s.lines)
      BY <1>3, <3>1
    <3>3. s \in SectionSet(g)
      BY <3>2 DEF SectionSet
    <3>4. QED
      BY <1>1, <3>2, <3>3, LinesOfSections
  <2>2. ss \in Seq(SectionSet(g))
    BY <2>1
  <2>3. \A i \in DOMAIN ss : LinesOfSection(g)[ss[i]] = LinesOfSection(f)[ss[i]]
    BY <2>1
  <2>4. [i \in DOMAIN ss |-> LinesOfSection(g)[ss[i]]]
          = [i \in DOMAIN ss |-> LinesOfSection(f)[ss[i]]]
    BY <2>3
  <2>5. QED
    BY Zenon, <2>2, <2>4 DEF All
<1>5. Whole(g) = Whole(f) \o LinesOf(g)[n]
  <2> DEFINE line(i) == LinesOf(g)[i]
             old == [i \in DOMAIN f |-> line(i)]
             new == [i \in DOMAIN g |-> line(i)]
  <2>1. [i \in DOMAIN f |-> LinesOf(f)[i]] = old
    BY <1>2
  <2>2. Whole(g) = FlattenSeq(new) /\ Whole(f) = FlattenSeq(old)
    BY Zenon, <2>1 DEF Whole
  <2>3. \A i \in DOMAIN g : line(i) \in Seq(Nat)
    BY <1>1, LinesOfTexts DEF Texts
  <2> HIDE DEF line
  <2>4. old \in Seq(Seq(Nat)) /\ line(n) \in Seq(Nat)
    <3>1. old \in [1 .. Len(f) -> Seq(Nat)]
      BY <1>1, <2>3
    <3>2. line(n) \in Seq(Nat)
      BY <1>1, <2>3
    <3> HIDE DEF old
    <3>3. QED
      BY <1>1, <3>1, <3>2
  <2>5. new = Append(old, line(n))
    BY DEF g
  <2> HIDE DEF old, new
  <2>6. FlattenSeq(Append(old, line(n))) = FlattenSeq(old) \o line(n)
    BY <2>4, FlattenAppend
  <2>7. QED
    BY Zenon, <2>2, <2>5, <2>6 DEF line
<1>6. QED
  BY <1>1, <1>3, <1>4, <1>5 DEF g

\* Elements that are left out give nothing.
LEMMA AllOfWhere ==
  ASSUME NEW S, NEW g \in [S -> Texts], NEW s \in Seq(S), NEW keep,
         \A i \in DOMAIN s : i \notin keep => g[s[i]] = <<>>
  PROVE  All(g, Where(s, keep)) = All(g, s)
<1> DEFINE part(i) == IF i \in keep THEN <<s[i]>> ELSE <<>>
           parts == [i \in DOMAIN s |-> part(i)]
<1>1. DOMAIN s = 1 .. Len(s) /\ Len(s) \in Nat /\ \A i \in DOMAIN s : s[i] \in S
  OBVIOUS
<1>2. ASSUME NEW i \in DOMAIN s PROVE part(i) \in Seq(S) /\ All(g, part(i)) = g[s[i]]
  <2>1. CASE i \in keep
    <3>1. PICK e : e = s[i]
      OBVIOUS
    <3>2. e \in S /\ part(i) = <<e>>
      BY <1>1, <2>1, <3>1
    <3>3. All(g, <<e>>) = g[e] /\ <<e>> \in Seq(S)
      BY <3>2, AllOne
    <3>4. QED
      BY <3>1, <3>2, <3>3
  <2>2. CASE i \notin keep
    <3>1. part(i) = <<>>
      BY <2>2
    <3> HIDE DEF part
    <3>2. <<>> \in Seq(S)
      OBVIOUS
    <3>3. QED
      BY <2>2, <3>1, <3>2, AllOfNone
  <2>3. QED
    BY <2>1, <2>2
<1>3. Where(s, keep) = FlattenSeq(parts)
  BY DEF Where
<1> HIDE DEF part
<1>4. parts \in Seq(Seq(S)) /\ DOMAIN parts = DOMAIN s
  <2>1. parts \in [1 .. Len(s) -> Seq(S)]
    BY <1>1, <1>2
  <2>2. QED
    BY <1>1, <2>1
<1>5. [i \in DOMAIN parts |-> All(g, parts[i])] = [i \in DOMAIN s |-> g[s[i]]]
  BY <1>2, <1>4
<1> HIDE DEF parts
<1>6. All(g, FlattenSeq(parts)) = FlattenSeq([i \in DOMAIN parts |-> All(g, parts[i])])
  BY <1>4, AllOfFlatten
<1>7. QED
  BY Zenon, <1>3, <1>5, <1>6 DEF All

-----------------------------------------------------------------------------
(***************************************************************************)
(* The invariant.  While the note is parsed, its lines are those of the    *)
(* sections and of the section that is being read; while it is chunked,    *)
(* the chunks and what is pending hold the sections that were taken.       *)
(***************************************************************************)
FitIn(ss) ==
  {c \in ChunkSet : \/ Len(c.text) <= MaxSize
                    \/ \E s \in ToSet(ss) : KeptCode(c.text, Blocks(s.lines))}

TypeInv ==
  /\ phase \in {"parse", "chunk", "done"}
  /\ file \in Seq(Kinds)
  /\ stack \in Seq(Nat) /\ cur \in Seq(DOMAIN file) /\ start \in Int
  /\ sections \in Seq(SectionSet(file))
  /\ next \in Nat \ {0}
  /\ pending \in Short
  /\ raw \in Seq(FitIn(sections))

Parsed ==
  phase = "parse" =>
    /\ raw = <<>> /\ pending = Nothing /\ next = 1
    /\ All(LinesOfSection(file), sections) \o All(LinesOf(file), cur) = Whole(file)
Chunked ==
  phase = "chunk" =>
    /\ next <= Len(sections) + 1
    /\ All(LinesOfSection(file), sections) = Whole(file)
    /\ All(InkOfChunk, raw) \o Ink(pending.text)
         = All(LinesOfSection(file), SubSeq(sections, 1, next - 1))
Finished == Done => All(InkOfChunk, raw) = Whole(file)

Inv == TypeInv /\ Parsed /\ Chunked /\ Finished

\* Nothing is pending at first.
LEMMA NothingIsShort == Nothing \in Short /\ Nothing.text = <<>>
BY SizesAssumption DEF Nothing, Short, ChunkSet, Texts, NoLine

\* The invariant holds before the first line is read.
LEMMA InitInv == Init => Inv
<1> SUFFICES ASSUME Init PROVE Inv
  OBVIOUS
<1>1. /\ phase = "parse" /\ file = <<>> /\ stack = <<>> /\ cur = <<>> /\ start = 1
      /\ sections = <<>> /\ next = 1 /\ pending = Nothing /\ raw = <<>>
  BY DEF Init
<1>2. TypeInv
  <2>1. \A S : <<>> \in Seq(S)
    OBVIOUS
  <2>2. QED
    BY <1>1, <2>1, NothingIsShort DEF TypeInv
<1>3. Whole(<<>>) = <<>>
  <2>1. [n \in DOMAIN <<>> |-> LinesOf(<<>>)[n]] = <<>>
    OBVIOUS
  <2>2. QED
    BY <2>1, FlattenEmpty DEF Whole
<1>4. Parsed
  <2>1. <<>> \o <<>> = <<>>
    OBVIOUS
  <2>2. All(LinesOfSection(<<>>), <<>>) \o All(LinesOf(<<>>), <<>>) = Whole(<<>>)
    BY Zenon, <1>3, <2>1, AllOfNone
  <2>3. QED
    BY <1>1, <2>2 DEF Parsed
<1>5. Chunked /\ Finished
  BY <1>1 DEF Chunked, Finished, Done
<1>6. QED
  BY <1>2, <1>4, <1>5 DEF Inv

\* A section that is cut holds the lines that were read, and one without text
\* is no section.
LEMMA FlushedKeepsLines ==
  ASSUME Inv, phase = "parse", NEW end \in Int
  PROVE  /\ Flushed(end) \in Seq(SectionSet(file))
         /\ All(LinesOfSection(file), Flushed(end)) = Whole(file)
<1> DEFINE lines == Trim(cur)
           new == [lines |-> lines, path |-> stack, from |-> start, to |-> end]
           A == All(LinesOfSection(file), sections)
           C == All(LinesOf(file), cur)
<1>1. /\ file \in Seq(Kinds) /\ cur \in Seq(DOMAIN file) /\ stack \in Seq(Nat)
      /\ start \in Int /\ sections \in Seq(SectionSet(file)) /\ A \o C = Whole(file)
  BY DEF Inv, TypeInv, Parsed
<1>2. lines \in Seq(DOMAIN file) /\ All(LinesOf(file), lines) = C
  BY <1>1, TrimKeepsLines
<1>3. A \in Seq(Nat) /\ C \in Seq(Nat)
  BY <1>1, LinesOfSections, AllIsText DEF Texts
<1>4. Flushed(end) = IF lines = <<>> THEN sections ELSE Append(sections, new)
  BY DEF Flushed
<1>5. CASE lines = <<>>
  <2>1. C = <<>>
    BY <1>2, <1>5, AllOfNone
  <2>2. A \o C = A
    BY <1>3, <2>1
  <2> HIDE DEF lines, A
  <2>3. QED
    BY <1>1, <1>4, <1>5, <2>2 DEF A
<1>6. CASE lines # <<>>
  <2> HIDE DEF lines
  <2>1. new \in SectionSet(file)
    BY <1>1, <1>2 DEF SectionSet
  <2>2. new.lines = lines
    OBVIOUS
  <2> HIDE DEF new
  <2>3. LinesOfSection(file)[new] = C
    BY <1>1, <1>2, <2>1, <2>2, LinesOfSections
  <2>4. All(LinesOfSection(file), Append(sections, new)) = A \o LinesOfSection(file)[new]
    <3>1. PICK ss : ss = sections
      OBVIOUS
    <3>2. ss \in Seq(SectionSet(file))
      BY <1>1, <3>1
    <3>3. All(LinesOfSection(file), Append(ss, new))
            = All(LinesOfSection(file), ss) \o LinesOfSection(file)[new]
      BY <1>1, <2>1, <3>2, LinesOfSections, AllAppend
    <3>4. QED
      BY Zenon, <3>1, <3>3
  <2>5. Append(sections, new) \in Seq(SectionSet(file))
    BY <1>1, <2>1
  <2> HIDE DEF A, C
  <2>6. QED
    BY <1>1, <1>4, <1>6, <2>3, <2>4, <2>5
<1>7. QED
  BY <1>5, <1>6

\* A heading ends the section before it and begins its own.
LEMMA ReadHeadingKeeps ==
  ASSUME Inv, NEW k \in Kinds, ReadHeading(k)
  PROVE  Inv'
<1> DEFINE n == Len(file) + 1
           g == Append(file, k)
           ss == Flushed(n - 1)
           above == {i \in DOMAIN stack : Level[file[stack[i]]] < Level[k]}
<1>1. /\ phase = "parse" /\ file' = g /\ sections' = ss /\ start' = n /\ cur' = <<n>>
      /\ stack' = Append(Where(stack, above), n)
      /\ phase' = phase /\ next' = next /\ pending' = pending /\ raw' = raw
  BY DEF ReadHeading
<1>2. /\ file \in Seq(Kinds) /\ stack \in Seq(Nat)
      /\ raw = <<>> /\ pending = Nothing /\ next = 1
  BY <1>1 DEF Inv, TypeInv, Parsed
<1>3. n \in Nat /\ n - 1 \in Int
  BY <1>2
<1>4. /\ ss \in Seq(SectionSet(file))
      /\ All(LinesOfSection(file), ss) = Whole(file)
  <2> HIDE DEF n
  <2>1. QED
    BY <1>1, <1>3, FlushedKeepsLines
<1>5. /\ g \in Seq(Kinds) /\ n \in DOMAIN g
      /\ ss \in Seq(SectionSet(g))
      /\ All(LinesOfSection(g), ss) = Whole(file)
      /\ Whole(g) = Whole(file) \o LinesOf(g)[n]
  <2> HIDE DEF ss
  <2>1. QED
    BY <1>2, <1>4, FileGrows
<1>6. Append(Where(stack, above), n) \in Seq(Nat)
  <2> HIDE DEF above, n
  <2>1. Where(stack, above) \in Seq(Nat)
    BY <1>2, WhereIsSeq
  <2>2. QED
    BY <1>3, <2>1
<1> HIDE DEF n, g, ss, above
<1>7. TypeInv'
  <2>1. <<n>> \in Seq(DOMAIN g) /\ \A S : <<>> \in Seq(S)
    BY <1>5
  <2>2. QED
    BY <1>1, <1>2, <1>3, <1>5, <1>6, <2>1, NothingIsShort DEF TypeInv
<1>8. Parsed'
  <2>1. All(LinesOf(g), <<n>>) = LinesOf(g)[n]
    BY <1>5, LinesOfTexts, AllOne
  <2>2. All(LinesOfSection(g), ss) \o All(LinesOf(g), <<n>>) = Whole(g)
    BY Zenon, <1>5, <2>1
  <2>3. QED
    BY <1>1, <1>2, <2>2 DEF Parsed
<1>9. Chunked' /\ Finished'
  BY <1>1 DEF Chunked, Finished, Done
<1>10. QED
  BY <1>7, <1>8, <1>9 DEF Inv

\* Any other line belongs to the section that is being read.
LEMMA ReadLineKeeps ==
  ASSUME Inv, NEW k \in Kinds, ReadLine(k)
  PROVE  Inv'
<1> DEFINE n == Len(file) + 1
           g == Append(file, k)
           A == All(LinesOfSection(file), sections)
           C == All(LinesOf(file), cur)
<1>1. /\ phase = "parse" /\ file' = g /\ cur' = Append(cur, n)
      /\ start' = IF cur = <<>> THEN n ELSE start
      /\ stack' = stack /\ sections' = sections
      /\ phase' = phase /\ next' = next /\ pending' = pending /\ raw' = raw
  BY DEF ReadLine
<1>2. /\ file \in Seq(Kinds) /\ stack \in Seq(Nat) /\ start \in Int
      /\ cur \in Seq(DOMAIN file) /\ sections \in Seq(SectionSet(file))
      /\ raw = <<>> /\ pending = Nothing /\ next = 1 /\ A \o C = Whole(file)
  BY <1>1 DEF Inv, TypeInv, Parsed
<1>3. n \in Nat /\ (IF cur = <<>> THEN n ELSE start) \in Int
  BY <1>2
<1>4. A \in Seq(Nat) /\ C \in Seq(Nat)
  BY <1>2, LinesOfSections, AllIsText DEF Texts
<1>5. /\ g \in Seq(Kinds) /\ n \in DOMAIN g
      /\ cur \in Seq(DOMAIN g) /\ All(LinesOf(g), cur) = C
      /\ sections \in Seq(SectionSet(g)) /\ All(LinesOfSection(g), sections) = A
      /\ Whole(g) = Whole(file) \o LinesOf(g)[n]
  BY <1>2, FileGrows
<1> HIDE DEF n, g, A, C
<1>6. Append(cur, n) \in Seq(DOMAIN g)
  BY <1>5
<1>7. TypeInv'
  <2>1. \A S : <<>> \in Seq(S)
    OBVIOUS
  <2>2. QED
    BY <1>1, <1>2, <1>3, <1>5, <1>6, <2>1, NothingIsShort DEF TypeInv
<1>8. Parsed'
  <2>1. All(LinesOf(g), Append(cur, n)) = C \o LinesOf(g)[n]
    <3>1. PICK c : c = cur
      OBVIOUS
    <3>2. c \in Seq(DOMAIN g)
      BY <1>5, <3>1
    <3>3. n \in DOMAIN g /\ LinesOf(g) \in [DOMAIN g -> Texts]
      BY <1>5, LinesOfTexts
    <3>4. All(LinesOf(g), Append(c, n)) = All(LinesOf(g), c) \o LinesOf(g)[n]
      BY <3>2, <3>3, AllAppend
    <3>5. QED
      BY Zenon, <1>5, <3>1, <3>4
  <2>2. A \o (C \o LinesOf(g)[n]) = (A \o C) \o LinesOf(g)[n]
    <3>1. PICK a, b, c : a = A /\ b = C /\ c = LinesOf(g)[n]
      OBVIOUS
    <3>2. LinesOf(g)[n] \in Seq(Nat)
      BY <1>5, LinesOfTexts DEF Texts
    <3>3. a \in Seq(Nat) /\ b \in Seq(Nat) /\ c \in Seq(Nat)
      BY <1>4, <3>1, <3>2
    <3>4. a \o (b \o c) = (a \o b) \o c
      BY Zenon, <3>3, ConcatTexts
    <3>5. QED
      BY Zenon, <3>1, <3>4
  <2>3. All(LinesOfSection(g), sections) \o All(LinesOf(g), Append(cur, n)) = Whole(g)
    BY Zenon, <1>2, <1>5, <2>1, <2>2
  <2>4. QED
    BY <1>1, <1>2, <2>3 DEF Parsed
<1>9. Chunked' /\ Finished'
  BY <1>1 DEF Chunked, Finished, Done
<1>10. QED
  BY <1>7, <1>8, <1>9 DEF Inv

\* The last section ends with the file.
LEMMA EndOfFileKeeps ==
  ASSUME Inv, EndOfFile
  PROVE  Inv'
<1> DEFINE ss == Flushed(Len(file))
<1>1. /\ phase = "parse" /\ sections' = ss /\ cur' = <<>> /\ phase' = "chunk"
      /\ file' = file /\ stack' = stack /\ start' = start
      /\ next' = next /\ pending' = pending /\ raw' = raw
  BY DEF EndOfFile
<1>2. /\ file \in Seq(Kinds) /\ stack \in Seq(Nat) /\ start \in Int
      /\ raw = <<>> /\ pending = Nothing /\ next = 1
  BY <1>1 DEF Inv, TypeInv, Parsed
<1>3. /\ ss \in Seq(SectionSet(file))
      /\ All(LinesOfSection(file), ss) = Whole(file)
  <2>1. Len(file) \in Int
    BY <1>2
  <2>2. QED
    BY <1>1, <2>1, FlushedKeepsLines
<1> HIDE DEF ss
<1>4. TypeInv'
  <2>1. \A S : <<>> \in Seq(S)
    OBVIOUS
  <2>2. QED
    BY <1>1, <1>2, <1>3, <2>1, NothingIsShort DEF TypeInv
<1>5. Chunked'
  <2>1. Len(ss) \in Nat /\ SubSeq(ss, 1, 1 - 1) = <<>>
    BY <1>3
  <2>2. <<>> \o <<>> = <<>>
    OBVIOUS
  <2>3. All(InkOfChunk, <<>>) \o Ink(Nothing.text)
          = All(LinesOfSection(file), SubSeq(ss, 1, 1 - 1))
    BY Zenon, <2>1, <2>2, AllOfNone, InkOfNone, NothingIsShort
  <2>4. QED
    BY <1>1, <1>2, <1>3, <2>1, <2>3 DEF Chunked
<1>6. Parsed' /\ Finished'
  BY <1>1 DEF Parsed, Finished, Done
<1>7. QED
  BY <1>4, <1>5, <1>6 DEF Inv

-----------------------------------------------------------------------------
(***************************************************************************)
(* The chunker.  Neither the file nor the sections change.                 *)
(***************************************************************************)
\* Which chunks fit depends on the file and the sections.
LEMMA SameFile ==
  ASSUME file' = file, sections' = sections
  PROVE  FitIn(sections)' = FitIn(sections)
<1>1. ASSUME NEW ns PROVE Blocks(ns)' = Blocks(ns)
  BY DEF Blocks, ReadBlockLine, FlushBlock, Trim, FoldLeftDomain, FoldLeft, MapThenFoldSet
<1>2. ASSUME NEW ns PROVE JoinLines(ns)' = JoinLines(ns)
  BY DEF JoinLines, LineText
<1>3. ASSUME NEW ns PROVE IsFenced(ns)' = IsFenced(ns)
  BY DEF IsFenced, Count
<1>4. ASSUME NEW text, NEW ns
      PROVE  KeptCode(text, Blocks(ns))' <=> KeptCode(text, Blocks(ns))
  BY <1>1, <1>2, <1>3 DEF KeptCode
<1>5. QED
  BY <1>4 DEF FitIn

\* Chunks that fit are chunks.
LEMMA FitsAreChunks ==
  /\ FitIn(sections) \subseteq ChunkSet /\ Short \subseteq FitIn(sections)
  /\ Short \subseteq ChunkSet
  /\ \A s \in ToSet(sections) : FitSet(Blocks(s.lines)) \subseteq FitIn(sections)
<1>1. FitIn(sections) \subseteq ChunkSet /\ Short \subseteq FitIn(sections)
      /\ Short \subseteq ChunkSet
  BY DEF FitIn, Short
<1>2. ASSUME NEW s \in ToSet(sections)
      PROVE  FitSet(Blocks(s.lines)) \subseteq FitIn(sections)
  BY DEF FitSet, FitIn
<1>3. QED
  BY <1>1, <1>2

\* What is pending becomes a chunk unless it is empty.
LEMMA CollectedKeepsInk ==
  ASSUME pending \in Short
  PROVE  /\ Collected \in Seq(FitIn(sections)) /\ Collected \in Seq(ChunkSet)
         /\ All(InkOfChunk, Collected) = Ink(pending.text)
<1>1. CASE pending.text = <<>>
  <2>1. Collected = <<>>
    BY <1>1 DEF Collected
  <2>2. <<>> \in Seq(FitIn(sections)) /\ <<>> \in Seq(ChunkSet)
    OBVIOUS
  <2>3. QED
    BY Zenon, <1>1, <2>1, <2>2, InkOfNone, AllOfNone
<1>2. CASE pending.text # <<>>
  <2>1. PICK p : p = pending
    OBVIOUS
  <2>2. Collected = <<p>> /\ p \in ChunkSet /\ p \in FitIn(sections)
    BY <1>2, <2>1, FitsAreChunks DEF Collected
  <2>3. All(InkOfChunk, <<p>>) = InkOfChunk[p] /\ InkOfChunk[p] = Ink(p.text)
    BY <2>2, InkOfChunks, AllOne
  <2>4. <<p>> \in Seq(FitIn(sections)) /\ <<p>> \in Seq(ChunkSet)
    BY <2>2
  <2>5. QED
    BY Zenon, <2>1, <2>2, <2>3, <2>4
<1>3. QED
  BY <1>1, <1>2

\* What is collected comes after the chunks.
LEMMA FlushKeepsInk ==
  ASSUME pending \in Short, raw \in Seq(FitIn(sections))
  PROVE  /\ raw \o Collected \in Seq(FitIn(sections)) /\ raw \o Collected \in Seq(ChunkSet)
         /\ All(InkOfChunk, raw \o Collected)
              = All(InkOfChunk, raw) \o Ink(pending.text)
<1>1. PICK r, c : r = raw /\ c = Collected
  OBVIOUS
<1>2. /\ r \in Seq(FitIn(sections)) /\ c \in Seq(FitIn(sections))
      /\ r \in Seq(ChunkSet) /\ c \in Seq(ChunkSet)
      /\ All(InkOfChunk, c) = Ink(pending.text)
  BY <1>1, CollectedKeepsInk, FitsAreChunks
<1>3. All(InkOfChunk, r \o c) = All(InkOfChunk, r) \o All(InkOfChunk, c)
  BY <1>2, InkOfChunks, AllConcat
<1>4. r \o c \in Seq(FitIn(sections)) /\ r \o c \in Seq(ChunkSet)
  BY <1>2
<1>5. QED
  BY <1>1, <1>2, <1>3, <1>4

\* A step that adds the next section to the chunks and to what is pending.
LEMMA SectionTaken ==
  ASSUME Inv, phase = "chunk", next <= Len(sections),
         NEW r \in Seq(FitIn(sections)), NEW p \in Short,
         All(InkOfChunk, r) \o Ink(p.text)
           = (All(InkOfChunk, raw) \o Ink(pending.text))
               \o All(LinesOf(file), sections[next].lines),
         raw' = r, pending' = p, next' = next + 1,
         UNCHANGED <<phase, file, fence, stack, cur, start, sections>>
  PROVE  Inv'
<1> DEFINE i == next - 1
           taken(j) == SubSeq(sections, 1, j)
           L == LinesOfSection(file)
<1>1. /\ file \in Seq(Kinds) /\ stack \in Seq(Nat) /\ cur \in Seq(DOMAIN file)
      /\ start \in Int /\ sections \in Seq(SectionSet(file)) /\ next \in Nat \ {0}
  BY DEF Inv, TypeInv
<1>2. TypeInv'
  <2>1. r \in Seq(FitIn(sections)')
    BY SameFile
  <2>2. r \in Seq(FitIn(sections'))
    BY <2>1
  <2>3. phase' \in {"parse", "chunk", "done"} /\ next' \in Nat \ {0}
    BY <1>1
  <2>4. QED
    BY <1>1, <2>1, <2>3 DEF TypeInv
<1>3. Chunked'
  <2>1. PICK s : s = sections[next]
    OBVIOUS
  <2>2. /\ taken(i) \in Seq(SectionSet(file)) /\ s \in SectionSet(file)
        /\ taken(next) = Append(taken(i), s)
    BY <1>1, <2>1
  <2>3. L[s] = All(LinesOf(file), s.lines)
    BY <1>1, <2>2, LinesOfSections
  <2> HIDE DEF taken, i
  <2>4. All(L, taken(next)) = All(L, taken(i)) \o L[s]
    <3>1. PICK u : u = taken(i)
      OBVIOUS
    <3>2. u \in Seq(SectionSet(file)) /\ L \in [SectionSet(file) -> Texts]
      BY <1>1, <2>2, <3>1, LinesOfSections
    <3> HIDE DEF L
    <3>3. All(L, Append(u, s)) = All(L, u) \o L[s]
      BY <2>2, <3>2, AllAppend
    <3>4. QED
      BY Zenon, <2>2, <3>1, <3>3
  <2>5. /\ All(L, sections) = Whole(file)
        /\ All(InkOfChunk, raw) \o Ink(pending.text) = All(L, taken(i))
    BY DEF Inv, Chunked, taken, i
  <2>6. All(InkOfChunk, r) \o Ink(p.text) = All(L, taken(next))
    BY Zenon, <2>1, <2>3, <2>4, <2>5
  <2>7. next' - 1 = next /\ next' <= Len(sections) + 1
    BY <1>1
  <2>8. All(InkOfChunk, raw') \o Ink(pending'.text) = All(L, SubSeq(sections, 1, next' - 1))
    BY <2>6, <2>7 DEF taken
  <2>9. QED
    BY <2>5, <2>7, <2>8 DEF Chunked
<1>4. Parsed' /\ Finished'
  BY DEF Parsed, Finished, Done
<1>5. QED
  BY <1>2, <1>3, <1>4 DEF Inv

\* A long section is split after what was pending.
LEMMA SplitNextKeeps ==
  ASSUME Inv, SplitNext
  PROVE  Inv'
<1> DEFINE p == [Nothing EXCEPT !.path = pending.path]
<1>1. PICK s, c, e : s = sections[next] /\ c = raw \o Collected /\ e = SplitSection(s)
  OBVIOUS
<1>2. /\ phase = "chunk" /\ next <= Len(sections)
      /\ raw' = c \o e /\ pending' = p /\ next' = next + 1
      /\ UNCHANGED <<phase, file, fence, stack, cur, start, sections>>
  BY <1>1 DEF SplitNext
<1>3. /\ file \in Seq(Kinds) /\ sections \in Seq(SectionSet(file)) /\ next \in Nat \ {0}
      /\ pending \in Short /\ raw \in Seq(FitIn(sections))
  BY DEF Inv, TypeInv
<1>4. s \in SectionSet(file) /\ s \in ToSet(sections)
  BY <1>1, <1>2, <1>3 DEF ToSet
<1>5. /\ c \in Seq(FitIn(sections)) /\ c \in Seq(ChunkSet)
      /\ All(InkOfChunk, c) = All(InkOfChunk, raw) \o Ink(pending.text)
  BY <1>1, <1>3, FlushKeepsInk
<1>6. /\ e \in Seq(FitIn(sections)) /\ e \in Seq(ChunkSet)
      /\ All(InkOfChunk, e) = All(LinesOf(file), s.lines)
  <2>1. /\ e \in Seq(FitSet(Blocks(s.lines))) /\ e \in Seq(ChunkSet)
        /\ All(InkOfChunk, e) = All(LinesOf(file), s.lines)
    BY <1>1, <1>3, <1>4, SplitSectionKeepsInk
  <2>2. FitSet(Blocks(s.lines)) \subseteq FitIn(sections)
    BY <1>4, FitsAreChunks
  <2>3. QED
    BY <2>1, <2>2
<1>7. p \in Short /\ p.text = <<>>
  <2>1. pending.path \in Seq(Nat)
    BY <1>3 DEF Short, ChunkSet
  <2>2. p = [text |-> <<>>, path |-> pending.path, from |-> NoLine, to |-> NoLine]
    BY DEF Nothing
  <2>3. <<>> \in Texts /\ NoLine \in Int /\ Len(<<>>) = 0 /\ MaxSize \in Nat
    BY SizesAssumption DEF Texts, NoLine
  <2> HIDE DEF p
  <2>4. QED
    BY <2>1, <2>2, <2>3 DEF Short, ChunkSet
<1> HIDE DEF p
<1>8. c \o e \in Seq(FitIn(sections))
  BY <1>5, <1>6
<1>9. All(InkOfChunk, c \o e) = All(InkOfChunk, c) \o All(InkOfChunk, e)
      /\ All(InkOfChunk, c \o e) \in Seq(Nat)
  <2>1. c \o e \in Seq(ChunkSet)
    BY <1>5, <1>6
  <2>2. QED
    BY <1>5, <1>6, <2>1, InkOfChunks, AllConcat, AllIsText DEF Texts
<1>10. All(InkOfChunk, c \o e) \o <<>> = All(InkOfChunk, c \o e)
  BY <1>9
<1>11. All(InkOfChunk, c \o e) \o Ink(p.text)
         = (All(InkOfChunk, raw) \o Ink(pending.text))
             \o All(LinesOf(file), sections[next].lines)
  BY Zenon, <1>1, <1>5, <1>6, <1>7, <1>9, <1>10, InkOfNone
<1>12. PICK r : r = c \o e
  OBVIOUS
<1>13. r \in Seq(FitIn(sections)) /\ raw' = r
       /\ All(InkOfChunk, r) \o Ink(p.text)
            = (All(InkOfChunk, raw) \o Ink(pending.text))
                \o All(LinesOf(file), sections[next].lines)
  BY Zenon, <1>2, <1>8, <1>11, <1>12
<1>14. QED
  BY <1>2, <1>7, <1>13, SectionTaken

\* The text of a section that is not too long.
LEMMA ContentFits ==
  ASSUME Inv, next <= Len(sections), ~ Overlong(sections[next])
  PROVE  LET s == sections[next]
         IN /\ s \in SectionSet(file) /\ Content(s) \in Texts
            /\ Len(Content(s)) <= MaxSize
            /\ Ink(Content(s)) = All(LinesOf(file), s.lines)
<1>1. PICK s : s = sections[next]
  OBVIOUS
<1>2. file \in Seq(Kinds) /\ sections \in Seq(SectionSet(file)) /\ next \in Nat \ {0}
  BY DEF Inv, TypeInv
<1>3. s \in SectionSet(file)
  BY <1>1, <1>2
<1>4. s.lines \in Seq(DOMAIN file)
  BY <1>3 DEF SectionSet
<1>5. Content(s) \in Texts /\ Ink(Content(s)) = All(LinesOf(file), s.lines)
  BY <1>2, <1>4, JoinLinesKeepsInk DEF Content
<1>6. Len(Content(s)) <= MaxSize
  <2>1. Len(Content(s)) \in Nat /\ MaxSize \in Nat
    BY <1>5, SizesAssumption DEF Texts
  <2>2. QED
    BY <1>1, <2>1 DEF Overlong
<1>7. QED
  BY <1>1, <1>3, <1>5, <1>6

\* A section that does not fit any more starts what is pending next.
LEMMA StartNextKeeps ==
  ASSUME Inv, StartNext
  PROVE  Inv'
<1>1. PICK s, t, r : s = sections[next] /\ t = Content(s) /\ r = raw \o Collected
  OBVIOUS
<1> DEFINE p == [text |-> t, path |-> s.path, from |-> s.from, to |-> s.to]
<1>2. /\ phase = "chunk" /\ next <= Len(sections) /\ ~ Overlong(s)
      /\ raw' = r /\ pending' = p /\ next' = next + 1
      /\ UNCHANGED <<phase, file, fence, stack, cur, start, sections>>
  BY <1>1 DEF StartNext
<1>3. pending \in Short /\ raw \in Seq(FitIn(sections))
  BY DEF Inv, TypeInv
<1>4. /\ s \in SectionSet(file) /\ t \in Texts /\ Len(t) <= MaxSize
      /\ Ink(t) = All(LinesOf(file), s.lines)
  BY <1>1, <1>2, ContentFits
<1>5. p \in Short /\ p.text = t
  BY <1>4 DEF Short, ChunkSet, SectionSet
<1>6. /\ r \in Seq(FitIn(sections))
      /\ All(InkOfChunk, r) = All(InkOfChunk, raw) \o Ink(pending.text)
  BY <1>1, <1>3, FlushKeepsInk
<1> HIDE DEF p
<1>7. All(InkOfChunk, r) \o Ink(p.text)
        = (All(InkOfChunk, raw) \o Ink(pending.text))
            \o All(LinesOf(file), sections[next].lines)
  BY Zenon, <1>1, <1>4, <1>5, <1>6
<1>8. QED
  BY <1>2, <1>5, <1>6, <1>7, SectionTaken

\* A section that fits is joined to what is pending, and a full chunk is made.
LEMMA AddNextKeeps ==
  ASSUME Inv, AddNext
  PROVE  Inv'
<1>1. PICK s, t : s = sections[next] /\ t = Content(s)
  OBVIOUS
<1> DEFINE joined == JoinBlocks(pending.text, t)
           path == IF pending.path = <<>> THEN s.path ELSE pending.path
           from == FirstLine(s)
           sum == [text |-> joined, path |-> path, from |-> from, to |-> s.to]
           full == Len(sum.text) >= TargetSize
           A == All(InkOfChunk, raw)
           P == Ink(pending.text)
           C == Ink(t)
<1>2. /\ phase = "chunk" /\ next <= Len(sections) /\ ~ Overlong(s) /\ ~ Overflows(s)
      /\ raw' = (IF full THEN Append(raw, sum) ELSE raw)
      /\ pending' = (IF full THEN Nothing ELSE sum) /\ next' = next + 1
      /\ UNCHANGED <<phase, file, fence, stack, cur, start, sections>>
  BY <1>1 DEF AddNext
<1>3. /\ pending \in Short /\ raw \in Seq(FitIn(sections)) /\ raw \in Seq(ChunkSet)
  BY FitsAreChunks DEF Inv, TypeInv
<1>4. /\ s \in SectionSet(file) /\ t \in Texts /\ Len(t) <= MaxSize
      /\ C = All(LinesOf(file), s.lines)
  BY <1>1, <1>2, ContentFits
<1>5. /\ pending.text \in Texts /\ pending.path \in Seq(Nat) /\ pending.from \in Int
      /\ s.path \in Seq(Nat) /\ s.from \in Int /\ s.to \in Int
  BY <1>3, <1>4 DEF Short, ChunkSet, SectionSet
<1>6. /\ joined \in Texts /\ Ink(joined) = P \o C
      /\ pending.text = <<>> => Len(joined) <= Len(t)
  BY <1>4, <1>5, JoinBlocksKeepsInk
<1>7. path \in Seq(Nat) /\ from \in Int
  BY <1>5 DEF FirstLine
<1>8. Len(joined) <= MaxSize
  <2>1. Len(joined) \in Nat /\ Len(t) \in Nat /\ MaxSize \in Nat
    BY <1>4, <1>6, SizesAssumption DEF Texts
  <2>2. ~ (pending.text # <<>> /\ Len(joined) > MaxSize)
    BY <1>1, <1>2 DEF Overflows
  <2> HIDE DEF joined
  <2>3. QED
    BY <1>4, <1>6, <2>1, <2>2
<1> HIDE DEF joined, path, from
<1>9. sum \in Short /\ sum.text = joined
  BY <1>5, <1>6, <1>7, <1>8 DEF Short, ChunkSet
<1>10. A \in Seq(Nat) /\ P \in Seq(Nat) /\ C \in Seq(Nat)
  BY <1>3, <1>4, <1>5, InkOfChunks, AllIsText, InkIsText DEF Texts
<1>11. A \o (P \o C) = (A \o P) \o C /\ (A \o P) \o C \in Seq(Nat)
  <2>1. PICK a, b, c : a = A /\ b = P /\ c = C
    OBVIOUS
  <2>2. a \in Seq(Nat) /\ b \in Seq(Nat) /\ c \in Seq(Nat)
    BY <1>10, <2>1
  <2>3. a \o (b \o c) = (a \o b) \o c
    BY Zenon, <2>2, ConcatTexts
  <2>4. (a \o b) \o c \in Seq(Nat)
    BY <2>2
  <2>5. QED
    BY Zenon, <2>1, <2>3, <2>4
<1>12. (A \o P) \o C
         = (All(InkOfChunk, raw) \o Ink(pending.text))
             \o All(LinesOf(file), sections[next].lines)
  BY Zenon, <1>1, <1>4
<1>13. PICK u : u = sum
  OBVIOUS
<1> HIDE DEF sum, A, P, C
<1>14. u \in Short /\ u \in ChunkSet /\ u \in FitIn(sections) /\ Ink(u.text) = P \o C
  BY <1>6, <1>9, <1>13, FitsAreChunks
<1>15. CASE full
  <2>1. PICK r : r = Append(raw, u)
    OBVIOUS
  <2>2. raw' = r /\ pending' = Nothing
    BY <1>2, <1>13, <1>15, <2>1
  <2>3. r \in Seq(FitIn(sections))
    BY <1>3, <1>14, <2>1
  <2>4. All(InkOfChunk, r) = A \o (P \o C)
    <3>1. PICK c : c = raw
      OBVIOUS
    <3>2. c \in Seq(ChunkSet)
      BY <1>3, <3>1
    <3>3. All(InkOfChunk, Append(c, u)) = All(InkOfChunk, c) \o InkOfChunk[u]
      BY <1>14, <3>2, InkOfChunks, AllAppend
    <3>4. InkOfChunk[u] = P \o C
      BY <1>14, InkOfChunks
    <3>5. QED
      BY Zenon, <2>1, <3>1, <3>3, <3>4 DEF A
  <2>5. ((A \o P) \o C) \o <<>> = (A \o P) \o C
    BY <1>11
  <2>6. All(InkOfChunk, r) \o Ink(Nothing.text)
          = (All(InkOfChunk, raw) \o Ink(pending.text))
              \o All(LinesOf(file), sections[next].lines)
    BY Zenon, <1>11, <1>12, <2>4, <2>5, InkOfNone, NothingIsShort
  <2>7. QED
    BY <1>2, <2>2, <2>3, <2>6, NothingIsShort, SectionTaken
<1>16. CASE ~ full
  <2>1. raw' = raw /\ pending' = u
    BY <1>2, <1>13, <1>16
  <2>2. All(InkOfChunk, raw) \o Ink(u.text)
          = (All(InkOfChunk, raw) \o Ink(pending.text))
              \o All(LinesOf(file), sections[next].lines)
    BY Zenon, <1>11, <1>12, <1>14 DEF A
  <2>3. PICK r : r = raw
    OBVIOUS
  <2>4. r \in Seq(FitIn(sections)) /\ raw' = r
        /\ All(InkOfChunk, r) \o Ink(u.text)
             = (All(InkOfChunk, raw) \o Ink(pending.text))
                 \o All(LinesOf(file), sections[next].lines)
    BY <1>3, <2>1, <2>2, <2>3
  <2>5. QED
    BY <1>2, <1>14, <2>1, <2>4, SectionTaken
<1>17. QED
  BY <1>15, <1>16

\* A chunk that is stripped still fits: blocks of code have no blanks around.
LEMMA StrippedFits ==
  ASSUME file \in Seq(Kinds), sections \in Seq(SectionSet(file)),
         NEW c \in FitIn(sections)
  PROVE  LET new == [c EXCEPT !.text = Strip(@)]
         IN /\ new \in FitIn(sections) /\ new \in ChunkSet
            /\ InkOfChunk[new] = InkOfChunk[c]
            /\ new.text = <<>> => InkOfChunk[new] = <<>>
<1>1. PICK t : t = Strip(c.text)
  OBVIOUS
<1> DEFINE new == [c EXCEPT !.text = Strip(@)]
<1>2. /\ c \in ChunkSet /\ c.text \in Texts
      /\ Len(c.text) <= MaxSize \/ \E s \in ToSet(sections) : KeptCode(c.text, Blocks(s.lines))
  BY InkOfChunks DEF FitIn
<1>3. t \in Texts /\ Len(t) <= Len(c.text) /\ Ink(t) = Ink(c.text)
  BY <1>1, <1>2, StripKeepsInk
<1>4. new = [text |-> t, path |-> c.path, from |-> c.from, to |-> c.to]
  BY <1>1, <1>2 DEF ChunkSet
<1> HIDE DEF new
<1>5. new \in ChunkSet /\ new.text = t
  BY <1>2, <1>3, <1>4 DEF ChunkSet
<1>6. InkOfChunk[new] = Ink(t) /\ InkOfChunk[c] = Ink(c.text)
  BY <1>2, <1>5, InkOfChunks
<1>7. new \in FitIn(sections)
  <2>1. CASE Len(c.text) <= MaxSize
    <3>1. Len(t) \in Nat /\ Len(c.text) \in Nat /\ MaxSize \in Nat
      BY <1>2, <1>3, SizesAssumption DEF Texts
    <3>2. Len(t) <= MaxSize
      BY <1>3, <2>1, <3>1
    <3>3. QED
      BY <1>5, <3>2 DEF FitIn
  <2>2. CASE \E s \in ToSet(sections) : KeptCode(c.text, Blocks(s.lines))
    <3>1. PICK s \in ToSet(sections) : KeptCode(c.text, Blocks(s.lines))
      BY <2>2
    <3>2. PICK b \in ToSet(Blocks(s.lines)) : c.text = JoinLines(b.lines)
      BY <3>1 DEF KeptCode
    <3>3. s \in SectionSet(file)
      BY DEF ToSet
    <3>4. s.lines \in Seq(DOMAIN file)
      BY <3>3 DEF SectionSet
    <3>5. Blocks(s.lines) \in Seq(BlockSet)
      BY <3>4, BlocksKeepLines
    <3>6. b \in BlockSet
      BY <3>2, <3>5 DEF ToSet
    <3>7. b.lines \in Seq(DOMAIN file) /\ Trimmed(b.lines)
      BY <3>6 DEF BlockSet
    <3>8. t = c.text
      BY <1>1, <3>2, <3>7, JoinOfTrimmed
    <3>9. QED
      BY <1>5, <3>1, <3>8 DEF FitIn
  <2>3. QED
    BY <1>2, <2>1, <2>2
<1>8. QED
  BY <1>3, <1>5, <1>6, <1>7, InkOfNone DEF new

\* At the end every section has been taken; texts are stripped, and only empty
\* ones are left out.
LEMMA EndOfSectionsKeeps ==
  ASSUME Inv, EndOfSections
  PROVE  Inv'
<1>1. PICK all : all = raw \o Collected
  OBVIOUS
<1> DEFINE strip(c) == [c EXCEPT !.text = Strip(@)]
           stripped == [i \in DOMAIN all |-> strip(all[i])]
           keep == {i \in DOMAIN stripped : stripped[i].text # <<>>}
<1>2. /\ phase = "chunk" /\ next > Len(sections)
      /\ raw' = Where(stripped, keep) /\ pending' = Nothing /\ phase' = "done"
      /\ UNCHANGED <<file, fence, stack, cur, start, sections, next>>
  BY <1>1 DEF EndOfSections
<1>3. /\ file \in Seq(Kinds) /\ sections \in Seq(SectionSet(file)) /\ next \in Nat \ {0}
      /\ pending \in Short /\ raw \in Seq(FitIn(sections))
      /\ stack \in Seq(Nat) /\ cur \in Seq(DOMAIN file) /\ start \in Int
  BY DEF Inv, TypeInv
<1>4. /\ all \in Seq(FitIn(sections)) /\ all \in Seq(ChunkSet)
      /\ All(InkOfChunk, all) = All(InkOfChunk, raw) \o Ink(pending.text)
  BY <1>1, <1>3, FlushKeepsInk
<1>5. ASSUME NEW i \in DOMAIN all
      PROVE  /\ strip(all[i]) \in FitIn(sections) /\ strip(all[i]) \in ChunkSet
             /\ InkOfChunk[strip(all[i])] = InkOfChunk[all[i]]
             /\ strip(all[i]).text = <<>> => InkOfChunk[strip(all[i])] = <<>>
  <2>1. PICK c : c = all[i]
    OBVIOUS
  <2>2. c \in FitIn(sections)
    BY <1>4, <2>1
  <2>3. QED
    BY <1>3, <2>1, <2>2, StrippedFits
<1> HIDE DEF strip
<1>6. /\ stripped \in Seq(FitIn(sections)) /\ stripped \in Seq(ChunkSet)
      /\ DOMAIN stripped = DOMAIN all
  <2>1. DOMAIN all = 1 .. Len(all) /\ Len(all) \in Nat
    BY <1>4
  <2>2. stripped \in [1 .. Len(all) -> FitIn(sections)]
        /\ stripped \in [1 .. Len(all) -> ChunkSet]
    BY <1>5, <2>1
  <2>3. QED
    BY <2>1, <2>2
<1>7. All(InkOfChunk, stripped) = All(InkOfChunk, all)
  <2>1. [i \in DOMAIN stripped |-> InkOfChunk[stripped[i]]]
          = [i \in DOMAIN all |-> InkOfChunk[all[i]]]
    BY <1>5, <1>6
  <2>2. QED
    BY Zenon, <2>1 DEF All
<1>8. \A i \in DOMAIN stripped : i \notin keep => InkOfChunk[stripped[i]] = <<>>
  BY <1>5, <1>6
<1> HIDE DEF stripped, keep
<1>9. Where(stripped, keep) \in Seq(FitIn(sections))
  BY <1>6, WhereIsSeq
<1>10. All(InkOfChunk, Where(stripped, keep)) = All(InkOfChunk, stripped)
  BY <1>6, <1>8, InkOfChunks, AllOfWhere
<1>11. All(InkOfChunk, all) = Whole(file)
  <2>1. /\ next <= Len(sections) + 1
        /\ All(LinesOfSection(file), sections) = Whole(file)
        /\ All(InkOfChunk, raw) \o Ink(pending.text)
             = All(LinesOfSection(file), SubSeq(sections, 1, next - 1))
    BY <1>2 DEF Inv, Chunked
  <2>2. next - 1 = Len(sections) /\ SubSeq(sections, 1, Len(sections)) = sections
    BY <1>2, <1>3, <2>1, SubSeqFull
  <2>3. QED
    BY Zenon, <1>4, <2>1, <2>2
<1>12. Finished'
  BY Zenon, <1>2, <1>7, <1>10, <1>11 DEF Finished
<1>13. TypeInv'
  <2>1. PICK r : r = Where(stripped, keep)
    OBVIOUS
  <2>2. r \in Seq(FitIn(sections)) /\ raw' = r
    BY <1>2, <1>9, <2>1
  <2>3. raw' \in Seq(FitIn(sections)')
    BY <1>2, <2>2, SameFile
  <2>4. QED
    BY <1>2, <1>3, <2>3, NothingIsShort DEF TypeInv
<1>14. Parsed' /\ Chunked'
  BY <1>2 DEF Parsed, Chunked
<1>15. QED
  BY <1>12, <1>13, <1>14 DEF Inv

-----------------------------------------------------------------------------
(***************************************************************************)
(* The chunks hold the whole note and fit.                                 *)
(***************************************************************************)
\* A step that changes nothing.
LEMMA NothingChanges ==
  ASSUME Inv, UNCHANGED vars
  PROVE  Inv'
<1>1. /\ phase' = phase /\ file' = file /\ stack' = stack /\ cur' = cur
      /\ start' = start /\ sections' = sections /\ next' = next
      /\ pending' = pending /\ raw' = raw
  BY DEF vars
<1>2. TypeInv'
  <2>1. raw \in Seq(FitIn(sections)')
    BY <1>1, SameFile DEF Inv, TypeInv
  <2>2. QED
    BY <1>1, <2>1 DEF Inv, TypeInv
<1>3. Parsed' /\ Chunked' /\ Finished'
  BY <1>1 DEF Inv, Parsed, Chunked, Finished, Done
<1>4. QED
  BY <1>2, <1>3 DEF Inv

\* Type correctness and, in every reachable state, that the lines read so far are
\* those of the sections cut and of the section being read, and that the chunks
\* made and what is pending hold the lines of the sections taken, in order.
THEOREM Invariant == Spec => []Inv
<1>1. Init => Inv
  BY InitInv
<1>2. ASSUME Inv, [Next]_vars PROVE Inv'
  <2>1. CASE \E k \in Kinds : ReadHeading(k)
    BY <1>2, <2>1, ReadHeadingKeeps
  <2>2. CASE \E k \in Kinds : ReadLine(k)
    BY <1>2, <2>2, ReadLineKeeps
  <2>3. CASE EndOfFile
    BY <1>2, <2>3, EndOfFileKeeps
  <2>4. CASE SplitNext
    BY <1>2, <2>4, SplitNextKeeps
  <2>5. CASE StartNext
    BY <1>2, <2>5, StartNextKeeps
  <2>6. CASE AddNext
    BY <1>2, <2>6, AddNextKeeps
  <2>7. CASE EndOfSections
    BY <1>2, <2>7, EndOfSectionsKeeps
  <2>8. CASE UNCHANGED vars
    BY <1>2, <2>8, NothingChanges
  <2>9. QED
    BY <1>2, <2>1, <2>2, <2>3, <2>4, <2>5, <2>6, <2>7, <2>8 DEF Next
<1>3. QED
  BY <1>1, <1>2, PTL DEF Spec

\* When a note has been chunked its chunks hold every character of the file, once
\* and in order, for every note, every length of the lines and every pair of
\* sizes: neither the joins nor the packing nor the hard cuts of chunker.py lose,
\* repeat or reorder anything.
THEOREM NothingIsLost == Spec => []TextIsKept
<1>1. Inv => TextIsKept
  <2> SUFFICES ASSUME Inv, Done
               PROVE  FlattenSeq([i \in DOMAIN raw |-> Text(raw[i])])
                        = FlattenSeq([n \in DOMAIN file |-> LineText(n)])
    BY DEF TextIsKept
  <2>1. file \in Seq(Kinds) /\ raw \in Seq(ChunkSet)
    BY FitsAreChunks DEF Inv, TypeInv
  <2>2. \A i \in DOMAIN raw : Text(raw[i]) = InkOfChunk[raw[i]]
    <3>1. ASSUME NEW i \in DOMAIN raw PROVE Text(raw[i]) = InkOfChunk[raw[i]]
      <4>1. PICK c : c = raw[i]
        OBVIOUS
      <4>2. c \in ChunkSet
        BY <2>1, <4>1
      <4>3. Text(c) = Ink(c.text)
        BY DEF Text, Ink
      <4>4. QED
        BY <4>1, <4>2, <4>3, InkOfChunks
    <3>2. QED
      BY <3>1
  <2>3. \A n \in DOMAIN file : LineText(n) = LinesOf(file)[n]
    BY <2>1, LineIsText
  <2>4. [i \in DOMAIN raw |-> Text(raw[i])] = [i \in DOMAIN raw |-> InkOfChunk[raw[i]]]
    BY <2>2
  <2>5. [n \in DOMAIN file |-> LineText(n)] = [n \in DOMAIN file |-> LinesOf(file)[n]]
    BY <2>3
  <2>6. All(InkOfChunk, raw) = Whole(file)
    BY DEF Inv, Finished
  <2>7. QED
    BY Zenon, <2>4, <2>5, <2>6 DEF All, Whole
<1>2. QED
  BY Invariant, <1>1, PTL

-----------------------------------------------------------------------------
(***************************************************************************)
(* First, last and other characters.                                       *)
(***************************************************************************)
\* The ends of a join are those of its parts, unless these are empty.
LEMMA ConcatEnds ==
  ASSUME NEW t \in Texts, NEW u \in Texts
  PROVE  /\ t # <<>> => t \o u # <<>> /\ Head(t \o u) = Head(t)
         /\ u # <<>> => t \o u # <<>> /\ Last(t \o u) = Last(u)
         /\ ToSet(t \o u) = ToSet(t) \cup ToSet(u)
<1>1. t \in Seq(Nat) /\ u \in Seq(Nat)
  BY DEF Texts
<1>2. t # <<>> => t \o u # <<>> /\ Head(t \o u) = Head(t)
  BY <1>1
<1>3. u # <<>> => t \o u # <<>> /\ Last(t \o u) = Last(u)
  BY <1>1 DEF Last
<1>4. ToSet(t \o u) = ToSet(t) \cup ToSet(u)
  <2>1. ASSUME NEW c \in ToSet(t \o u) PROVE c \in ToSet(t) \cup ToSet(u)
    <3>1. PICK i \in DOMAIN (t \o u) : c = (t \o u)[i]
      BY DEF ToSet
    <3>2. CASE i \in DOMAIN t
      BY <1>1, <3>1, <3>2 DEF ToSet
    <3>3. CASE i \notin DOMAIN t
      <4>1. i - Len(t) \in DOMAIN u /\ c = u[i - Len(t)]
        BY <1>1, <3>1, <3>3
      <4>2. QED
        BY <4>1 DEF ToSet
    <3>4. QED
      BY <3>2, <3>3
  <2>2. ASSUME NEW c \in ToSet(t) PROVE c \in ToSet(t \o u)
    <3>1. PICK i \in DOMAIN t : c = t[i]
      BY DEF ToSet
    <3>2. i \in DOMAIN (t \o u) /\ c = (t \o u)[i]
      BY <1>1, <3>1
    <3>3. QED
      BY <3>2 DEF ToSet
  <2>3. ASSUME NEW c \in ToSet(u) PROVE c \in ToSet(t \o u)
    <3>1. PICK i \in DOMAIN u : c = u[i]
      BY DEF ToSet
    <3>2. i + Len(t) \in DOMAIN (t \o u) /\ c = (t \o u)[i + Len(t)]
      BY <1>1, <3>1
    <3>3. QED
      BY <3>2 DEF ToSet
  <2>4. QED
    BY <2>1, <2>2, <2>3
<1>5. QED
  BY <1>2, <1>3, <1>4

\* The first character of a text is that of its first element, if that has one,
\* and so at the end.
LEMMA EndsOfAll ==
  ASSUME NEW S, NEW g \in [S -> Texts], NEW s \in Seq(S), s # <<>>
  PROVE  /\ g[s[1]] # <<>> => All(g, s) # <<>> /\ Head(All(g, s)) = Head(g[s[1]])
         /\ g[s[Len(s)]] # <<>> =>
              All(g, s) # <<>> /\ Last(All(g, s)) = Last(g[s[Len(s)]])
<1>1. /\ s[1] \in S /\ s[Len(s)] \in S /\ Len(s) \in Nat \ {0}
      /\ Tail(s) \in Seq(S) /\ SubSeq(s, 1, Len(s) - 1) \in Seq(S)
      /\ s = <<s[1]>> \o Tail(s) /\ s = Append(SubSeq(s, 1, Len(s) - 1), s[Len(s)])
  OBVIOUS
<1>2. PICK a, z, rest, front : /\ a = s[1] /\ z = s[Len(s)] /\ rest = Tail(s)
                               /\ front = SubSeq(s, 1, Len(s) - 1)
  OBVIOUS
<1>3. /\ a \in S /\ z \in S /\ rest \in Seq(S) /\ front \in Seq(S) /\ <<a>> \in Seq(S)
      /\ s = <<a>> \o rest /\ s = Append(front, z)
  BY <1>1, <1>2
<1>4. All(g, <<a>> \o rest) = All(g, <<a>>) \o All(g, rest) /\ All(g, <<a>>) = g[a]
  BY <1>3, AllConcat, AllOne
<1>5. All(g, Append(front, z)) = All(g, front) \o g[z]
  BY <1>3, AllAppend
<1>6. All(g, s) = g[a] \o All(g, rest) /\ All(g, s) = All(g, front) \o g[z]
  BY Zenon, <1>3, <1>4, <1>5
<1>7. g[a] \in Texts /\ g[z] \in Texts /\ All(g, rest) \in Texts /\ All(g, front) \in Texts
  BY <1>3, AllIsText
<1>8. g[a] # <<>> => All(g, s) # <<>> /\ Head(All(g, s)) = Head(g[a])
  BY <1>6, <1>7, ConcatEnds
<1>9. g[z] # <<>> => All(g, s) # <<>> /\ Last(All(g, s)) = Last(g[z])
  BY <1>6, <1>7, ConcatEnds
<1>10. QED
  BY <1>2, <1>8, <1>9

\* The characters of a text of elements are those of the elements.
LEMMA ElementsOfAll ==
  ASSUME NEW S, NEW g \in [S -> Texts], NEW s \in Seq(S)
  PROVE  /\ \A c \in ToSet(All(g, s)) : \E i \in DOMAIN s : c \in ToSet(g[s[i]])
         /\ \A i \in DOMAIN s : ToSet(g[s[i]]) \subseteq ToSet(All(g, s))
<1> DEFINE From(u) == \A c \in ToSet(All(g, u)) : \E i \in DOMAIN u : c \in ToSet(g[u[i]])
           Into(u) == \A i \in DOMAIN u : ToSet(g[u[i]]) \subseteq ToSet(All(g, u))
           T == {u \in Seq(S) : From(u) /\ Into(u)}
<1>1. <<>> \in T
  <2>1. ToSet(All(g, <<>>)) = {} /\ <<>> \in Seq(S) /\ DOMAIN <<>> = {}
    BY AllOfNone DEF ToSet
  <2>2. QED
    BY <2>1
<1>2. ASSUME NEW u \in Seq(S), NEW e \in S, u \in T PROVE Append(u, e) \in T
  <2>1. All(g, Append(u, e)) = All(g, u) \o g[e]
    BY AllAppend
  <2>2. All(g, u) \in Texts /\ g[e] \in Texts
    BY AllIsText
  <2>3. ToSet(All(g, Append(u, e))) = ToSet(All(g, u)) \cup ToSet(g[e])
    BY <2>1, <2>2, ConcatEnds
  <2>4. /\ DOMAIN Append(u, e) = DOMAIN u \cup {Len(u) + 1}
        /\ \A i \in DOMAIN u : Append(u, e)[i] = u[i]
        /\ Append(u, e)[Len(u) + 1] = e /\ Append(u, e) \in Seq(S)
    OBVIOUS
  <2>5. From(u) /\ Into(u)
    BY <1>2
  <2>6. PICK v : v = Append(u, e)
    OBVIOUS
  <2>7. From(v)
    BY <2>3, <2>4, <2>5, <2>6
  <2>8. Into(v)
    BY <2>3, <2>4, <2>5, <2>6
  <2>9. QED
    BY <2>4, <2>6, <2>7, <2>8
<1>3. Seq(S) \subseteq T
  <2> HIDE DEF T
  <2>1. QED
    BY <1>1, <1>2, AllSequences
<1>4. QED
  BY <1>3

\* A join of texts with such edges has them.
LEMMA JoinIsEdged ==
  ASSUME NEW left \in Texts, NEW right \in Texts, Edged(right),
         left = <<>> \/ Edged(left)
  PROVE  /\ Edged(JoinBlocks(left, right))
         /\ left = <<>> => JoinBlocks(left, right) = right
<1>1. left \in Seq(Nat) /\ right \in Seq(Nat) /\ right # <<>>
  BY DEF Texts, Edged
<1>2. CASE left = <<>>
  <2>1. left \o right = right
    BY <1>1, <1>2
  <2>2. JoinBlocks(left, right) = right
    BY <1>2, <2>1, StripOfEdged DEF JoinBlocks
  <2>3. QED
    BY <2>2
<1>3. CASE left # <<>>
  <2>1. JoinBlocks(left, right) = RStrip(left) \o <<0, 0>> \o right
    BY <1>1, <1>3, StripOfEdged DEF JoinBlocks
  <2>2. RStrip(left) = left
    <3> DEFINE keep == {i \in DOMAIN left : \E j \in Marks(left) : i <= j}
    <3>1. Len(left) \in Nat \ {0} /\ DOMAIN left = 1 .. Len(left) /\ left[Len(left)] # 0
      BY <1>1, <1>3 DEF Edged
    <3>2. keep = 1 .. Len(left)
      BY <3>1 DEF Marks
    <3>3. Min(1 .. Len(left)) = 1 /\ Max(1 .. Len(left)) = Len(left)
      <4>1. 1 .. Len(left) \in SUBSET (1 .. Len(left)) /\ 1 .. Len(left) # {}
        BY <3>1
      <4>2. /\ Min(1 .. Len(left)) \in 1 .. Len(left)
            /\ \A i \in 1 .. Len(left) : Min(1 .. Len(left)) <= i
        BY <3>1, <4>1, MinOf
      <4>3. 1 \in 1 .. Len(left)
        BY <3>1
      <4>4. QED
        BY <3>1, <4>2, <4>3, MaxOfInterval
    <3>4. RStrip(left) = SubSeq(left, 1, Len(left))
      <4>1. RStrip(left) = Between(left, keep) /\ 1 .. Len(left) # {}
        BY <3>1 DEF RStrip
      <4> HIDE DEF keep
      <4>2. QED
        BY <3>2, <3>3, <4>1 DEF Between
    <3>5. QED
      BY <1>1, <3>4, SubSeqFull
  <2>3. PICK t : t = left \o <<0, 0>> \o right
    OBVIOUS
  <2>4. left[1] # 0 /\ right[Len(right)] # 0
    BY <1>3 DEF Edged
  <2>5. t # <<>> /\ t[1] = left[1] /\ t[Len(t)] = right[Len(right)]
    BY <1>1, <1>3, <2>3
  <2>6. QED
    BY <1>3, <2>1, <2>2, <2>3, <2>4, <2>5 DEF Edged
<1>4. QED
  BY <1>2, <1>3

-----------------------------------------------------------------------------
(***************************************************************************)
(* What Where leaves out is left out, and what it takes stays in order.    *)
(***************************************************************************)
\* w holds elements of s at positions in keep; between the positions of two that
\* are next to each other, and after the last one, there is none in keep.
Picks(w, s, keep) ==
  /\ \A i \in DOMAIN w : \E p \in DOMAIN s : p \in keep /\ w[i] = s[p]
  /\ \A i \in DOMAIN w : i + 1 \in DOMAIN w =>
       \E p, q \in DOMAIN s :
         /\ p < q /\ p \in keep /\ q \in keep /\ w[i] = s[p] /\ w[i + 1] = s[q]
         /\ \A m \in p + 1 .. q - 1 : m \notin keep
  /\ w = <<>> => \A m \in DOMAIN s : m \notin keep
  /\ w # <<>> => \E p \in DOMAIN s : /\ p \in keep /\ w[Len(w)] = s[p]
                                     /\ \A m \in p + 1 .. Len(s) : m \notin keep

\* One more element is taken out of a sequence, or it is not.
LEMMA WhereAppend ==
  ASSUME NEW S, NEW s \in Seq(S), NEW e \in S, NEW keep
  PROVE  Where(Append(s, e), keep)
           = IF Len(s) + 1 \in keep THEN Append(Where(s, keep), e) ELSE Where(s, keep)
<1> DEFINE part(u, i) == IF i \in keep THEN <<u[i]>> ELSE <<>>
           parts(u) == [i \in DOMAIN u |-> part(u, i)]
           last == IF Len(s) + 1 \in keep THEN <<e>> ELSE <<>>
<1>1. PICK v : v = Append(s, e)
  OBVIOUS
<1>2. /\ v \in Seq(S) /\ Len(s) \in Nat /\ DOMAIN s = 1 .. Len(s)
      /\ DOMAIN v = 1 .. Len(s) + 1 /\ v[Len(s) + 1] = e
      /\ \A i \in DOMAIN s : v[i] = s[i] /\ s[i] \in S
  BY <1>1
<1>3. last \in Seq(S)
  OBVIOUS
<1>4. part(v, Len(s) + 1) = last /\ \A i \in DOMAIN s : part(v, i) = part(s, i)
  BY <1>2
<1>5. \A i \in DOMAIN s : part(s, i) \in Seq(S)
  BY <1>2
<1>6. Where(v, keep) = FlattenSeq(parts(v)) /\ Where(s, keep) = FlattenSeq(parts(s))
  BY DEF Where
<1> HIDE DEF part, last
<1>7. parts(s) \in Seq(Seq(S))
  <2>1. parts(s) \in [1 .. Len(s) -> Seq(S)]
    BY <1>2, <1>5
  <2>2. QED
    BY <1>2, <2>1
<1>8. parts(v) = Append(parts(s), last)
  <2>1. Len(parts(s)) = Len(s) /\ DOMAIN parts(s) = 1 .. Len(s)
    BY <1>2
  <2>2. QED
    BY <1>2, <1>4, <2>1
<1>9. PICK p : p = parts(s)
  OBVIOUS
<1>10. FlattenSeq(Append(p, last)) = FlattenSeq(p) \o last
  BY <1>3, <1>7, <1>9, FlattenAppend
<1>11. Where(v, keep) = Where(s, keep) \o last
  BY Zenon, <1>6, <1>8, <1>9, <1>10
<1>12. Where(s, keep) \in Seq(S)
  BY WhereIsSeq
<1>13. PICK w : w = Where(s, keep)
  OBVIOUS
<1>14. w \in Seq(S) /\ w \o <<>> = w /\ w \o <<e>> = Append(w, e)
  BY <1>12, <1>13
<1>15. QED
  BY <1>1, <1>11, <1>13, <1>14 DEF last

\* The elements that are taken out keep their order, and none between two of them
\* was to be taken.
LEMMA WherePicks ==
  ASSUME NEW S, NEW s \in Seq(S), NEW keep
  PROVE  Picks(Where(s, keep), s, keep)
<1> DEFINE T == {u \in Seq(S) : Picks(Where(u, keep), u, keep)}
<1>1. <<>> \in T
  <2>1. Where(<<>>, keep) = <<>>
    <3>1. [i \in DOMAIN <<>> |-> IF i \in keep THEN << <<>>[i] >> ELSE <<>>] = <<>>
      OBVIOUS
    <3>2. QED
      BY <3>1, FlattenEmpty DEF Where
  <2>2. Picks(<<>>, <<>>, keep)
    BY DEF Picks
  <2>3. QED
    BY <2>1, <2>2
<1>2. ASSUME NEW u \in Seq(S), NEW e \in S, u \in T PROVE Append(u, e) \in T
  <2>1. PICK w, v, n : w = Where(u, keep) /\ v = Append(u, e) /\ n = Len(u)
    OBVIOUS
  <2>2. Picks(w, u, keep) /\ w \in Seq(S)
    BY <1>2, <2>1, WhereIsSeq
  <2>3. /\ v \in Seq(S) /\ n \in Nat /\ DOMAIN u = 1 .. n /\ DOMAIN v = 1 .. n + 1
        /\ Len(v) = n + 1 /\ v[n + 1] = e /\ \A i \in 1 .. n : v[i] = u[i]
    BY <2>1
  <2>4. CASE n + 1 \in keep
    <3>1. PICK x, k : x = Append(w, e) /\ k = Len(w)
      OBVIOUS
    <3>2. /\ x \in Seq(S) /\ k \in Nat /\ DOMAIN w = 1 .. k /\ DOMAIN x = 1 .. k + 1
          /\ Len(x) = k + 1 /\ x[k + 1] = e /\ \A i \in 1 .. k : x[i] = w[i]
      BY <2>2, <3>1
    <3>3. Where(v, keep) = x
      BY <2>1, <2>4, <3>1, WhereAppend
    <3>4. ASSUME NEW i \in DOMAIN x
          PROVE  \E p \in DOMAIN v : p \in keep /\ x[i] = v[p]
      <4>1. CASE i = k + 1
        BY <2>3, <2>4, <3>2, <4>1
      <4>2. CASE i # k + 1
        <5>1. i \in DOMAIN w
          BY <3>2, <4>2
        <5>2. PICK p \in DOMAIN u : p \in keep /\ w[i] = u[p]
          BY <2>2, <5>1 DEF Picks
        <5>3. QED
          BY <2>3, <3>2, <5>1, <5>2
      <4>3. QED
        BY <4>1, <4>2
    <3>5. ASSUME NEW i \in DOMAIN x, i + 1 \in DOMAIN x
          PROVE  \E p, q \in DOMAIN v :
                   /\ p < q /\ p \in keep /\ q \in keep /\ x[i] = v[p] /\ x[i + 1] = v[q]
                   /\ \A m \in p + 1 .. q - 1 : m \notin keep
      <4>1. CASE i = k
        <5>1. k # 0 /\ w # <<>>
          BY <3>2, <4>1
        <5>2. PICK p \in DOMAIN u : /\ p \in keep /\ w[k] = u[p]
                                    /\ \A m \in p + 1 .. n : m \notin keep
          BY <2>1, <2>2, <3>1, <5>1 DEF Picks
        <5>3. /\ p \in DOMAIN v /\ n + 1 \in DOMAIN v /\ p < n + 1
              /\ x[i] = v[p] /\ x[i + 1] = v[n + 1] /\ (n + 1) - 1 = n
          BY <2>3, <3>2, <4>1, <5>1, <5>2
        <5>4. QED
          BY <2>4, <5>2, <5>3
      <4>2. CASE i # k
        <5>1. i \in DOMAIN w /\ i + 1 \in DOMAIN w
          BY <3>2, <3>5, <4>2
        <5>2. PICK p, q \in DOMAIN u :
                /\ p < q /\ p \in keep /\ q \in keep /\ w[i] = u[p] /\ w[i + 1] = u[q]
                /\ \A m \in p + 1 .. q - 1 : m \notin keep
          BY <2>2, <5>1 DEF Picks
        <5>3. /\ p \in DOMAIN v /\ q \in DOMAIN v /\ x[i] = v[p] /\ x[i + 1] = v[q]
          BY <2>3, <3>2, <5>1, <5>2
        <5>4. QED
          BY <5>2, <5>3
      <4>3. QED
        BY <4>1, <4>2
    <3>6. n + 1 \in DOMAIN v /\ x # <<>> /\ x[Len(x)] = v[n + 1]
          /\ \A m \in n + 1 + 1 .. Len(v) : m \notin keep
      BY <2>3, <3>2
    <3>7. Picks(x, v, keep)
      BY <2>4, <3>4, <3>5, <3>6 DEF Picks
    <3>8. QED
      BY <2>1, <2>3, <3>3, <3>7
  <2>5. CASE n + 1 \notin keep
    <3>1. Where(v, keep) = w
      BY <2>1, <2>5, WhereAppend
    <3>2. ASSUME NEW i \in DOMAIN w
          PROVE  \E p \in DOMAIN v : p \in keep /\ w[i] = v[p]
      <4>1. PICK p \in DOMAIN u : p \in keep /\ w[i] = u[p]
        BY <2>2 DEF Picks
      <4>2. QED
        BY <2>3, <4>1
    <3>3. ASSUME NEW i \in DOMAIN w, i + 1 \in DOMAIN w
          PROVE  \E p, q \in DOMAIN v :
                   /\ p < q /\ p \in keep /\ q \in keep /\ w[i] = v[p] /\ w[i + 1] = v[q]
                   /\ \A m \in p + 1 .. q - 1 : m \notin keep
      <4>1. PICK p, q \in DOMAIN u :
              /\ p < q /\ p \in keep /\ q \in keep /\ w[i] = u[p] /\ w[i + 1] = u[q]
              /\ \A m \in p + 1 .. q - 1 : m \notin keep
        BY <2>2, <3>3 DEF Picks
      <4>2. p \in DOMAIN v /\ q \in DOMAIN v /\ w[i] = v[p] /\ w[i + 1] = v[q]
        BY <2>3, <4>1
      <4>3. QED
        BY <4>1, <4>2
    <3>4. ASSUME w = <<>>, NEW m \in DOMAIN v PROVE m \notin keep
      <4>1. \A j \in DOMAIN u : j \notin keep
        BY <2>2, <3>4 DEF Picks
      <4>2. QED
        BY <2>3, <2>5, <4>1
    <3>5. ASSUME w # <<>>
          PROVE  \E p \in DOMAIN v : /\ p \in keep /\ w[Len(w)] = v[p]
                                     /\ \A m \in p + 1 .. Len(v) : m \notin keep
      <4>1. PICK p \in DOMAIN u : /\ p \in keep /\ w[Len(w)] = u[p]
                                  /\ \A m \in p + 1 .. n : m \notin keep
        BY <2>1, <2>2, <3>5 DEF Picks
      <4>2. p \in DOMAIN v /\ w[Len(w)] = v[p]
        BY <2>3, <4>1
      <4>3. \A m \in p + 1 .. Len(v) : m \notin keep
        BY <2>3, <2>5, <4>1
      <4>4. QED
        BY <4>1, <4>2, <4>3
    <3>6. Picks(w, v, keep)
      BY <3>2, <3>3, <3>4, <3>5 DEF Picks
    <3>7. QED
      BY <2>1, <2>3, <3>1, <3>6
  <2>6. QED
    BY <2>4, <2>5
<1>3. Seq(S) \subseteq T
  <2> HIDE DEF T
  <2>1. QED
    BY <1>1, <1>2, AllSequences
<1>4. QED
  BY <1>3

-----------------------------------------------------------------------------
(***************************************************************************)
(* The sections are in the order of their lines, and do not overlap.       *)
(***************************************************************************)
InOrder(ss) ==
  /\ \A i \in DOMAIN ss : /\ ss[i].from > 0 /\ Trimmed(ss[i].lines)
                          /\ ss[i].lines \in Seq(ss[i].from .. ss[i].to)
  /\ \A i, j \in DOMAIN ss : i < j => ss[i].to < ss[j].from

Ordered ==
  /\ InOrder(sections)
  /\ phase = "parse" =>
       /\ start \in 1 .. Len(file) + 1 /\ cur \in Seq(start .. Len(file))
       /\ \A i \in DOMAIN sections : sections[i].to < start

\* The lines of a section are lines of the file, and its range is two numbers.
LEMMA SectionsHaveRanges ==
  ASSUME NEW f, NEW ss \in Seq(SectionSet(f))
  PROVE  \A i \in DOMAIN ss :
           /\ ss[i] \in SectionSet(f) /\ ss[i].lines \in Seq(DOMAIN f)
           /\ ss[i].from \in Int /\ ss[i].to \in Int
<1>1. ASSUME NEW i \in DOMAIN ss
      PROVE  /\ ss[i] \in SectionSet(f) /\ ss[i].lines \in Seq(DOMAIN f)
             /\ ss[i].from \in Int /\ ss[i].to \in Int
  <2>1. PICK s : s = ss[i]
    OBVIOUS
  <2>2. s \in SectionSet(f)
    BY <2>1
  <2>3. s.lines \in Seq(DOMAIN f) /\ s.from \in Int /\ s.to \in Int
    BY <2>2 DEF SectionSet
  <2>4. QED
    BY <2>1, <2>2, <2>3
<1>2. QED
  BY <1>1

\* There is no section before the first line is read.
LEMMA InitOrdered == Init => Ordered
<1> SUFFICES ASSUME Init PROVE Ordered
  OBVIOUS
<1>1. file = <<>> /\ cur = <<>> /\ start = 1 /\ sections = <<>>
  BY DEF Init
<1>2. InOrder(<<>>)
  BY DEF InOrder
<1>3. Len(<<>>) = 0 /\ \A S : <<>> \in Seq(S)
  OBVIOUS
<1>4. QED
  BY <1>1, <1>2, <1>3 DEF Ordered

\* A section that is cut comes after those before it.
LEMMA FlushedInOrder ==
  ASSUME Inv, Ordered, phase = "parse"
  PROVE  /\ InOrder(Flushed(Len(file)))
         /\ \A i \in DOMAIN Flushed(Len(file)) : Flushed(Len(file))[i].to <= Len(file)
<1> DEFINE lines == Trim(cur)
           new == [lines |-> lines, path |-> stack, from |-> start, to |-> Len(file)]
<1>1. /\ file \in Seq(Kinds) /\ cur \in Seq(DOMAIN file) /\ Len(file) \in Nat
      /\ sections \in Seq(SectionSet(file)) /\ start \in 1 .. Len(file) + 1
      /\ cur \in Seq(start .. Len(file)) /\ InOrder(sections)
      /\ \A i \in DOMAIN sections : sections[i].to < start
  BY DEF Inv, TypeInv, Ordered
<1>2. lines # <<>> => Trimmed(lines)
  BY <1>1, TrimKeepsLines
<1>3. lines \in Seq(start .. Len(file))
  <2> DEFINE keep == {i \in DOMAIN cur : file[cur[i]] # "blank"}
  <2>1. lines = Between(cur, keep) /\ keep \in SUBSET DOMAIN cur
    BY DEF Trim
  <2> HIDE DEF keep, lines
  <2>2. QED
    BY <1>1, <2>1, BetweenIsPart
<1>4. \A i \in DOMAIN sections : sections[i].to \in Int /\ sections[i].to <= Len(file)
  <2>1. \A i \in DOMAIN sections : sections[i].to \in Int
    BY <1>1, SectionsHaveRanges
  <2>2. QED
    BY <1>1, <2>1
<1>5. Flushed(Len(file)) = IF lines = <<>> THEN sections ELSE Append(sections, new)
  BY DEF Flushed
<1>6. CASE lines = <<>>
  BY <1>1, <1>4, <1>5, <1>6
<1>7. CASE lines # <<>>
  <2>1. PICK ss : ss = Append(sections, new)
    OBVIOUS
  <2>2. new.lines = lines /\ new.from = start /\ new.to = Len(file)
    OBVIOUS
  <2> HIDE DEF new, lines
  <2>3. /\ DOMAIN ss = DOMAIN sections \cup {Len(sections) + 1}
        /\ Len(sections) \in Nat /\ DOMAIN sections = 1 .. Len(sections)
        /\ ss[Len(sections) + 1] = new /\ \A i \in DOMAIN sections : ss[i] = sections[i]
    BY <1>1, <2>1
  <2>4. ASSUME NEW i \in DOMAIN ss
        PROVE  /\ ss[i].from > 0 /\ Trimmed(ss[i].lines) /\ ss[i].to <= Len(file)
               /\ ss[i].lines \in Seq(ss[i].from .. ss[i].to)
    <3>1. CASE i \in DOMAIN sections
      <4>1. /\ sections[i].from > 0 /\ Trimmed(sections[i].lines)
            /\ sections[i].lines \in Seq(sections[i].from .. sections[i].to)
        BY <1>1, <3>1 DEF InOrder
      <4>2. QED
        BY <1>4, <2>3, <3>1, <4>1
    <3>2. CASE i = Len(sections) + 1
      BY <1>1, <1>2, <1>3, <1>7, <2>2, <2>3, <3>2
    <3>3. QED
      BY <2>3, <3>1, <3>2
  <2>5. ASSUME NEW i \in DOMAIN ss, NEW j \in DOMAIN ss, i < j
        PROVE  ss[i].to < ss[j].from
    <3>1. i \in DOMAIN sections
      BY <2>3, <2>5
    <3>2. CASE j \in DOMAIN sections
      BY <1>1, <2>3, <2>5, <3>1, <3>2 DEF InOrder
    <3>3. CASE j = Len(sections) + 1
      BY <1>1, <2>2, <2>3, <3>1, <3>3
    <3>4. QED
      BY <2>3, <3>2, <3>3
  <2>6. InOrder(ss)
    BY <2>4, <2>5 DEF InOrder
  <2>7. QED
    BY <1>5, <1>7, <2>1, <2>4, <2>6
<1>8. QED
  BY <1>6, <1>7

\* One more line changes nothing in what the sections before it begin and end with.
LEMMA TrimmedStays ==
  ASSUME file \in Seq(Kinds), NEW k, file' = Append(file, k),
         NEW ss \in Seq(SectionSet(file)), InOrder(ss)
  PROVE  InOrder(ss)'
<1>1. \A n \in DOMAIN file : file'[n] = file[n]
  OBVIOUS
<1>2. ASSUME NEW i \in DOMAIN ss PROVE Trimmed(ss[i].lines)'
  <2>1. PICK ns : ns = ss[i].lines
    OBVIOUS
  <2>2. ns \in Seq(DOMAIN file) /\ Trimmed(ns)
    BY <2>1, SectionsHaveRanges DEF InOrder
  <2>3. ns[1] \in DOMAIN file /\ ns[Len(ns)] \in DOMAIN file
    BY <2>2 DEF Trimmed
  <2>4. QED
    BY <1>1, <2>1, <2>2, <2>3 DEF Trimmed
<1>3. QED
  BY <1>2 DEF InOrder

\* Sections are cut one after the other and stay as they were cut.
LEMMA NextOrdered ==
  ASSUME Inv, Ordered, Next
  PROVE  Ordered'
<1>1. /\ file \in Seq(Kinds) /\ Len(file) \in Nat /\ DOMAIN file = 1 .. Len(file)
      /\ sections \in Seq(SectionSet(file)) /\ InOrder(sections)
      /\ phase = "parse" =>
           /\ start \in 1 .. Len(file) + 1 /\ cur \in Seq(start .. Len(file))
           /\ \A i \in DOMAIN sections : sections[i].to < start
  BY DEF Inv, TypeInv, Ordered
<1>2. ASSUME NEW k \in Kinds, ReadHeading(k) PROVE Ordered'
  <2>1. /\ phase = "parse" /\ phase' = phase /\ file' = Append(file, k)
        /\ sections' = Flushed(Len(file)) /\ start' = Len(file) + 1
        /\ cur' = <<Len(file) + 1>>
    BY <1>1, <1>2 DEF ReadHeading
  <2>2. PICK ss : ss = Flushed(Len(file))
    OBVIOUS
  <2>3. /\ InOrder(ss) /\ ss \in Seq(SectionSet(file))
        /\ \A i \in DOMAIN ss : ss[i].to <= Len(file)
    BY <1>1, <2>1, <2>2, FlushedInOrder, FlushedKeepsLines
  <2>4. InOrder(ss)'
    BY <1>1, <2>1, <2>3, TrimmedStays
  <2>5. InOrder(sections)'
    BY <2>1, <2>2, <2>4 DEF InOrder
  <2>6. Len(file') = Len(file) + 1
    BY <1>1, <2>1
  <2>7. start' \in 1 .. Len(file') + 1 /\ cur' \in Seq(start' .. Len(file'))
    BY <1>1, <2>1, <2>6
  <2>8. \A i \in DOMAIN ss : ss[i].to \in Int
    BY <2>3, SectionsHaveRanges
  <2>9. \A i \in DOMAIN sections' : sections'[i].to < start'
    BY <1>1, <2>1, <2>2, <2>3, <2>8
  <2>10. QED
    BY <2>5, <2>7, <2>9 DEF Ordered
<1>3. ASSUME NEW k \in Kinds, ReadLine(k) PROVE Ordered'
  <2>1. /\ phase = "parse" /\ phase' = phase /\ file' = Append(file, k)
        /\ sections' = sections
        /\ start' = (IF cur = <<>> THEN Len(file) + 1 ELSE start)
        /\ cur' = Append(cur, Len(file) + 1)
    BY <1>3 DEF ReadLine
  <2>2. InOrder(sections)'
    <3>1. PICK ss : ss = sections
      OBVIOUS
    <3>2. InOrder(ss)'
      BY <1>1, <2>1, <3>1, TrimmedStays
    <3>3. QED
      BY <2>1, <3>1, <3>2 DEF InOrder
  <2>3. Len(file') = Len(file) + 1 /\ start' \in 1 .. Len(file) + 1 /\ start <= start'
    BY <1>1, <2>1
  <2>4. cur' \in Seq(start' .. Len(file'))
    <3>1. CASE cur = <<>>
      <4>1. cur' = <<Len(file) + 1>>
        BY <2>1, <3>1
      <4>2. QED
        BY <1>1, <2>1, <2>3, <3>1, <4>1
    <3>2. CASE cur # <<>>
      <4>1. start' = start /\ start .. Len(file) \subseteq start .. Len(file')
        BY <1>1, <2>1, <2>3, <3>2
      <4>2. Len(file) + 1 \in start .. Len(file')
        BY <1>1, <2>1, <2>3
      <4>3. QED
        BY <1>1, <2>1, <4>1, <4>2
    <3>3. QED
      BY <3>1, <3>2
  <2>5. \A i \in DOMAIN sections : sections[i].to \in Int
    BY <1>1, SectionsHaveRanges
  <2>6. \A i \in DOMAIN sections' : sections'[i].to < start'
    BY <1>1, <2>1, <2>3, <2>5
  <2>7. start' \in 1 .. Len(file') + 1
    BY <1>1, <2>3
  <2>8. QED
    BY <2>2, <2>4, <2>6, <2>7 DEF Ordered
<1>4. CASE EndOfFile
  <2>1. phase = "parse" /\ phase' = "chunk" /\ file' = file /\ sections' = Flushed(Len(file))
    BY <1>4 DEF EndOfFile
  <2>2. PICK ss : ss = Flushed(Len(file))
    OBVIOUS
  <2>3. InOrder(ss)
    BY <2>1, <2>2, FlushedInOrder
  <2>4. InOrder(sections)'
    BY <2>1, <2>2, <2>3 DEF InOrder, Trimmed
  <2>5. QED
    BY <2>1, <2>4 DEF Ordered
<1>5. CASE SplitNext \/ StartNext \/ AddNext \/ EndOfSections
  <2>1. phase' # "parse" /\ file' = file /\ sections' = sections
    BY <1>5 DEF SplitNext, StartNext, AddNext, EndOfSections
  <2>2. InOrder(sections)'
    BY <1>1, <2>1 DEF InOrder, Trimmed
  <2>3. QED
    BY <2>1, <2>2 DEF Ordered
<1>6. QED
  BY <1>2, <1>3, <1>4, <1>5 DEF Next

\* A line is in one section.
LEMMA SectionOfLine ==
  ASSUME Inv, Ordered, NEW i \in DOMAIN sections, NEW n \in ToSet(sections[i].lines)
  PROVE  SectionOf(n) = i
<1>1. \A j \in DOMAIN sections : sections[j].from \in Int /\ sections[j].to \in Int
  BY SectionsHaveRanges DEF Inv, TypeInv
<1>2. ASSUME NEW j \in DOMAIN sections, n \in ToSet(sections[j].lines)
      PROVE  n \in sections[j].from .. sections[j].to
  <2>1. sections[j].lines \in Seq(sections[j].from .. sections[j].to)
    BY DEF Ordered, InOrder
  <2>2. PICK ns, a, b : /\ ns = sections[j].lines
                        /\ a = sections[j].from /\ b = sections[j].to
    OBVIOUS
  <2>3. ns \in Seq(a .. b) /\ n \in ToSet(ns)
    BY <1>2, <2>1, <2>2
  <2>4. n \in a .. b
    <3>1. PICK S : S = a .. b
      OBVIOUS
    <3>2. PICK m \in DOMAIN ns : n = ns[m]
      BY <2>3 DEF ToSet
    <3>3. ns \in Seq(S)
      BY Zenon, <2>3, <3>1
    <3>4. ns[m] \in S
      BY <3>2, <3>3
    <3>5. QED
      BY <3>1, <3>2, <3>4
  <2>5. QED
    BY <2>2, <2>4
<1>3. ASSUME NEW j \in DOMAIN sections, n \in ToSet(sections[j].lines) PROVE j = i
  <2>1. n \in sections[j].from .. sections[j].to /\ n \in sections[i].from .. sections[i].to
    BY <1>2, <1>3
  <2>2. i \in Nat /\ j \in Nat
    BY DEF Inv, TypeInv
  <2>3. /\ i < j => sections[i].to < sections[j].from
        /\ j < i => sections[j].to < sections[i].from
    BY DEF Ordered, InOrder
  <2>4. QED
    BY <1>1, <2>1, <2>2, <2>3
<1>4. QED
  BY <1>3 DEF SectionOf

-----------------------------------------------------------------------------
(***************************************************************************)
(* Chunks of whole sections.  A chunk with ink is joined from sections     *)
(* that are not too long, or it is a part of one that is, and the section  *)
(* of its first character tells which.                                     *)
(***************************************************************************)
Inked(c)   == Ink(c.text) # <<>>
FirstOf(c) == SectionOf(Head(Ink(c.text)))
LastOf(c)  == SectionOf(Last(Ink(c.text)))
Joined(c)  == Inked(c) /\ ~ Overlong(sections[FirstOf(c)])

\* The first and the last character of a text are in these sections.
Spans(t, a, b) ==
  /\ t \in Texts /\ Ink(t) # <<>>
  /\ a \in DOMAIN sections /\ b \in DOMAIN sections
  /\ Head(Ink(t)) \in ToSet(sections[a].lines) /\ Last(Ink(t)) \in ToSet(sections[b].lines)

\* The ends of the ink of a chunk tell its first and its last section.
LEMMA SpansTell ==
  ASSUME Inv, Ordered, NEW c, NEW a, NEW b, Spans(c.text, a, b)
  PROVE  Inked(c) /\ FirstOf(c) = a /\ LastOf(c) = b
BY SectionOfLine DEF Spans, Inked, FirstOf, LastOf

\* A line has no other number than its own.
LEMMA OnlyItsNumber ==
  ASSUME NEW f \in Seq(Kinds), NEW n \in DOMAIN f, NEW c \in ToSet(LinesOf(f)[n])
  PROVE  c = n
BY DEF LinesOf, ToSet

\* The content of a section begins and ends in it.
LEMMA ContentSpans ==
  ASSUME Inv, Ordered, NEW k \in DOMAIN sections
  PROVE  Spans(Content(sections[k]), k, k) /\ Edged(Content(sections[k]))
<1>1. PICK s, ns, t : s = sections[k] /\ ns = s.lines /\ t = Content(s)
  OBVIOUS
<1>2. /\ file \in Seq(Kinds) /\ ns \in Seq(DOMAIN file) /\ Trimmed(ns) /\ t = JoinLines(ns)
  BY <1>1, SectionsHaveRanges DEF Inv, TypeInv, Ordered, InOrder, Content
<1>3. t \in Texts /\ Edged(t) /\ Ink(t) = All(LinesOf(file), ns)
  BY <1>2, JoinLinesKeepsInk, JoinOfTrimmed
<1>4. PICK a, z : a = ns[1] /\ z = ns[Len(ns)]
  OBVIOUS
<1>5. /\ a \in DOMAIN file /\ z \in DOMAIN file /\ file[a] # "blank" /\ file[z] # "blank"
      /\ a \in ToSet(ns) /\ z \in ToSet(ns) /\ ns # <<>>
  BY <1>2, <1>4 DEF Trimmed, ToSet
<1>6. PICK g : g = LinesOf(file)
  OBVIOUS
<1>7. /\ g \in [DOMAIN file -> Texts] /\ g[a] \in Seq(Nat) /\ g[z] \in Seq(Nat)
      /\ g[a] # <<>> /\ g[z] # <<>>
  BY <1>2, <1>5, <1>6, LinesOfTexts DEF Texts
<1>8. Head(g[a]) = a /\ Last(g[z]) = z
  <2>1. Head(g[a]) \in ToSet(g[a]) /\ Last(g[z]) \in ToSet(g[z])
    BY <1>7 DEF ToSet, Last
  <2>2. QED
    BY <1>2, <1>5, <1>6, <2>1, OnlyItsNumber
<1>9. /\ All(g, ns) # <<>>
      /\ Head(All(g, ns)) = Head(g[a]) /\ Last(All(g, ns)) = Last(g[z])
  BY <1>2, <1>4, <1>5, <1>7, EndsOfAll
<1>10. Ink(t) # <<>> /\ Head(Ink(t)) = a /\ Last(Ink(t)) = z
  BY <1>3, <1>6, <1>8, <1>9
<1>11. QED
  BY <1>1, <1>3, <1>5, <1>10 DEF Spans

\* What is joined begins where the left text does and ends where the right one
\* does.
LEMMA JoinSpans ==
  ASSUME NEW a, NEW b, NEW c, NEW d, NEW t, NEW u, Spans(t, a, b), Spans(u, c, d)
  PROVE  Spans(JoinBlocks(t, u), a, d)
<1>1. /\ t \in Texts /\ u \in Texts /\ Ink(t) \in Texts /\ Ink(u) \in Texts
      /\ Ink(t) # <<>> /\ Ink(u) # <<>>
  BY InkIsText DEF Spans
<1>2. JoinBlocks(t, u) \in Texts /\ Ink(JoinBlocks(t, u)) = Ink(t) \o Ink(u)
  BY <1>1, JoinBlocksKeepsInk
<1>3. PICK v, x, y : v = JoinBlocks(t, u) /\ x = Ink(t) /\ y = Ink(u)
  OBVIOUS
<1>4. x \o y # <<>> /\ Head(x \o y) = Head(x) /\ Last(x \o y) = Last(y)
  BY <1>1, <1>3, ConcatEnds
<1>5. QED
  BY <1>2, <1>3, <1>4 DEF Spans

\* The chunks of a long section are parts of it, and one of them has ink.
LEMMA SplitsArePart ==
  ASSUME Inv, Ordered, NEW k \in DOMAIN sections, Overlong(sections[k])
  PROVE  LET e == SplitSection(sections[k])
         IN /\ e \in Seq(ChunkSet)
            /\ \A i \in DOMAIN e : ~ Joined(e[i])
            /\ \E i \in DOMAIN e : Inked(e[i])
<1>1. PICK s, ns, e : s = sections[k] /\ ns = s.lines /\ e = SplitSection(s)
  OBVIOUS
<1>2. PICK g, ink : g = LinesOf(file) /\ ink = InkOfChunk
  OBVIOUS
<1>3. /\ file \in Seq(Kinds) /\ ns \in Seq(DOMAIN file) /\ Trimmed(ns)
      /\ s \in SectionSet(file)
  BY <1>1, SectionsHaveRanges DEF Inv, TypeInv, Ordered, InOrder
<1>4. /\ e \in Seq(ChunkSet) /\ All(ink, e) = All(g, ns)
      /\ ink \in [ChunkSet -> Texts] /\ g \in [DOMAIN file -> Texts]
      /\ \A c \in ChunkSet : ink[c] = Ink(c.text)
  BY <1>1, <1>2, <1>3, SplitSectionKeepsInk, InkOfChunks, LinesOfTexts
<1>5. ASSUME NEW i \in DOMAIN e, Joined(e[i]) PROVE FALSE
  <2>1. PICK c : c = e[i]
    OBVIOUS
  <2>2. c \in ChunkSet /\ ink[c] = Ink(c.text) /\ ink[c] \in Seq(Nat) /\ ink[c] # <<>>
    BY <1>4, <1>5, <2>1 DEF Joined, Inked, Texts
  <2>3. PICK n : n = Head(Ink(c.text))
    OBVIOUS
  <2>4. n \in ToSet(ink[c])
    BY <2>2, <2>3 DEF ToSet
  <2>5. n \in ToSet(All(g, ns))
    BY <1>4, <2>1, <2>4, ElementsOfAll
  <2>6. PICK j \in DOMAIN ns : n \in ToSet(g[ns[j]])
    BY <1>3, <1>4, <2>5, ElementsOfAll
  <2>7. n = ns[j]
    <3>1. PICK m : m = ns[j]
      OBVIOUS
    <3>2. m \in DOMAIN file /\ n \in ToSet(LinesOf(file)[m])
      BY <1>2, <1>3, <2>6, <3>1
    <3>3. QED
      BY <1>3, <3>1, <3>2, OnlyItsNumber
  <2>8. n \in ToSet(sections[k].lines)
    BY <1>1, <2>7 DEF ToSet
  <2>9. FirstOf(c) = k
    BY <2>3, <2>8, SectionOfLine DEF FirstOf
  <2>10. QED
    BY <1>5, <2>1, <2>9 DEF Joined
<1>6. ASSUME \A i \in DOMAIN e : ~ Inked(e[i]) PROVE FALSE
  <2>1. \A i \in DOMAIN e : ink[e[i]] = <<>>
    BY <1>4, <1>6 DEF Inked
  <2>2. All(g, ns) = <<>>
    BY <1>4, <2>1, AllOfNothing
  <2>3. /\ ns # <<>> /\ ns[1] \in DOMAIN file /\ file[ns[1]] # "blank"
    BY <1>3 DEF Trimmed
  <2>4. g[ns[1]] # <<>>
    BY <1>2, <1>3, <2>3, LinesOfTexts
  <2>5. All(g, ns) # <<>>
    BY <1>3, <1>4, <2>3, <2>4, EndsOfAll
  <2>6. QED
    BY <2>2, <2>5
<1>7. QED
  BY <1>1, <1>4, <1>5, <1>6

-----------------------------------------------------------------------------
(***************************************************************************)
(* Where chunks of whole sections end.                                     *)
(***************************************************************************)
\* What is said of a chunk of whole sections: it is stripped, and its line range
\* is that of its sections.
Located(c) ==
  Joined(c) => /\ Edged(c.text)
               /\ c.from = sections[FirstOf(c)].from
               /\ c.to = sections[LastOf(c)].to

\* Why section k did not come into the chunk before it.
NeededCut(t, k) ==
  \/ Len(t) >= TargetSize
  \/ Len(JoinBlocks(t, Content(sections[k]))) > MaxSize

\* The chunks r between the positions i and j have no ink.
Apart(r, i, j) == \A m \in i + 1 .. j - 1 : ~ Inked(r[m])

Greedy(r) ==
  \A i, j \in DOMAIN r :
    i < j /\ Joined(r[i]) /\ Joined(r[j]) /\ Apart(r, i, j) =>
      NeededCut(r[i].text, FirstOf(r[j]))
Awaits(r, p) ==
  \A i \in DOMAIN r :
    Joined(r[i]) /\ Apart(r, i, Len(r) + 1) =>
      IF p.text = <<>> THEN Len(r[i].text) >= TargetSize
      ELSE NeededCut(r[i].text, FirstOf(p))

\* What is pending is of the sections from a to b.
Collects(p, a, b) ==
  /\ Spans(p.text, a, b) /\ Edged(p.text) /\ ~ Overlong(sections[a])
  /\ p.from = sections[a].from /\ p.to = sections[b].to
Waiting(p) ==
  IF p.text = <<>> THEN p.from = NoLine
  ELSE \E a, b \in DOMAIN sections : Collects(p, a, b)

Joins ==
  /\ \A i \in DOMAIN raw : Located(raw[i])
  /\ phase = "chunk" => Greedy(raw) /\ Awaits(raw, pending) /\ Waiting(pending)
  /\ phase = "done" =>
       \A i \in DOMAIN raw :
         i + 1 \in DOMAIN raw /\ Joined(raw[i]) /\ Joined(raw[i + 1]) =>
           NeededCut(raw[i].text, FirstOf(raw[i + 1]))

\* What is pending would be located as a chunk.
LEMMA CollectedIsJoined ==
  ASSUME Inv, Ordered, NEW p, NEW a, NEW b, Collects(p, a, b)
  PROVE  Inked(p) /\ Joined(p) /\ Located(p) /\ FirstOf(p) = a
BY SpansTell DEF Collects, Joined, Located

\* All of this is about the file and the sections.
LEMMA SameJoins ==
  ASSUME file' = file, sections' = sections
  PROVE  /\ \A c : /\ Located(c)' <=> Located(c)
                   /\ Joined(c)' <=> Joined(c)
                   /\ FirstOf(c)' = FirstOf(c)
         /\ \A t, k : NeededCut(t, k)' <=> NeededCut(t, k)
         /\ \A r : Greedy(r)' <=> Greedy(r)
         /\ \A r, p : Awaits(r, p)' <=> Awaits(r, p)
         /\ \A p : Waiting(p)' <=> Waiting(p)
<1>1. ASSUME NEW ns PROVE JoinLines(ns)' = JoinLines(ns)
  BY DEF JoinLines, LineText
<1>2. ASSUME NEW n PROVE SectionOf(n)' = SectionOf(n)
  BY DEF SectionOf
<1>3. ASSUME NEW s PROVE Content(s)' = Content(s) /\ (Overlong(s)' <=> Overlong(s))
  BY <1>1 DEF Content, Overlong
<1>4. ASSUME NEW c PROVE FirstOf(c)' = FirstOf(c) /\ LastOf(c)' = LastOf(c)
  BY <1>2 DEF FirstOf, LastOf
<1>5. ASSUME NEW k PROVE Overlong(sections[k])' <=> Overlong(sections[k])
  BY <1>3 DEF Overlong, Content
<1>6. ASSUME NEW c PROVE Joined(c)' <=> Joined(c)
  BY <1>1, <1>2 DEF Joined, Inked, Overlong, Content, FirstOf
<1>7. ASSUME NEW c PROVE Located(c)' <=> Located(c)
  BY <1>4, <1>6 DEF Located
<1>8. ASSUME NEW t, NEW k PROVE NeededCut(t, k)' <=> NeededCut(t, k)
  BY <1>1 DEF NeededCut, Content
<1>9. ASSUME NEW r PROVE Greedy(r)' <=> Greedy(r)
  BY <1>4, <1>6, <1>8 DEF Greedy, Apart
<1>10. ASSUME NEW r, NEW p PROVE Awaits(r, p)' <=> Awaits(r, p)
  BY <1>4, <1>6, <1>8 DEF Awaits, Apart
<1>11. ASSUME NEW p, NEW a, NEW b PROVE Collects(p, a, b)' <=> Collects(p, a, b)
  BY <1>1 DEF Collects, Spans, Overlong, Content
<1>12. ASSUME NEW p PROVE Waiting(p)' <=> Waiting(p)
  BY <1>11 DEF Waiting
<1>13. QED
  BY <1>4, <1>6, <1>7, <1>8, <1>9, <1>10, <1>12

\* A step of the chunker that leaves the chunks r and what is pending, p.
LEMMA JoinsFollow ==
  ASSUME NEW r, NEW p, Greedy(r), Awaits(r, p), Waiting(p),
         \A i \in DOMAIN r : Located(r[i]),
         raw' = r, pending' = p, phase' = "chunk", file' = file, sections' = sections
  PROVE  Joins'
<1>1. Greedy(r)' /\ Awaits(r, p)' /\ Waiting(p)'
  BY SameJoins
<1>2. Greedy(raw)' /\ Awaits(raw, pending)' /\ Waiting(pending)'
  BY <1>1 DEF Greedy, Awaits, Waiting, Apart
<1>3. ASSUME NEW i \in DOMAIN r PROVE Located(raw[i])'
  <2>1. PICK c : c = r[i]
    OBVIOUS
  <2>2. Located(c)'
    BY <2>1, SameJoins
  <2>3. QED
    BY <2>1, <2>2
<1>4. QED
  BY <1>2, <1>3 DEF Joins

\* A chunk that the one before it had no room for may follow it.
LEMMA GreedyAppend ==
  ASSUME NEW r \in Seq(ChunkSet), NEW p \in ChunkSet,
         p.text # <<>>, Inked(p), Greedy(r), Awaits(r, p)
  PROVE  /\ Greedy(Append(r, p))
         /\ \A q : (IF q.text = <<>> THEN Len(p.text) >= TargetSize
                    ELSE NeededCut(p.text, FirstOf(q)))
                     => Awaits(Append(r, p), q)
<1>1. PICK v, n : v = Append(r, p) /\ n = Len(r)
  OBVIOUS
<1>2. /\ n \in Nat /\ DOMAIN r = 1 .. n /\ DOMAIN v = 1 .. n + 1 /\ Len(v) = n + 1
      /\ v[n + 1] = p /\ \A i \in 1 .. n : v[i] = r[i]
  BY <1>1
<1>3. ASSUME NEW i \in DOMAIN v, NEW j \in DOMAIN v,
             i < j, Joined(v[i]), Joined(v[j]), Apart(v, i, j)
      PROVE  NeededCut(v[i].text, FirstOf(v[j]))
  <2>1. i \in 1 .. n /\ \A m \in i + 1 .. j - 1 : m \in 1 .. n
    BY <1>2, <1>3
  <2>2. Apart(r, i, j) /\ v[i] = r[i]
    BY <1>2, <1>3, <2>1 DEF Apart
  <2>3. CASE j \in 1 .. n
    <3>1. v[j] = r[j]
      BY <1>2, <2>3
    <3>2. QED
      BY <1>2, <1>3, <2>1, <2>2, <2>3, <3>1 DEF Greedy
  <2>4. CASE j = n + 1
    BY <1>1, <1>2, <1>3, <2>1, <2>2, <2>4 DEF Awaits
  <2>5. QED
    BY <1>2, <2>3, <2>4
<1>4. Greedy(v)
  BY <1>3 DEF Greedy
<1>5. ASSUME NEW q, IF q.text = <<>> THEN Len(p.text) >= TargetSize
                    ELSE NeededCut(p.text, FirstOf(q)),
             NEW i \in DOMAIN v, Joined(v[i]), Apart(v, i, Len(v) + 1)
      PROVE  IF q.text = <<>> THEN Len(v[i].text) >= TargetSize
             ELSE NeededCut(v[i].text, FirstOf(q))
  <2>1. i = n + 1
    <3>1. SUFFICES ASSUME i # n + 1 PROVE FALSE
      OBVIOUS
    <3>2. n + 1 \in i + 1 .. (Len(v) + 1) - 1
      BY <1>2, <3>1
    <3>3. QED
      BY <1>2, <1>5, <3>2 DEF Apart
  <2>2. QED
    BY <1>2, <1>5, <2>1
<1>6. QED
  BY <1>1, <1>4, <1>5 DEF Awaits

\* The chunks of a long section may follow any chunk, and any may follow them.
LEMMA GreedyConcat ==
  ASSUME NEW r \in Seq(ChunkSet), NEW e \in Seq(ChunkSet), Greedy(r),
         \A i \in DOMAIN e : ~ Joined(e[i]), \E i \in DOMAIN e : Inked(e[i])
  PROVE  Greedy(r \o e) /\ \A q : Awaits(r \o e, q)
<1>1. PICK v, n, k : v = r \o e /\ n = Len(r) /\ k = Len(e)
  OBVIOUS
<1>2. /\ n \in Nat /\ k \in Nat /\ DOMAIN r = 1 .. n /\ DOMAIN e = 1 .. k
      /\ DOMAIN v = 1 .. n + k /\ Len(v) = n + k
      /\ \A i \in 1 .. n : v[i] = r[i]
      /\ \A i \in 1 .. k : v[n + i] = e[i]
  BY <1>1
<1>3. ASSUME NEW i \in DOMAIN v, Joined(v[i]) PROVE i \in 1 .. n /\ v[i] = r[i]
  <2>1. i \notin 1 .. n => i - n \in 1 .. k /\ n + (i - n) = i
    BY <1>2
  <2>2. QED
    BY <1>2, <1>3, <2>1
<1>4. ASSUME NEW i \in DOMAIN v, NEW j \in DOMAIN v,
             i < j, Joined(v[i]), Joined(v[j]), Apart(v, i, j)
      PROVE  NeededCut(v[i].text, FirstOf(v[j]))
  <2>1. i \in 1 .. n /\ j \in 1 .. n /\ v[i] = r[i] /\ v[j] = r[j]
    BY <1>3, <1>4
  <2>2. Apart(r, i, j)
    BY <1>2, <1>4, <2>1 DEF Apart
  <2>3. QED
    BY <1>2, <1>4, <2>1, <2>2 DEF Greedy
<1>5. Greedy(v)
  BY <1>4 DEF Greedy
<1>6. ASSUME NEW i \in DOMAIN v, Joined(v[i]), Apart(v, i, Len(v) + 1) PROVE FALSE
  <2>1. PICK m \in 1 .. k : Inked(e[m])
    BY <1>2
  <2>2. i \in 1 .. n
    BY <1>3, <1>6
  <2>3. n + m \in i + 1 .. (Len(v) + 1) - 1
    BY <1>2, <2>2
  <2>4. QED
    BY <1>2, <1>6, <2>1, <2>3 DEF Apart
<1>7. QED
  BY <1>1, <1>5, <1>6 DEF Awaits

\* What is pending becomes a chunk.
LEMMA PendingIsPut ==
  ASSUME Inv, Ordered, Joins, phase = "chunk"
  PROVE  LET r == raw \o Collected
         IN /\ r \in Seq(ChunkSet) /\ Greedy(r) /\ \A i \in DOMAIN r : Located(r[i])
            /\ \A q : /\ pending.text # <<>> /\ q.text # <<>>
                      /\ NeededCut(pending.text, FirstOf(q))
                      => Awaits(r, q)
<1>1. PICK r, p, c : r = raw /\ p = pending /\ c = Collected
  OBVIOUS
<1>2. /\ r \in Seq(ChunkSet) /\ p \in ChunkSet
      /\ Greedy(r) /\ Awaits(r, p) /\ Waiting(p) /\ \A i \in DOMAIN r : Located(r[i])
  BY <1>1, FitsAreChunks DEF Inv, TypeInv, Joins
<1>3. CASE p.text = <<>>
  <2>1. c = <<>>
    BY <1>1, <1>3 DEF Collected
  <2>2. r \o c = r
    BY <1>2, <2>1
  <2>3. QED
    BY <1>1, <1>2, <1>3, <2>2
<1>4. CASE p.text # <<>>
  <2>1. c = <<p>>
    BY <1>1, <1>4 DEF Collected
  <2>2. PICK v : v = Append(r, p)
    OBVIOUS
  <2>3. r \o c = v
    BY <1>2, <2>1, <2>2
  <2>4. Inked(p) /\ Located(p)
    BY <1>2, <1>4, CollectedIsJoined DEF Waiting
  <2>5. /\ Greedy(v)
        /\ \A q : q.text # <<>> /\ NeededCut(p.text, FirstOf(q)) => Awaits(v, q)
    BY <1>2, <1>4, <2>2, <2>4, GreedyAppend
  <2>6. v \in Seq(ChunkSet) /\ \A i \in DOMAIN v : Located(v[i])
    <3>1. /\ v \in Seq(ChunkSet) /\ DOMAIN v = 1 .. Len(r) + 1 /\ DOMAIN r = 1 .. Len(r)
          /\ Len(r) \in Nat /\ v[Len(r) + 1] = p /\ \A i \in DOMAIN r : v[i] = r[i]
      BY <1>2, <2>2
    <3>2. ASSUME NEW i \in DOMAIN v PROVE Located(v[i])
      <4>1. CASE i \in DOMAIN r
        BY <1>2, <3>1, <4>1
      <4>2. CASE i \notin DOMAIN r
        BY <2>4, <3>1, <4>2
      <4>3. QED
        BY <4>1, <4>2
    <3>3. QED
      BY <3>1, <3>2
  <2>7. QED
    BY <1>1, <2>3, <2>5, <2>6
<1>5. QED
  BY <1>3, <1>4

\* There is no chunk before the file has been read.
LEMMA ParsingJoins ==
  ASSUME Inv, phase = "parse", raw' = raw, pending' = pending,
         phase' \in {"parse", "chunk"}
  PROVE  Joins'
<1>1. raw' = <<>> /\ pending' = Nothing
  BY DEF Inv, Parsed
<1>2. DOMAIN <<>> = {} /\ Nothing.text = <<>> /\ Nothing.from = NoLine
  BY DEF Nothing
<1>3. QED
  BY <1>1, <1>2 DEF Joins, Greedy, Awaits, Waiting

\* A long section is no chunk of whole sections.
LEMMA SplitNextJoins ==
  ASSUME Inv, Ordered, Joins, SplitNext
  PROVE  Joins'
<1> DEFINE p == [Nothing EXCEPT !.path = pending.path]
<1>1. PICK c, e : c = raw \o Collected /\ e = SplitSection(sections[next])
  OBVIOUS
<1>2. /\ phase = "chunk" /\ next \in DOMAIN sections /\ Overlong(sections[next])
      /\ raw' = c \o e /\ pending' = p
      /\ phase' = "chunk" /\ file' = file /\ sections' = sections
  BY <1>1 DEF SplitNext, Inv, TypeInv
<1>3. c \in Seq(ChunkSet) /\ Greedy(c) /\ \A i \in DOMAIN c : Located(c[i])
  BY <1>1, <1>2, PendingIsPut
<1>4. /\ e \in Seq(ChunkSet) /\ \A i \in DOMAIN e : ~ Joined(e[i])
      /\ \E i \in DOMAIN e : Inked(e[i])
  BY <1>1, <1>2, SplitsArePart
<1>5. PICK r : r = c \o e
  OBVIOUS
<1>6. Greedy(r) /\ Awaits(r, p)
  BY <1>3, <1>4, <1>5, GreedyConcat
<1>7. \A i \in DOMAIN r : Located(r[i])
  <2>1. /\ DOMAIN r = 1 .. Len(c) + Len(e) /\ Len(c) \in Nat /\ Len(e) \in Nat
        /\ DOMAIN c = 1 .. Len(c) /\ DOMAIN e = 1 .. Len(e)
        /\ \A i \in DOMAIN c : r[i] = c[i]
        /\ \A i \in DOMAIN r : i \notin DOMAIN c =>
             i - Len(c) \in DOMAIN e /\ r[i] = e[i - Len(c)]
    BY <1>3, <1>4, <1>5
  <2>2. \A i \in DOMAIN e : Located(e[i])
    BY <1>4 DEF Located
  <2>3. QED
    BY <1>3, <2>1, <2>2
<1>8. Waiting(p)
  BY DEF Waiting, Nothing
<1> HIDE DEF p
<1>9. QED
  BY <1>2, <1>5, <1>6, <1>7, <1>8, JoinsFollow

\* A section that does not fit starts a chunk, and the one before it had no room.
LEMMA StartNextJoins ==
  ASSUME Inv, Ordered, Joins, StartNext
  PROVE  Joins'
<1>1. PICK s, t, r : s = sections[next] /\ t = Content(s) /\ r = raw \o Collected
  OBVIOUS
<1> DEFINE p == [text |-> t, path |-> s.path, from |-> s.from, to |-> s.to]
<1>2. /\ phase = "chunk" /\ next \in DOMAIN sections
      /\ ~ Overlong(sections[next]) /\ Overflows(sections[next])
      /\ raw' = r /\ pending' = p
      /\ phase' = "chunk" /\ file' = file /\ sections' = sections
  BY <1>1 DEF StartNext, Inv, TypeInv
<1>3. /\ Greedy(r) /\ \A i \in DOMAIN r : Located(r[i])
      /\ \A q : /\ pending.text # <<>> /\ q.text # <<>>
                /\ NeededCut(pending.text, FirstOf(q))
                => Awaits(r, q)
  BY <1>1, <1>2, PendingIsPut
<1>4. Spans(t, next, next) /\ Edged(t)
  BY <1>1, <1>2, ContentSpans
<1>5. p.text = t /\ p.from = s.from /\ p.to = s.to
  OBVIOUS
<1> HIDE DEF p
<1>6. Collects(p, next, next)
  BY <1>1, <1>2, <1>4, <1>5 DEF Collects
<1>7. FirstOf(p) = next
  BY <1>6, CollectedIsJoined
<1>8. p.text # <<>>
  BY <1>4, <1>5 DEF Edged
<1>9. Waiting(p)
  BY <1>2, <1>6, <1>8 DEF Waiting
<1>10. Awaits(r, p)
  BY <1>2, <1>3, <1>7, <1>8 DEF Overflows, NeededCut
<1>11. QED
  BY <1>2, <1>3, <1>9, <1>10, JoinsFollow

\* A section that fits is joined, and its chunk ends at the target size only.
LEMMA AddNextJoins ==
  ASSUME Inv, Ordered, Joins, AddNext
  PROVE  Joins'
<1>1. PICK s, t, pend : s = sections[next] /\ t = Content(s) /\ pend = pending
  OBVIOUS
<1> DEFINE joined == JoinBlocks(pend.text, t)
           path == IF pend.path = <<>> THEN s.path ELSE pend.path
           sum == [text |-> joined, path |-> path, from |-> FirstLine(s), to |-> s.to]
           full == Len(sum.text) >= TargetSize
<1>2. /\ phase = "chunk" /\ next \in DOMAIN sections /\ ~ Overlong(sections[next])
      /\ raw' = (IF full THEN Append(raw, sum) ELSE raw)
      /\ pending' = (IF full THEN Nothing ELSE sum)
      /\ phase' = "chunk" /\ file' = file /\ sections' = sections
  BY <1>1 DEF AddNext, Inv, TypeInv
<1>3. PICK u : u = sum
  OBVIOUS
<1>4. u.text = joined /\ u.from = FirstLine(s) /\ u.to = s.to
  BY <1>3
<1>5. /\ raw' = (IF Len(u.text) >= TargetSize THEN Append(raw, u) ELSE raw)
      /\ pending' = (IF Len(u.text) >= TargetSize THEN Nothing ELSE u)
  BY <1>2, <1>3
<1>6. /\ raw \in Seq(ChunkSet) /\ pend \in ChunkSet /\ pend.text \in Texts
      /\ Greedy(raw) /\ Awaits(raw, pend) /\ Waiting(pend)
      /\ \A i \in DOMAIN raw : Located(raw[i])
  BY <1>1, <1>2, FitsAreChunks, InkOfChunks DEF Inv, TypeInv, Joins
<1>7. Spans(t, next, next) /\ Edged(t) /\ t \in Texts
  BY <1>1, <1>2, ContentSpans DEF Spans
<1>8. u \in ChunkSet
  <2>1. s.path \in Seq(Nat) /\ s.from \in Int /\ s.to \in Int
    <3>1. s \in SectionSet(file)
      BY <1>1, <1>2, SectionsHaveRanges DEF Inv, TypeInv
    <3>2. QED
      BY <3>1 DEF SectionSet
  <2>2. pend.path \in Seq(Nat) /\ pend.from \in Int
    BY <1>6 DEF ChunkSet
  <2>3. joined \in Texts
    BY <1>6, <1>7, JoinBlocksKeepsInk
  <2>4. path \in Seq(Nat) /\ FirstLine(s) \in Int
    BY <1>1, <2>1, <2>2 DEF FirstLine
  <2> HIDE DEF joined, path
  <2>5. QED
    BY <1>3, <2>1, <2>3, <2>4 DEF ChunkSet
<1> HIDE DEF sum
<1>9. /\ u.text # <<>> /\ Awaits(raw, u)
      /\ \E a, b \in DOMAIN sections : Collects(u, a, b)
  <2>1. CASE pend.text = <<>>
    <3>1. u.text = t /\ u.from = s.from
      BY <1>1, <1>4, <1>6, <1>7, <2>1, JoinIsEdged DEF Waiting, FirstLine
    <3>2. u.text # <<>> /\ Collects(u, next, next)
      BY <1>1, <1>2, <1>4, <1>7, <3>1 DEF Collects, Edged
    <3>3. Awaits(raw, u)
      BY <1>6, <2>1, <3>2 DEF Awaits, NeededCut
    <3>4. QED
      BY <1>2, <3>2, <3>3
  <2>2. CASE pend.text # <<>>
    <3>1. PICK a \in DOMAIN sections, b \in DOMAIN sections : Collects(pend, a, b)
      BY <1>6, <2>2 DEF Waiting
    <3>2. u.from = sections[a].from
      <4>1. sections[a].from > 0 /\ sections[a].from \in Int
        BY SectionsHaveRanges DEF Ordered, InOrder, Inv, TypeInv
      <4>2. pend.from # NoLine
        BY <3>1, <4>1 DEF Collects, NoLine
      <4>3. QED
        BY <1>1, <1>4, <3>1, <4>2 DEF Collects, FirstLine
    <3>3. Spans(u.text, a, next) /\ Edged(u.text)
      BY <1>4, <1>6, <1>7, <3>1, JoinSpans, JoinIsEdged DEF Collects
    <3>4. Collects(u, a, next)
      BY <1>1, <1>4, <3>1, <3>2, <3>3 DEF Collects
    <3>5. u.text # <<>> /\ FirstOf(u) = a /\ FirstOf(pend) = a
      BY <3>1, <3>3, <3>4, CollectedIsJoined DEF Edged
    <3>6. Awaits(raw, u)
      BY <1>6, <2>2, <3>5 DEF Awaits
    <3>7. QED
      BY <1>2, <3>4, <3>5, <3>6
  <2>3. QED
    BY <2>1, <2>2
<1>10. Waiting(u) /\ Inked(u) /\ Located(u)
  BY <1>9, CollectedIsJoined DEF Waiting
<1>11. CASE Len(u.text) >= TargetSize
  <2>1. PICK r : r = Append(raw, u)
    OBVIOUS
  <2>2. Nothing.text = <<>> /\ Nothing.from = NoLine
    BY DEF Nothing
  <2>3. Greedy(r) /\ Awaits(r, Nothing)
    BY <1>6, <1>8, <1>9, <1>10, <1>11, <2>1, <2>2, GreedyAppend
  <2>4. Waiting(Nothing)
    BY <2>2 DEF Waiting
  <2>5. \A i \in DOMAIN r : Located(r[i])
    <3>1. /\ DOMAIN r = DOMAIN raw \cup {Len(raw) + 1} /\ r[Len(raw) + 1] = u
          /\ \A i \in DOMAIN raw : r[i] = raw[i]
      BY <1>6, <2>1
    <3>2. QED
      BY <1>6, <1>10, <3>1
  <2>6. raw' = r /\ pending' = Nothing
    BY <1>5, <1>11, <2>1
  <2>7. QED
    BY <1>2, <2>3, <2>4, <2>5, <2>6, JoinsFollow
<1>12. CASE ~ (Len(u.text) >= TargetSize)
  <2>1. PICK r : r = raw
    OBVIOUS
  <2>2. raw' = r /\ pending' = u
    BY <1>5, <1>12, <2>1
  <2>3. QED
    BY <1>2, <1>6, <1>9, <1>10, <2>1, <2>2, JoinsFollow
<1>13. QED
  BY <1>11, <1>12

\* strip changes neither the ink of a chunk nor a chunk that is joined.
LEMMA StrippedStays ==
  ASSUME NEW c \in ChunkSet
  PROVE  LET new == [c EXCEPT !.text = Strip(@)]
         IN /\ Joined(new) <=> Joined(c)
            /\ FirstOf(new) = FirstOf(c)
            /\ new.text = <<>> => ~ Inked(c)
            /\ Joined(c) /\ Located(c) => new = c
<1>1. PICK t : t = Strip(c.text)
  OBVIOUS
<1> DEFINE new == [c EXCEPT !.text = Strip(@)]
<1>2. c.text \in Texts /\ t \in Texts /\ Ink(t) = Ink(c.text)
  BY <1>1, InkOfChunks, StripKeepsInk
<1>3. /\ new = [text |-> t, path |-> c.path, from |-> c.from, to |-> c.to]
      /\ c = [text |-> c.text, path |-> c.path, from |-> c.from, to |-> c.to]
  BY <1>1 DEF ChunkSet
<1>4. PICK e : e = new
  OBVIOUS
<1> HIDE DEF new
<1>5. e.text = t
  BY <1>3, <1>4
<1>6. FirstOf(e) = FirstOf(c) /\ (Inked(e) <=> Inked(c))
  BY <1>2, <1>5 DEF FirstOf, Inked
<1>7. Joined(e) <=> Joined(c)
  BY <1>6 DEF Joined
<1>8. e.text = <<>> => ~ Inked(c)
  BY <1>2, <1>5, InkOfNone DEF Inked
<1>9. ASSUME Joined(c), Located(c) PROVE e = c
  <2>1. t = c.text
    BY <1>1, <1>2, <1>9, StripOfEdged DEF Located
  <2>2. QED
    BY <1>3, <1>4, <2>1
<1>10. QED
  BY <1>4, <1>6, <1>7, <1>8, <1>9 DEF new

\* At the end the chunks are stripped, and empty ones are left out: the next one
\* of a chunk is the next one with ink, if they are joined.
LEMMA EndOfSectionsJoins ==
  ASSUME Inv, Ordered, Joins, EndOfSections
  PROVE  Joins'
<1>1. PICK all : all = raw \o Collected
  OBVIOUS
<1> DEFINE strip(c) == [c EXCEPT !.text = Strip(@)]
           stripped == [i \in DOMAIN all |-> strip(all[i])]
           keep == {i \in DOMAIN stripped : stripped[i].text # <<>>}
<1>2. /\ phase = "chunk" /\ raw' = Where(stripped, keep) /\ phase' = "done"
      /\ file' = file /\ sections' = sections
  BY <1>1 DEF EndOfSections
<1>3. all \in Seq(ChunkSet) /\ Greedy(all) /\ \A i \in DOMAIN all : Located(all[i])
  BY <1>1, <1>2, PendingIsPut
<1>4. ASSUME NEW i \in DOMAIN all
      PROVE  /\ strip(all[i]) \in ChunkSet
             /\ Joined(strip(all[i])) <=> Joined(all[i])
             /\ FirstOf(strip(all[i])) = FirstOf(all[i])
             /\ strip(all[i]).text = <<>> => ~ Inked(all[i])
             /\ Joined(all[i]) => strip(all[i]) = all[i]
  <2>1. PICK c : c = all[i]
    OBVIOUS
  <2>2. c \in ChunkSet /\ Located(c)
    BY <1>3, <2>1
  <2>3. strip(c) \in ChunkSet
    BY <2>2, InkOfChunks, StripKeepsInk DEF ChunkSet
  <2>4. QED
    BY <2>1, <2>2, <2>3, StrippedStays
<1> HIDE DEF strip
<1>5. stripped \in Seq(ChunkSet) /\ DOMAIN stripped = DOMAIN all /\ DOMAIN all \subseteq Int
  <2>1. DOMAIN all = 1 .. Len(all) /\ Len(all) \in Nat
    BY <1>3
  <2>2. stripped \in [1 .. Len(all) -> ChunkSet]
    BY <1>4, <2>1
  <2>3. QED
    BY <2>1, <2>2
<1>6. PICK s, k, r : s = stripped /\ k = keep /\ r = Where(stripped, keep)
  OBVIOUS
<1>7. /\ \A i \in DOMAIN s : i \in DOMAIN all /\ s[i] = strip(all[i])
      /\ \A i \in DOMAIN s : i \notin k => s[i].text = <<>>
  BY <1>5, <1>6
<1> HIDE DEF stripped, keep
<1>8. Picks(r, s, k) /\ raw' = r
  BY <1>2, <1>5, <1>6, WherePicks
<1>9. ASSUME NEW i \in DOMAIN r PROVE Located(r[i])
  <2>1. PICK p \in DOMAIN s : r[i] = s[p]
    BY <1>8 DEF Picks
  <2>2. PICK c, d : c = all[p] /\ d = r[i]
    OBVIOUS
  <2>3. Located(c) /\ (Joined(d) <=> Joined(c)) /\ (Joined(c) => d = c)
    BY <1>3, <1>4, <1>7, <2>1, <2>2
  <2>4. Located(d)
    BY <2>3 DEF Located
  <2>5. QED
    BY <2>2, <2>4
<1>10. ASSUME NEW i \in DOMAIN r, i + 1 \in DOMAIN r, Joined(r[i]), Joined(r[i + 1])
       PROVE  NeededCut(r[i].text, FirstOf(r[i + 1]))
  <2>1. PICK p, q \in DOMAIN s : /\ p < q /\ r[i] = s[p] /\ r[i + 1] = s[q]
                                 /\ \A m \in p + 1 .. q - 1 : m \notin k
    BY <1>8, <1>10 DEF Picks
  <2>2. p \in DOMAIN all /\ q \in DOMAIN all /\ s[p] = strip(all[p]) /\ s[q] = strip(all[q])
    BY <1>7
  <2>3. /\ Joined(all[p]) /\ Joined(all[q]) /\ s[p] = all[p]
        /\ FirstOf(s[q]) = FirstOf(all[q])
    BY <1>4, <1>10, <2>1, <2>2
  <2>4. Apart(all, p, q)
    <3>1. ASSUME NEW m \in p + 1 .. q - 1 PROVE ~ Inked(all[m])
      <4>1. m \in DOMAIN s /\ m \in DOMAIN all
        <5>1. PICK n : n = Len(all)
          OBVIOUS
        <5>2. n \in Nat /\ DOMAIN all = 1 .. n /\ DOMAIN s = 1 .. n
          BY <1>3, <1>5, <1>6, <5>1
        <5>3. QED
          BY <2>1, <5>2
      <4>2. strip(all[m]).text = <<>>
        BY <1>7, <2>1, <4>1
      <4>3. QED
        BY <1>4, <4>1, <4>2
    <3>2. QED
      BY <3>1 DEF Apart
  <2>5. NeededCut(all[p].text, FirstOf(all[q]))
    BY <1>3, <2>1, <2>2, <2>3, <2>4 DEF Greedy
  <2>6. QED
    BY <2>1, <2>3, <2>5
<1>11. ASSUME NEW i \in DOMAIN r PROVE Located(raw[i])'
  <2>1. PICK c : c = r[i]
    OBVIOUS
  <2>2. Located(c)'
    BY <1>2, <1>9, <2>1, SameJoins
  <2>3. QED
    BY <1>8, <2>1, <2>2
<1>12. ASSUME NEW i \in DOMAIN r, i + 1 \in DOMAIN r, Joined(raw[i])', Joined(raw[i + 1])'
       PROVE  NeededCut(raw[i].text, FirstOf(raw[i + 1]))'
  <2>1. PICK c, d : c = r[i] /\ d = r[i + 1]
    OBVIOUS
  <2>2. Joined(c)' /\ Joined(d)'
    BY <1>8, <1>12, <2>1
  <2>3. Joined(c) /\ Joined(d)
    BY <1>2, <2>2, SameJoins
  <2>4. PICK t, a : t = c.text /\ a = FirstOf(d)
    OBVIOUS
  <2>5. NeededCut(t, a)' /\ FirstOf(d)' = a
    BY <1>2, <1>10, <1>12, <2>1, <2>3, <2>4, SameJoins
  <2>6. QED
    BY <1>8, <2>1, <2>4, <2>5 DEF NeededCut
<1>13. QED
  BY <1>2, <1>8, <1>11, <1>12 DEF Joins

\* There is no chunk at first.
LEMMA InitJoins == Init => Joins
<1> SUFFICES ASSUME Init PROVE Joins
  OBVIOUS
<1>1. phase = "parse" /\ raw = <<>> /\ DOMAIN <<>> = {}
  BY DEF Init
<1>2. QED
  BY <1>1 DEF Joins

\* Every step keeps the joins.
LEMMA NextJoins ==
  ASSUME Inv, Ordered, Joins, Next
  PROVE  Joins'
<1>1. CASE \E k \in Kinds : ReadHeading(k) \/ ReadLine(k)
  BY <1>1, ParsingJoins DEF ReadHeading, ReadLine
<1>2. CASE EndOfFile
  BY <1>2, ParsingJoins DEF EndOfFile
<1>3. CASE SplitNext
  BY <1>3, SplitNextJoins
<1>4. CASE StartNext
  BY <1>4, StartNextJoins
<1>5. CASE AddNext
  BY <1>5, AddNextJoins
<1>6. CASE EndOfSections
  BY <1>6, EndOfSectionsJoins
<1>7. QED
  BY <1>1, <1>2, <1>3, <1>4, <1>5, <1>6 DEF Next

\* A step that changes nothing.
LEMMA NothingChangesTheJoins ==
  ASSUME Ordered, Joins, UNCHANGED vars
  PROVE  Ordered' /\ Joins'
<1>1. /\ phase' = phase /\ file' = file /\ cur' = cur /\ start' = start
      /\ sections' = sections /\ pending' = pending /\ raw' = raw
  BY DEF vars
<1>2. Ordered'
  BY <1>1 DEF Ordered, InOrder, Trimmed
<1>3. PICK r, p : r = raw /\ p = pending
  OBVIOUS
<1>4. /\ phase = "chunk" => Greedy(r)' /\ Awaits(r, p)' /\ Waiting(p)'
      /\ \A c : Located(c) => Located(c)'
  BY <1>1, <1>3, SameJoins DEF Joins
<1>5. phase' = "chunk" => Greedy(raw)' /\ Awaits(raw, pending)' /\ Waiting(pending)'
  BY <1>1, <1>3, <1>4 DEF Greedy, Awaits, Waiting, Apart
<1>6. ASSUME NEW i \in DOMAIN r PROVE Located(raw[i])'
  <2>1. PICK c : c = r[i]
    OBVIOUS
  <2>2. Located(c)'
    BY <1>3, <1>4, <2>1 DEF Joins
  <2>3. QED
    BY <1>1, <1>3, <2>1, <2>2
<1>7. ASSUME phase = "done", NEW i \in DOMAIN r, i + 1 \in DOMAIN r,
             Joined(raw[i])', Joined(raw[i + 1])'
      PROVE  NeededCut(raw[i].text, FirstOf(raw[i + 1]))'
  <2>1. PICK c, d : c = r[i] /\ d = r[i + 1]
    OBVIOUS
  <2>2. Joined(c)' /\ Joined(d)'
    BY <1>1, <1>3, <1>7, <2>1
  <2>3. Joined(c) /\ Joined(d)
    BY <1>1, <2>2, SameJoins
  <2>4. PICK t, a : t = c.text /\ a = FirstOf(d)
    OBVIOUS
  <2>5. NeededCut(t, a)
    BY <1>3, <1>7, <2>1, <2>3, <2>4 DEF Joins
  <2>6. NeededCut(t, a)' /\ FirstOf(d)' = a
    BY <1>1, <2>4, <2>5, SameJoins
  <2>7. QED
    BY <1>1, <1>3, <2>1, <2>4, <2>6 DEF NeededCut
<1>8. QED
  BY <1>1, <1>2, <1>3, <1>5, <1>6, <1>7 DEF Joins

\* In every reachable state the sections are in the order of their lines, a chunk
\* of whole sections has the range of its sections, and it ends before another
\* one, or before what is pending, only if it was full or that did not fit.
THEOREM JoinsInvariant == Spec => [](Ordered /\ Joins)
<1>1. Init => Ordered /\ Joins
  BY InitOrdered, InitJoins
<1>2. Inv /\ (Ordered /\ Joins) /\ [Next]_vars => (Ordered /\ Joins)'
  BY NextOrdered, NextJoins, NothingChangesTheJoins
<1>3. QED
  BY <1>1, <1>2, Invariant, PTL DEF Spec

\* A chunk of whole sections has been joined.
LEMMA WholeIsJoined ==
  ASSUME Inv, NEW i \in DOMAIN raw, IsWhole(raw[i])
  PROVE  /\ Joined(raw[i])
         /\ SectionOf(Head(Text(raw[i]))) = FirstOf(raw[i])
         /\ SectionOf(Last(Text(raw[i]))) = LastOf(raw[i])
<1>1. PICK c, t : c = raw[i] /\ t = Ink(c.text)
  OBVIOUS
<1>2. c \in ChunkSet /\ Text(c) = t
  BY <1>1, FitsAreChunks DEF Inv, TypeInv, Text, Ink
<1>3. t \in Seq(Nat) /\ t # <<>>
  BY <1>1, <1>2, InkOfChunks, InkIsText DEF IsWhole, Texts
<1>4. Head(t) \in ToSet(t)
  BY <1>3 DEF ToSet
<1>5. ~ Overlong(sections[SectionOf(Head(t))])
  BY <1>1, <1>2, <1>4 DEF IsWhole
<1>6. QED
  BY <1>1, <1>2, <1>3, <1>5 DEF Joined, Inked, FirstOf, LastOf

\* Small sections are joined up to the target size: two neighbouring chunks of
\* whole sections are two because the first one had reached it or the section
\* after it would have made it too long, whatever the note and the two sizes.
THEOREM JoiningIsGreedy == Spec => []NoNeedlessCut
<1>1. Inv /\ Joins => NoNeedlessCut
  <2> SUFFICES ASSUME Inv, Joins, NEW i \in DOMAIN raw,
                      i + 1 \in DOMAIN raw, IsWhole(raw[i]), IsWhole(raw[i + 1])
               PROVE  NeededCut(raw[i].text, SectionOf(Head(Text(raw[i + 1]))))
    BY DEF NoNeedlessCut, NeededCut
  <2>1. /\ Joined(raw[i]) /\ Joined(raw[i + 1])
        /\ SectionOf(Head(Text(raw[i + 1]))) = FirstOf(raw[i + 1])
    BY WholeIsJoined
  <2>2. CASE phase = "parse"
    <3>1. raw = <<>>
      BY <2>2 DEF Inv, Parsed
    <3>2. QED
      BY <3>1
  <2>3. CASE phase = "chunk"
    <3>1. i \in Int /\ i < i + 1 /\ i + 1 .. (i + 1) - 1 = {}
      BY DEF Inv, TypeInv
    <3>2. Apart(raw, i, i + 1)
      BY <3>1 DEF Apart
    <3>3. QED
      BY <2>1, <2>3, <3>1, <3>2 DEF Joins, Greedy
  <2>4. CASE phase = "done"
    BY <2>1, <2>4 DEF Joins
  <2>5. QED
    BY <2>2, <2>3, <2>4 DEF Inv, TypeInv
<1>2. QED
  BY <1>1, Invariant, JoinsInvariant, PTL

\* The line range of a chunk of whole sections begins with its first section and
\* ends with its last one, however many were joined and stripped.
THEOREM JoinedIsLocated == Spec => []WholeSectionsAreLocated
<1>1. Inv /\ Joins => WholeSectionsAreLocated
  <2> SUFFICES ASSUME Inv, Joins, NEW c \in ToSet(raw), IsWhole(c)
               PROVE  /\ c.from = sections[SectionOf(Head(Text(c)))].from
                      /\ c.to = sections[SectionOf(Last(Text(c)))].to
    BY DEF WholeSectionsAreLocated
  <2>1. PICK i \in DOMAIN raw : c = raw[i]
    BY DEF ToSet
  <2>2. /\ Joined(c) /\ SectionOf(Head(Text(c))) = FirstOf(c)
        /\ SectionOf(Last(Text(c))) = LastOf(c)
    BY <2>1, WholeIsJoined
  <2>3. QED
    BY <2>1, <2>2 DEF Joins, Located
<1>2. QED
  BY <1>1, Invariant, JoinsInvariant, PTL

-----------------------------------------------------------------------------
(***************************************************************************)
(* A text within another.                                                  *)
(***************************************************************************)
Holds(t, x) == \E a \in 0 .. Len(t) - Len(x) : \A m \in 1 .. Len(x) : t[a + m] = x[m]

\* A text is within itself, and what is within it is within what it is put into.
LEMMA HoldsInConcat ==
  ASSUME NEW t \in Texts, NEW u \in Texts, NEW x \in Texts
  PROVE  /\ Holds(x, x)
         /\ Holds(t, x) => Holds(t \o u, x) /\ Holds(u \o t, x)
<1>1. /\ t \in Seq(Nat) /\ u \in Seq(Nat) /\ x \in Seq(Nat)
      /\ Len(t) \in Nat /\ Len(u) \in Nat /\ Len(x) \in Nat
  BY DEF Texts
<1>2. Holds(x, x)
  <2>1. 0 \in 0 .. Len(x) - Len(x) /\ \A m \in 1 .. Len(x) : x[0 + m] = x[m]
    BY <1>1
  <2>2. QED
    BY <2>1 DEF Holds
<1>3. ASSUME Holds(t, x) PROVE Holds(t \o u, x) /\ Holds(u \o t, x)
  <2>1. PICK a \in 0 .. Len(t) - Len(x) : \A m \in 1 .. Len(x) : t[a + m] = x[m]
    BY <1>3 DEF Holds
  <2>2. PICK v, w : v = t \o u /\ w = u \o t
    OBVIOUS
  <2>3. /\ Len(v) = Len(t) + Len(u) /\ Len(w) = Len(t) + Len(u)
        /\ \A i \in 1 .. Len(t) : v[i] = t[i] /\ w[Len(u) + i] = t[i]
    BY <1>1, <2>2
  <2>4. \A m \in 1 .. Len(x) : a + m \in 1 .. Len(t)
    BY <1>1, <2>1
  <2>5. a \in 0 .. Len(v) - Len(x) /\ \A m \in 1 .. Len(x) : v[a + m] = x[m]
    BY <1>1, <2>1, <2>3, <2>4
  <2>6. /\ Len(u) + a \in 0 .. Len(w) - Len(x)
        /\ \A m \in 1 .. Len(x) : w[(Len(u) + a) + m] = x[m]
    <3>1. Len(u) + a \in 0 .. Len(w) - Len(x)
      BY <1>1, <2>1, <2>3
    <3>2. ASSUME NEW m \in 1 .. Len(x) PROVE w[(Len(u) + a) + m] = x[m]
      <4>1. (Len(u) + a) + m = Len(u) + (a + m)
        BY <1>1, <2>1
      <4>2. QED
        BY <2>1, <2>3, <2>4, <4>1
    <3>3. QED
      BY <3>1, <3>2
  <2>7. QED
    BY <2>2, <2>5, <2>6 DEF Holds
<1>4. QED
  BY <1>2, <1>3

\* A text with such edges is within what is left when breaks are cut off.
LEMMA HoldsInPart ==
  ASSUME NEW t \in Texts, NEW x \in Texts, Edged(x), Holds(t, x),
         NEW keep \in SUBSET DOMAIN t, Marks(t) \subseteq keep
  PROVE  Holds(Between(t, keep), x)
<1>1. /\ t \in Seq(Nat) /\ Len(t) \in Nat /\ DOMAIN t = 1 .. Len(t)
      /\ Len(x) \in Nat \ {0} /\ x[1] # 0 /\ x[Len(x)] # 0
  BY DEF Texts, Edged
<1>2. PICK a \in 0 .. Len(t) - Len(x) : \A m \in 1 .. Len(x) : t[a + m] = x[m]
  BY DEF Holds
<1>3. PICK n, l : n = Len(t) /\ l = Len(x)
  OBVIOUS
<1>4. a + 1 \in keep /\ a + l \in keep
  <2>1. a + 1 \in DOMAIN t /\ a + l \in DOMAIN t /\ t[a + 1] # 0 /\ t[a + l] # 0
    BY <1>1, <1>2, <1>3
  <2>2. QED
    BY <2>1 DEF Marks
<1>5. PICK b, e : b = Min(keep) /\ e = Max(keep)
  OBVIOUS
<1>6. /\ b \in keep /\ e \in keep /\ b <= a + 1 /\ a + l <= e
      /\ Between(t, keep) = SubSeq(t, b, e)
  BY <1>4, <1>5, BetweenIsPart DEF Texts
<1>7. b \in 1 .. n /\ e \in b .. n /\ n \in Nat /\ l \in Nat \ {0} /\ a \in 0 .. n - l
  <2>1. b \in 1 .. n /\ e \in 1 .. n
    BY <1>1, <1>3, <1>6
  <2>2. n \in Nat /\ l \in Nat \ {0} /\ a \in 0 .. n - l
    BY <1>1, <1>2, <1>3
  <2>3. QED
    BY <1>6, <2>1, <2>2
<1>8. PICK w : w = SubSeq(t, b, e)
  OBVIOUS
<1>9. Len(w) = e - b + 1 /\ \A i \in 1 .. e - b + 1 : w[i] = t[b + i - 1]
  BY <1>1, <1>3, <1>7, <1>8, SubSeqProperties
<1>10. PICK d : d = a - (b - 1)
  OBVIOUS
<1>11. d \in 0 .. Len(w) - l
  <2>1. d \in Int /\ d >= 0 /\ d <= (e - b + 1) - l
    BY <1>6, <1>7, <1>10
  <2>2. (e - b + 1) - l \in Int
    BY <1>7
  <2>3. QED
    BY <1>9, <2>1, <2>2
<1>12. ASSUME NEW m \in 1 .. l PROVE w[d + m] = x[m]
  <2>1. d + m \in 1 .. e - b + 1 /\ b + (d + m) - 1 = a + m
    BY <1>6, <1>7, <1>10
  <2>2. QED
    BY <1>2, <1>3, <1>9, <2>1
<1>13. QED
  BY <1>3, <1>6, <1>8, <1>11, <1>12 DEF Holds

\* It stays within texts that are stripped and joined.
LEMMA HoldsInJoin ==
  ASSUME NEW t \in Texts, NEW u \in Texts, NEW x \in Texts, Edged(x)
  PROVE  /\ Holds(t, x) => t # <<>> /\ Holds(Strip(t), x)
         /\ Holds(t, x) \/ Holds(u, x) => Holds(JoinBlocks(t, u), x)
<1>1. ASSUME NEW v \in Texts, Holds(v, x)
      PROVE  v # <<>> /\ Holds(Strip(v), x) /\ Holds(RStrip(v), x)
  <2>1. v # <<>>
    <3>1. Len(v) \in Nat /\ Len(x) \in Nat \ {0}
      BY DEF Texts, Edged
    <3>2. Len(v) # 0
      BY <1>1, <3>1 DEF Holds
    <3>3. QED
      BY <3>2
  <2>2. Holds(Strip(v), x)
    BY <1>1, MarksInText, HoldsInPart DEF Strip
  <2>3. Holds(RStrip(v), x)
    <3> DEFINE keep == {i \in DOMAIN v : \E j \in Marks(v) : i <= j}
    <3>1. keep \in SUBSET DOMAIN v /\ RStrip(v) = Between(v, keep)
      BY DEF RStrip
    <3>2. Marks(v) \subseteq keep
      <4>1. \A j \in Marks(v) : j \in DOMAIN v /\ j <= j
        BY DEF Marks, Texts
      <4>2. QED
        BY <4>1
    <3> HIDE DEF keep
    <3>3. QED
      BY <1>1, <3>1, <3>2, HoldsInPart
  <2>4. QED
    BY <2>1, <2>2, <2>3
<1>2. ASSUME Holds(t, x) \/ Holds(u, x) PROVE Holds(JoinBlocks(t, u), x)
  <2>1. CASE t = <<>> \/ u = <<>>
    <3>1. t \o u \in Texts /\ Holds(t \o u, x)
      BY <1>2, HoldsInConcat DEF Texts
    <3>2. QED
      BY <1>1, <2>1, <3>1 DEF JoinBlocks
  <2>2. CASE ~ (t = <<>> \/ u = <<>>)
    <3>1. PICK l, g, r : l = RStrip(t) /\ g = <<0, 0>> /\ r = Strip(u)
      OBVIOUS
    <3>2. l \in Texts /\ g \in Texts /\ r \in Texts /\ l \o g \in Texts
      BY <3>1, RStripKeepsInk, StripKeepsInk DEF Texts
    <3>3. Holds(l, x) \/ Holds(r, x)
      BY <1>1, <1>2, <3>1
    <3>4. Holds((l \o g) \o r, x)
      BY <3>2, <3>3, HoldsInConcat
    <3>5. JoinBlocks(t, u) = (l \o g) \o r
      <4>1. JoinBlocks(t, u) = RStrip(t) \o <<0, 0>> \o Strip(u)
        BY <2>2 DEF JoinBlocks
      <4>2. QED
        BY <3>1, <4>1
    <3>6. QED
      BY <3>4, <3>5
  <2>3. QED
    BY <2>1, <2>2
<1>3. QED
  BY <1>1, <1>2

\* All of its characters are there.
LEMMA HoldsAll ==
  ASSUME NEW t \in Texts, NEW x \in Texts, Holds(t, x)
  PROVE  ToSet(x) \subseteq ToSet(t)
<1>1. PICK a \in 0 .. Len(t) - Len(x) : \A m \in 1 .. Len(x) : t[a + m] = x[m]
  BY DEF Holds
<1>2. ASSUME NEW m \in DOMAIN x PROVE x[m] \in ToSet(t)
  <2>1. /\ m \in 1 .. Len(x) /\ a + m \in DOMAIN t
    BY DEF Texts
  <2>2. QED
    BY <1>1, <2>1 DEF ToSet
<1>3. QED
  BY <1>2 DEF ToSet

-----------------------------------------------------------------------------
(***************************************************************************)
(* Parts of sequences, what a sequence put together has, and texts that    *)
(* hold another one.                                                       *)
(***************************************************************************)
\* Nothing is trimmed from lines that begin and end with text.
LEMMA TrimOfTrimmed ==
  ASSUME file \in Seq(Kinds), NEW ns \in Seq(DOMAIN file), Trimmed(ns)
  PROVE  Trim(ns) = ns
<1> DEFINE keep == {i \in DOMAIN ns : file[ns[i]] # "blank"}
<1>1. PICK n : n = Len(ns)
  OBVIOUS
<1>2. n \in Nat \ {0} /\ DOMAIN ns = 1 .. n /\ 1 \in keep /\ n \in keep
  BY <1>1 DEF Trimmed
<1>3. keep \in SUBSET DOMAIN ns /\ Trim(ns) = Between(ns, keep)
  BY DEF Trim
<1> HIDE DEF keep
<1>4. PICK b, e : b = Min(keep) /\ e = Max(keep)
  OBVIOUS
<1>5. /\ b \in keep /\ e \in keep /\ b <= 1 /\ n <= e
      /\ Between(ns, keep) = SubSeq(ns, b, e)
  BY <1>2, <1>3, <1>4, BetweenIsPart
<1>6. b = 1 /\ e = n
  BY <1>2, <1>3, <1>5
<1>7. QED
  BY <1>1, <1>3, <1>5, <1>6, SubSeqFull

\* A part of a sequence grows element by element.
LEMMA PartGrows ==
  ASSUME NEW S, NEW s \in Seq(S), NEW p \in 1 .. Len(s), NEW i \in p .. Len(s)
  PROVE  /\ SubSeq(s, p, i) \in Seq(S) /\ Len(SubSeq(s, p, i)) = i - p + 1
         /\ \A m \in 1 .. i - p + 1 : SubSeq(s, p, i)[m] = s[p + m - 1]
         /\ SubSeq(s, p, p - 1) = <<>>
         /\ Append(SubSeq(s, p, i - 1), s[i]) = SubSeq(s, p, i)
<1>1. PICK n : n = Len(s) /\ n \in Nat /\ DOMAIN s = 1 .. n
  OBVIOUS
<1>2. p \in 1 .. n /\ i \in p .. n /\ p \in Int /\ i \in Int
  BY <1>1
<1>3. PICK a, b : a = SubSeq(s, p, i - 1) /\ b = SubSeq(s, p, i)
  OBVIOUS
<1>4. /\ b \in Seq(S) /\ Len(b) = i - p + 1
      /\ \A m \in 1 .. i - p + 1 : b[m] = s[p + m - 1]
  BY <1>1, <1>2, <1>3, SubSeqProperties
<1>5. /\ a \in Seq(S) /\ Len(a) = i - p
      /\ \A m \in 1 .. i - p : a[m] = s[p + m - 1]
  BY <1>1, <1>2, <1>3, SubSeqProperties
<1>6. SubSeq(s, p, p - 1) = <<>>
  BY <1>1, <1>2, SubSeqProperties
<1>7. PICK c : c = Append(a, s[i])
  OBVIOUS
<1>8. s[i] \in S
  BY <1>1, <1>2
<1>9. /\ c \in Seq(S) /\ Len(c) = i - p + 1 /\ c[i - p + 1] = s[i]
      /\ \A m \in 1 .. i - p : c[m] = a[m]
  BY <1>2, <1>5, <1>7, <1>8
<1>10. \A m \in 1 .. i - p + 1 : c[m] = b[m]
  <2>1. ASSUME NEW m \in 1 .. i - p + 1 PROVE c[m] = b[m]
    <3>1. CASE m = i - p + 1
      <4>1. p + m - 1 = i
        BY <1>2, <3>1
      <4>2. QED
        BY <1>4, <1>9, <3>1, <4>1
    <3>2. CASE m # i - p + 1
      <4>1. m \in 1 .. i - p
        BY <1>2, <3>2
      <4>2. QED
        BY <1>4, <1>5, <1>9, <4>1
    <3>3. QED
      BY <3>1, <3>2
  <2>2. QED
    BY <2>1
<1>11. c = b
  BY <1>4, <1>9, <1>10
<1>12. QED
  BY <1>3, <1>4, <1>6, <1>7, <1>11

\* The elements of a part are in what the parts are flattened to.
LEMMA FlattenHas ==
  ASSUME NEW S, NEW ss \in Seq(Seq(S)), NEW i \in DOMAIN ss, NEW x \in ToSet(ss[i])
  PROVE  x \in ToSet(FlattenSeq(ss))
<1>1. PICK k \in [0 .. Len(ss) -> Seq(S)] :
        /\ k[0] = <<>> /\ k[Len(ss)] = FlattenSeq(ss)
        /\ \A j \in 1 .. Len(ss) : k[j] = k[j - 1] \o ss[j]
  BY FlattenRuns
<1>2. PICK n : n = Len(ss)
  OBVIOUS
<1>3. n \in Nat /\ i \in 1 .. n /\ \A j \in 1 .. n : ss[j] \in Seq(S)
  BY <1>2
<1> DEFINE T == {q \in 0 .. n : i <= q => x \in ToSet(k[q])}
<1>4. 0 \in T
  BY <1>3
<1>5. ASSUME NEW q \in 0 .. n - 1, q \in T PROVE q + 1 \in T
  <2>1. q + 1 \in 1 .. n /\ q + 1 \in 0 .. n /\ (q + 1) - 1 = q /\ q \in 0 .. n
    BY <1>3
  <2>2. PICK a, b, c : a = k[q] /\ b = ss[q + 1] /\ c = k[q + 1]
    OBVIOUS
  <2>3. a \in Seq(S) /\ b \in Seq(S) /\ c = a \o b
    BY <1>1, <1>2, <1>3, <2>1, <2>2
  <2>4. ToSet(a) \subseteq ToSet(c) /\ ToSet(b) \subseteq ToSet(c)
    <3>1. /\ \A m \in DOMAIN a : m \in DOMAIN c /\ c[m] = a[m]
          /\ \A m \in DOMAIN b : Len(a) + m \in DOMAIN c /\ c[Len(a) + m] = b[m]
      BY <2>3
    <3>2. QED
      BY <3>1 DEF ToSet
  <2>5. i <= q + 1 => x \in ToSet(c)
    <3>1. CASE i <= q
      BY <1>5, <2>2, <2>4, <3>1
    <3>2. CASE i = q + 1
      BY <2>2, <2>4, <3>2
    <3>3. QED
      BY <1>3, <3>1, <3>2
  <2>6. QED
    BY <2>1, <2>2, <2>5
<1>6. n \in T
  <2> HIDE DEF T
  <2>1. 0 .. n \subseteq T
    BY <1>3, <1>4, <1>5, UpTo
  <2>2. QED
    BY <1>3, <2>1
<1>7. QED
  BY <1>1, <1>2, <1>3, <1>6

\* A text that is not too long is not split.
LEMMA FittingIsNotSplit ==
  ASSUME NEW t \in Texts, t # <<>>, Len(t) <= MaxSize
  PROVE  SplitText(t) = <<t>>
<1>1. FlattenSeq(<<<<t>>>>) = <<t>>
  <2>1. <<t>> \in Seq(Texts)
    OBVIOUS
  <2>2. QED
    BY <2>1, FlattenOne
<1>2. ASSUME NEW p PROVE Refine(<<t>>, p) = <<t>>
  <2>1. PackPattern(t, p) = <<t>>
    BY DEF PackPattern
  <2>2. [i \in DOMAIN <<t>> |-> PackPattern(<<t>>[i], p)] = <<<<t>>>>
    <3>1. DOMAIN <<t>> = {1} /\ <<t>>[1] = t
      OBVIOUS
    <3>2. DOMAIN <<<<t>>>> = {1} /\ <<<<t>>>>[1] = <<t>>
      OBVIOUS
    <3>3. [i \in DOMAIN <<t>> |-> PackPattern(<<t>>[i], p)] = [i \in {1} |-> <<t>>]
      BY <2>1, <3>1
    <3>4. QED
      BY <3>2, <3>3
  <2>3. QED
    BY Zenon, <1>1, <2>2 DEF Refine
<1>3. HardCut(t) = <<t>>
  <2>1. PICK n, m : n = Len(t) /\ m = MaxSize
    OBVIOUS
  <2>2. t \in Seq(Nat) /\ n \in Nat \ {0} /\ m \in Nat \ {0} /\ n <= m
    BY <2>1, SizesAssumption DEF Texts
  <2>3. (n + m - 1) \div m = 1
    <3>1. PICK q : q = (n + m - 1) \div m
      OBVIOUS
    <3>2. q \in Nat /\ n <= q * m /\ \A i \in Nat : i < q => i * m < n
      BY <2>2, <3>1, Pieces
    <3>3. q # 0
      BY <2>2, <3>2
    <3>4. ~ (1 < q)
      <4>1. 1 * m = m /\ 1 \in Nat
        BY <2>2
      <4>2. \A i \in Nat : i < q => i * m < n
        BY Zenon, <3>2
      <4>3. 1 < q => 1 * m < n
        BY Zenon, <4>1, <4>2
      <4>4. 1 < q => m < n
        BY Zenon, <4>1, <4>3
      <4>5. ~ (m < n)
        BY <2>2
      <4>6. QED
        BY Zenon, <4>4, <4>5
    <3>5. QED
      BY <3>1, <3>2, <3>3, <3>4
  <2>4. (1 - 1) * m + 1 = 1 /\ Min({1 * m, n}) = n
    <3>1. 1 * m = m /\ (1 - 1) * m = 0
      BY <2>2
    <3>2. Min({m, n}) = n
      <4>1. Min({m, n}) = IF m <= n THEN m ELSE n
        BY <2>2, MinOfTwo
      <4>2. QED
        BY <2>2, <4>1
    <3>3. QED
      BY <3>1, <3>2
  <2>5. SubSeq(t, 1, n) = t
    BY <2>1, <2>2, SubSeqFull
  <2>6. HardCut(t) = [i \in 1 .. (n + m - 1) \div m |->
                        SubSeq(t, (i - 1) * m + 1, Min({i * m, n}))]
    BY Zenon, <2>1 DEF HardCut
  <2>7. HardCut(t) = [i \in 1 .. 1 |-> SubSeq(t, (i - 1) * m + 1, Min({i * m, n}))]
    BY Zenon, <2>3, <2>6
  <2>8. PICK h : h = HardCut(t)
    OBVIOUS
  <2>9. DOMAIN h = 1 .. 1
    BY Zenon, <2>7, <2>8
  <2>10. h[1] = SubSeq(t, (1 - 1) * m + 1, Min({1 * m, n}))
    <3>1. 1 \in 1 .. 1
      OBVIOUS
    <3>2. QED
      BY Zenon, <2>7, <2>8, <3>1
  <2>11. h[1] = t
    BY Zenon, <2>4, <2>5, <2>10
  <2>12. h = [i \in 1 .. 1 |-> h[i]]
    BY Zenon, <2>7, <2>8, <2>9
  <2>13. \A i \in 1 .. 1 : h[i] = t
    BY <2>11
  <2>14. h = [i \in 1 .. 1 |-> t]
    BY <2>12, <2>13
  <2>15. QED
    BY <2>8, <2>14
<1>4. PICK packed : packed = Refine(Refine(Refine(<<t>>, 1), 2), 3)
  OBVIOUS
<1>5. packed = <<t>>
  BY Zenon, <1>2, <1>4
<1>6. [i \in DOMAIN packed |-> HardCut(packed[i])] = <<<<t>>>>
  <2>1. DOMAIN packed = {1} /\ packed[1] = t
    BY <1>5
  <2>2. [i \in DOMAIN packed |-> HardCut(packed[i])] = [i \in {1} |-> <<t>>]
    BY <1>3, <2>1
  <2>3. DOMAIN <<<<t>>>> = {1} /\ <<<<t>>>>[1] = <<t>>
    OBVIOUS
  <2>4. QED
    BY <2>2, <2>3
<1>7. SplitText(t) = FlattenSeq([i \in DOMAIN packed |-> HardCut(packed[i])])
  BY Zenon, <1>4 DEF SplitText
<1>8. QED
  BY Zenon, <1>1, <1>6, <1>7

\* A block that is not too long is one unit.
LEMMA FittingBlockIsUnit ==
  ASSUME file \in Seq(Kinds), NEW s \in SectionSet(file),
         NEW i \in DOMAIN Blocks(s.lines), NEW t, t = JoinLines(Blocks(s.lines)[i].lines),
         Len(t) <= MaxSize
  PROVE  \E u \in ToSet(Units(s)) : u.text = t
<1>1. PICK bs, b : bs = Blocks(s.lines) /\ b = bs[i]
  OBVIOUS
<1>2. /\ bs \in Seq(BlockSet) /\ i \in DOMAIN bs /\ b \in BlockSet
      /\ b.lines \in Seq(DOMAIN file) /\ Trimmed(b.lines)
  <2>1. s.lines \in Seq(DOMAIN file)
    BY DEF SectionSet
  <2>2. bs \in Seq(BlockSet) /\ i \in DOMAIN bs
    BY <1>1, <2>1, BlocksKeepLines
  <2>3. b \in BlockSet
    BY <1>1, <2>2
  <2>4. QED
    BY <2>2, <2>3 DEF BlockSet
<1>3. t = JoinLines(b.lines)
  BY <1>1
<1>4. t \in Texts /\ t # <<>>
  BY <1>2, <1>3, JoinLinesKeepsInk, JoinOfTrimmed DEF Edged
<1>5. SplitText(t) = <<t>> /\ ~ (Len(t) > MaxSize)
  <2>1. Len(t) \in Nat /\ MaxSize \in Nat
    BY <1>4, SizesAssumption DEF Texts
  <2>2. QED
    BY <1>4, <2>1, FittingIsNotSplit
<1>6. 1 \in DOMAIN BlockUnits(s, b) /\ BlockUnits(s, b)[1].text = t
  <2> DEFINE kept == Len(t) > MaxSize /\ IsFenced(b.lines)
             parts == IF kept THEN <<t>> ELSE SplitText(t)
  <2>1. kept = FALSE
    BY <1>5
  <2>2. parts = <<t>>
    BY <1>5
  <2>3. BlockUnits(s, b) = [j \in DOMAIN parts |->
          [text |-> parts[j], alone |-> kept,
           from |-> IF j = 1 THEN s.from + b.from - 1 ELSE NoLine,
           to   |-> IF j = Len(parts) THEN s.from + b.to - 1 ELSE NoLine]]
    BY Zenon, <1>3 DEF BlockUnits
  <2> HIDE DEF kept, parts
  <2>4. BlockUnits(s, b) = [j \in DOMAIN <<t>> |->
          [text |-> <<t>>[j], alone |-> FALSE,
           from |-> IF j = 1 THEN s.from + b.from - 1 ELSE NoLine,
           to   |-> IF j = Len(<<t>>) THEN s.from + b.to - 1 ELSE NoLine]]
    BY Zenon, <2>1, <2>2, <2>3
  <2>5. DOMAIN BlockUnits(s, b) = DOMAIN <<t>>
    BY Zenon, <2>4
  <2>6. 1 \in DOMAIN <<t>> /\ <<t>>[1] = t
    OBVIOUS
  <2>7. BlockUnits(s, b)[1] =
          [text |-> <<t>>[1], alone |-> FALSE,
           from |-> IF 1 = 1 THEN s.from + b.from - 1 ELSE NoLine,
           to   |-> IF 1 = Len(<<t>>) THEN s.from + b.to - 1 ELSE NoLine]
    BY Zenon, <2>4, <2>6
  <2>8. BlockUnits(s, b)[1].text = <<t>>[1]
    <3>1. PICK u, from, to : /\ u = BlockUnits(s, b)[1]
                             /\ from = IF 1 = 1 THEN s.from + b.from - 1 ELSE NoLine
                             /\ to = IF 1 = Len(<<t>>) THEN s.from + b.to - 1 ELSE NoLine
      OBVIOUS
    <3>2. u = [text |-> <<t>>[1], alone |-> FALSE, from |-> from, to |-> to]
      BY Zenon, <2>7, <3>1
    <3>3. u.text = <<t>>[1]
      BY <3>2
    <3>4. QED
      BY <3>1, <3>3
  <2>9. QED
    BY <2>5, <2>6, <2>8
<1>7. PICK us : us = BlockUnits(s, b)
  OBVIOUS
<1>8. 1 \in DOMAIN us /\ us[1].text = t
  BY <1>6, <1>7
<1>9. us[1] \in ToSet(us)
  BY <1>8 DEF ToSet
<1> DEFINE parts == [j \in DOMAIN bs |-> BlockUnits(s, bs[j])]
<1>10. parts \in Seq(Seq(UnitSet(bs))) /\ i \in DOMAIN parts /\ parts[i] = us
  <2>1. ASSUME NEW j \in DOMAIN bs PROVE BlockUnits(s, bs[j]) \in Seq(UnitSet(bs))
    <3>1. bs[j] \in ToSet(bs)
      BY DEF ToSet
    <3>2. QED
      BY <1>2, <3>1, BlockUnitsKeepInk
  <2>2. DOMAIN bs = 1 .. Len(bs) /\ Len(bs) \in Nat
    BY <1>2
  <2>3. parts \in [1 .. Len(bs) -> Seq(UnitSet(bs))]
    BY <2>1, <2>2
  <2>4. parts \in Seq(Seq(UnitSet(bs)))
    BY <2>2, <2>3
  <2>5. QED
    BY <1>1, <1>2, <1>7, <2>4
<1>11. Units(s) = FlattenSeq(parts)
  BY <1>1 DEF Units
<1> HIDE DEF parts
<1>12. us[1] \in ToSet(FlattenSeq(parts))
  BY <1>9, <1>10, FlattenHas
<1>13. QED
  BY <1>8, <1>11, <1>12

\* A text within a chunk, or within one or what is collected.
InChunk(r, x)      == \E m \in DOMAIN r : Holds(r[m].text, x)
Somewhere(r, p, x) == InChunk(r, x) \/ Holds(p.text, x)

\* A text is within a chunk of two lists if it is within one of either.
LEMMA InChunkOfConcat ==
  ASSUME NEW S, NEW r \in Seq(S), NEW e \in Seq(S), NEW x
  PROVE  InChunk(r, x) \/ InChunk(e, x) => InChunk(r \o e, x)
<1>1. PICK w : w = r \o e
  OBVIOUS
<1>2. /\ \A m \in DOMAIN r : m \in DOMAIN w /\ w[m] = r[m]
      /\ \A m \in DOMAIN e : Len(r) + m \in DOMAIN w /\ w[Len(r) + m] = e[m]
  BY <1>1
<1>3. InChunk(r, x) \/ InChunk(e, x) => InChunk(w, x)
  BY <1>2 DEF InChunk
<1>4. QED
  BY <1>1, <1>3

\* The same of a single chunk.
LEMMA InChunkOfOne ==
  ASSUME NEW c, NEW x, Holds(c.text, x)
  PROVE  InChunk(<<c>>, x)
<1>1. 1 \in DOMAIN <<c>> /\ <<c>>[1] = c
  OBVIOUS
<1>2. QED
  BY <1>1 DEF InChunk

\* What has been put together is not lost when it becomes a chunk.
LEMMA EmittedHolds ==
  ASSUME NEW c \in ChunkSet, NEW x \in Texts, Edged(x), Holds(c.text, x)
  PROVE  InChunk(Emitted(c), x)
<1>1. c.text \in Texts
  BY DEF ChunkSet
<1>2. c.text # <<>>
  BY <1>1, HoldsInJoin
<1>3. PICK v : v = ValidRange(c)
  OBVIOUS
<1>4. Emitted(c) = <<v>> /\ v.text = c.text
  BY <1>2, <1>3, ValidRangeKeepsText DEF Emitted
<1>5. QED
  BY <1>4, InChunkOfOne

\* No round of the loop of SplitSection takes a text apart that is within a chunk,
\* within what is collected, or within the unit that comes.
LEMMA AddUnitHolds ==
  ASSUME NEW bs, NEW acc \in Splits(bs), NEW u \in UnitSet(bs),
         NEW x \in Texts, Edged(x),
         Somewhere(acc.out, acc.pend, x) \/ Holds(u.text, x)
  PROVE  LET new == AddUnit(acc, u) IN Somewhere(new.out, new.pend, x)
<1> DEFINE new == AddUnit(acc, u)
           p == acc.pend
           joined == JoinBlocks(p.text, u.text)
           none == [Nothing EXCEPT !.path = p.path]
           chunk == [none EXCEPT !.text = u.text, !.from = u.from, !.to = u.to]
           before == acc.out \o Emitted(p)
<1>1. /\ acc.out \in Seq(ChunkSet) /\ p \in ChunkSet /\ p.text \in Texts
      /\ Len(p.text) <= MaxSize
  BY InkOfSplits
<1>2. u.text \in Texts /\ u.alone \in BOOLEAN /\ u.from \in Int /\ u.to \in Int
  BY DEF UnitSet
<1>3. chunk.text = u.text /\ chunk \in ChunkSet
  <2>1. none = [text |-> <<>>, path |-> p.path, from |-> NoLine, to |-> NoLine]
    BY DEF Nothing
  <2>2. chunk = [none EXCEPT !.text = u.text, !.from = u.from, !.to = u.to]
    OBVIOUS
  <2>3. p.path \in Seq(Nat)
    BY <1>1 DEF ChunkSet
  <2> HIDE DEF none, p, chunk
  <2>4. chunk = [text |-> u.text, path |-> p.path, from |-> u.from, to |-> u.to]
    BY <2>1, <2>2
  <2>5. QED
    BY <1>2, <2>3, <2>4 DEF ChunkSet
<1>4. before \in Seq(ChunkSet) /\ (Somewhere(acc.out, p, x) => InChunk(before, x))
  <2>1. PICK o, e : o = acc.out /\ e = Emitted(p)
    OBVIOUS
  <2>2. o \in Seq(ChunkSet) /\ e \in Seq(ChunkSet)
    BY <1>1, <2>1, EmittedKeepsInk
  <2>3. InChunk(o, x) \/ InChunk(e, x) => InChunk(o \o e, x)
    BY <2>2, InChunkOfConcat
  <2>4. Holds(p.text, x) => InChunk(e, x)
    BY <1>1, <2>1, EmittedHolds
  <2>5. QED
    BY <2>1, <2>2, <2>3, <2>4 DEF Somewhere
<1>5. ASSUME NEW out, NEW pend, new = [out |-> out, pend |-> pend],
             InChunk(out, x) \/ Holds(pend.text, x)
      PROVE  Somewhere(new.out, new.pend, x)
  <2> HIDE DEF new
  <2>1. new.out = out /\ new.pend = pend
    BY <1>5
  <2>2. QED
    BY <1>5, <2>1 DEF Somewhere
<1> HIDE DEF joined, none, chunk, before
<1>6. CASE u.alone
  <2>1. new = [out |-> before \o <<chunk>>, pend |-> none]
    BY <1>6 DEF AddUnit, before, joined, none, chunk
  <2>2. PICK c : c = <<chunk>>
    OBVIOUS
  <2>3. c \in Seq(ChunkSet) /\ (Holds(u.text, x) => InChunk(c, x))
    BY <1>3, <2>2, InChunkOfOne
  <2>4. InChunk(before, x) \/ InChunk(c, x) => InChunk(before \o c, x)
    BY <1>4, <2>3, InChunkOfConcat
  <2>5. InChunk(before \o c, x)
    BY <1>4, <2>3, <2>4
  <2> HIDE DEF new
  <2>6. QED
    BY <1>5, <2>1, <2>2, <2>5 DEF new
<1>7. CASE ~ u.alone /\ p.text # <<>> /\ Len(joined) > MaxSize
  <2>1. new = [out |-> before, pend |-> chunk]
    BY <1>7 DEF AddUnit, before, joined, none, chunk
  <2> HIDE DEF new
  <2>2. QED
    BY <1>3, <1>4, <1>5, <2>1 DEF new
<1>8. CASE ~ u.alone /\ ~ (p.text # <<>> /\ Len(joined) > MaxSize)
  <2> DEFINE from == IF p.from = NoLine THEN u.from ELSE p.from
             pend == [text |-> joined, path |-> p.path, from |-> from, to |-> u.to]
  <2>1. new = [acc EXCEPT !.pend.text = joined, !.pend.to = u.to,
                          !.pend.from = IF @ = NoLine THEN u.from ELSE @]
    BY <1>8 DEF AddUnit, joined, none, chunk
  <2>2. acc = [out |-> acc.out, pend |-> p]
    BY DEF Splits
  <2>3. p = [text |-> p.text, path |-> p.path, from |-> p.from, to |-> p.to]
    BY <1>1 DEF ChunkSet
  <2>4. new = [out |-> acc.out, pend |-> pend]
    BY <2>1, <2>2, <2>3
  <2>5. pend.text = joined
    OBVIOUS
  <2> HIDE DEF new, p, pend
  <2>6. Holds(p.text, x) \/ Holds(u.text, x) => Holds(joined, x)
    BY <1>1, <1>2, HoldsInJoin DEF joined
  <2>7. InChunk(acc.out, x) \/ Holds(p.text, x) \/ Holds(u.text, x)
    BY DEF Somewhere, p
  <2>8. QED
    BY <1>5, <2>4, <2>5, <2>6, <2>7 DEF new
<1>9. QED
  BY <1>2, <1>6, <1>7, <1>8

\* A text of a unit is within a chunk of the section.
LEMMA SplitSectionHolds ==
  ASSUME file \in Seq(Kinds), NEW s \in SectionSet(file), NEW u \in ToSet(Units(s)),
         NEW x \in Texts, Edged(x), Holds(u.text, x)
  PROVE  InChunk(SplitSection(s), x)
<1>1. PICK bs, units, n : bs = Blocks(s.lines) /\ units = Units(s) /\ n = Len(units)
  OBVIOUS
<1>2. units \in Seq(UnitSet(bs)) /\ n \in Nat /\ DOMAIN units = 1 .. n
  BY <1>1, UnitsKeepInk
<1>3. PICK w \in 1 .. n : units[w] = u
  BY <1>1, <1>2 DEF ToSet
<1>4. PICK f : SplitRounds(f, s)
  BY SplitRuns
<1> DEFINE T == {q \in 0 .. n : /\ f[1 .. q] \in Splits(bs)
                                /\ w <= q => Somewhere(f[1 .. q].out, f[1 .. q].pend, x)}
<1>5. 0 \in T
  <2>1. 1 .. 0 = {} /\ f[{}] \in Splits(bs)
    BY <1>1, <1>4 DEF SplitRounds
  <2>2. QED
    BY <1>2, <2>1
<1>6. ASSUME NEW q \in 0 .. n - 1, q \in T PROVE q + 1 \in T
  <2>1. PICK i, acc, new, v : /\ i = q + 1 /\ acc = f[1 .. q] /\ new = f[1 .. i]
                              /\ v = units[i]
    OBVIOUS
  <2>2. i \in 1 .. n /\ q = i - 1 /\ i \in 0 .. n
    BY <1>2, <2>1
  <2>3. /\ acc \in Splits(bs) /\ acc = f[1 .. i - 1]
        /\ (w <= q => Somewhere(acc.out, acc.pend, x))
    BY <1>6, <2>1, <2>2
  <2>4. new = AddUnit(acc, v) /\ new \in Splits(bs)
    BY <1>1, <1>4, <2>1, <2>2, <2>3 DEF SplitRounds
  <2>5. v \in UnitSet(bs)
    BY <1>2, <2>1, <2>2
  <2>6. ASSUME w <= i PROVE Somewhere(new.out, new.pend, x)
    <3>1. w <= q \/ w = i
      BY <2>2, <2>6
    <3>2. Somewhere(acc.out, acc.pend, x) \/ Holds(v.text, x)
      BY <1>3, <2>1, <2>3, <3>1
    <3>3. QED
      BY <2>3, <2>4, <2>5, <3>2, AddUnitHolds
  <2>7. QED
    BY <2>1, <2>2, <2>4, <2>6
<1>7. n \in T
  <2> HIDE DEF T
  <2>1. 0 .. n \subseteq T
    BY <1>2, <1>5, <1>6, UpTo
  <2>2. QED
    BY <1>2, <2>1
<1>8. PICK acc, o, e : acc = f[1 .. n] /\ o = acc.out /\ e = Emitted(acc.pend)
  OBVIOUS
<1>9. acc \in Splits(bs) /\ Somewhere(o, acc.pend, x)
  BY <1>2, <1>7, <1>8
<1>10. o \in Seq(ChunkSet) /\ acc.pend \in ChunkSet /\ e \in Seq(ChunkSet)
  BY <1>8, <1>9, InkOfSplits, EmittedKeepsInk
<1>11. InChunk(o, x) \/ InChunk(e, x)
  BY <1>8, <1>9, <1>10, EmittedHolds DEF Somewhere
<1>12. InChunk(o \o e, x)
  BY <1>10, <1>11, InChunkOfConcat
<1>13. SplitSection(s) = o \o e
  BY <1>1, <1>4, <1>8 DEF SplitRounds
<1>14. QED
  BY <1>12, <1>13

\* One more is put before a concatenation.
LEMMA OneMore ==
  ASSUME NEW S, NEW u \in Seq(S), NEW v \in Seq(S), NEW c \in S,
         Len(v) = Len(u) + 1, v[Len(u) + 1] = c, \A i \in 1 .. Len(u) : v[i] = u[i]
  PROVE  v = Append(u, c)
<1>1. PICK w : w = Append(u, c)
  OBVIOUS
<1>2. w \in Seq(S) /\ Len(w) = Len(u) + 1 /\ Len(u) \in Nat
  BY <1>1
<1>3. w[Len(u) + 1] = c /\ \A i \in 1 .. Len(u) : w[i] = u[i]
  BY <1>1
<1>4. \A i \in 1 .. Len(u) + 1 : w[i] = v[i]
  BY <1>2, <1>3
<1>5. w = v
  BY <1>2, <1>4
<1>6. QED
  BY <1>1, <1>5

\* Lines are joined one after the other.
LEMMA JoinLinesAppend ==
  ASSUME file \in Seq(Kinds), NEW ns \in Seq(DOMAIN file), NEW n \in DOMAIN file
  PROVE  JoinLines(Append(ns, n))
           = JoinLines(ns) \o (IF ns = <<>> THEN LineText(n) ELSE <<0>> \o LineText(n))
<1> DEFINE part(s) == [i \in DOMAIN s |->
                         IF i = 1 THEN LineText(s[i]) ELSE <<0>> \o LineText(s[i])]
<1>1. PICK more, last : /\ more = Append(ns, n)
                        /\ last = IF ns = <<>> THEN LineText(n) ELSE <<0>> \o LineText(n)
  OBVIOUS
<1>2. \A m \in DOMAIN file : LineText(m) \in Seq(Nat) /\ <<0>> \o LineText(m) \in Seq(Nat)
  <2>1. ASSUME NEW m \in DOMAIN file
        PROVE  LineText(m) \in Seq(Nat) /\ <<0>> \o LineText(m) \in Seq(Nat)
    <3>1. LineText(m) \in Seq(Nat)
      BY LineIsText DEF Texts
    <3>2. QED
      BY <3>1
  <2>2. QED
    BY <2>1
<1>3. last \in Seq(Nat)
  BY <1>1, <1>2
<1>4. /\ more \in Seq(DOMAIN file) /\ DOMAIN ns = 1 .. Len(ns) /\ Len(ns) \in Nat
      /\ DOMAIN more = 1 .. Len(ns) + 1 /\ Len(more) = Len(ns) + 1
      /\ more[Len(ns) + 1] = n /\ \A i \in 1 .. Len(ns) : more[i] = ns[i]
  BY <1>1
<1>5. /\ part(ns) \in Seq(Seq(Nat)) /\ Len(part(ns)) = Len(ns)
      /\ part(more) \in Seq(Seq(Nat)) /\ Len(part(more)) = Len(ns) + 1
  <2>1. part(ns) \in [1 .. Len(ns) -> Seq(Nat)]
    <3>1. \A i \in 1 .. Len(ns) : ns[i] \in DOMAIN file
      BY <1>4
    <3>2. QED
      BY <1>2, <1>4, <3>1
  <2>2. part(more) \in [1 .. Len(ns) + 1 -> Seq(Nat)]
    <3>1. \A i \in 1 .. Len(ns) + 1 : more[i] \in DOMAIN file
      BY <1>4
    <3>2. QED
      BY <1>2, <1>4, <3>1
  <2> HIDE DEF part
  <2>3. Len(ns) + 1 \in Nat /\ Len(ns) \in Nat
    BY <1>4
  <2>4. ASSUME NEW S, NEW k \in Nat, NEW s \in [1 .. k -> S]
        PROVE  s \in Seq(S) /\ Len(s) = k
    OBVIOUS
  <2>5. part(ns) \in Seq(Seq(Nat)) /\ Len(part(ns)) = Len(ns)
    BY Zenon, <2>1, <2>3, <2>4
  <2>6. part(more) \in Seq(Seq(Nat)) /\ Len(part(more)) = Len(ns) + 1
    BY Zenon, <2>2, <2>3, <2>4
  <2>7. QED
    BY <2>5, <2>6
<1>6. \A i \in 1 .. Len(ns) : part(more)[i] = part(ns)[i]
  BY <1>4
<1>7. part(more)[Len(ns) + 1] = last
  <2>1. Len(ns) + 1 = 1 <=> ns = <<>>
    BY <1>4
  <2>2. QED
    BY <1>1, <1>4, <2>1
<1>8. JoinLines(ns) = FlattenSeq(part(ns)) /\ JoinLines(more) = FlattenSeq(part(more))
  BY DEF JoinLines
<1> HIDE DEF part
<1>9. PICK a, b : a = part(ns) /\ b = part(more)
  OBVIOUS
<1>10. b = Append(a, last)
  <2>1. /\ a \in Seq(Seq(Nat)) /\ b \in Seq(Seq(Nat)) /\ Len(a) = Len(ns)
        /\ Len(b) = Len(a) + 1 /\ b[Len(a) + 1] = last
        /\ \A i \in 1 .. Len(a) : b[i] = a[i]
    BY <1>5, <1>6, <1>7, <1>9
  <2>2. QED
    BY <1>3, <2>1, OneMore
<1>11. FlattenSeq(Append(a, last)) = FlattenSeq(a) \o last
  <2>1. a \in Seq(Seq(Nat))
    BY <1>5, <1>9
  <2>2. QED
    BY <1>3, <2>1, FlattenAppend
<1>12. QED
  BY Zenon, <1>1, <1>8, <1>9, <1>10, <1>11

\* The text of lines holds that of lines which follow each other among them.
LEMMA JoinLinesHolds ==
  ASSUME file \in Seq(Kinds), NEW ns \in Seq(DOMAIN file),
         NEW p \in 1 .. Len(ns), NEW e \in p .. Len(ns)
  PROVE  Holds(JoinLines(ns), JoinLines(SubSeq(ns, p, e)))
<1>1. PICK n : n = Len(ns)
  OBVIOUS
<1>2. n \in Nat /\ DOMAIN ns = 1 .. n /\ p \in 1 .. n /\ e \in p .. n /\ e \in 1 .. n
  BY <1>1
<1> DEFINE J(a, q) == JoinLines(SubSeq(ns, a, q))
<1>3. ASSUME NEW a \in 1 .. n, NEW q \in a .. n
      PROVE  /\ J(a, q) \in Texts /\ LineText(ns[q]) \in Texts
             /\ J(a, a - 1) = <<>> /\ J(a, q - 1) \in Texts
             /\ J(a, q) = J(a, q - 1) \o (IF q = a THEN LineText(ns[q])
                                         ELSE <<0>> \o LineText(ns[q]))
  <2>1. PICK b, c : b = SubSeq(ns, a, q - 1) /\ c = SubSeq(ns, a, q)
    OBVIOUS
  <2>2. /\ c \in Seq(DOMAIN file) /\ Len(c) = q - a + 1 /\ SubSeq(ns, a, a - 1) = <<>>
        /\ Append(b, ns[q]) = c /\ ns[q] \in DOMAIN file
    <3>1. a \in 1 .. Len(ns) /\ q \in a .. Len(ns) /\ q \in 1 .. Len(ns)
      BY <1>1, <1>2
    <3>2. /\ SubSeq(ns, a, q) \in Seq(DOMAIN file) /\ Len(SubSeq(ns, a, q)) = q - a + 1
          /\ SubSeq(ns, a, a - 1) = <<>>
          /\ Append(SubSeq(ns, a, q - 1), ns[q]) = SubSeq(ns, a, q)
      BY <3>1, PartGrows
    <3>3. ns[q] \in DOMAIN file
      BY <3>1
    <3>4. QED
      BY <2>1, <3>2, <3>3
  <2>3. b \in Seq(DOMAIN file) /\ (b = <<>> <=> q = a)
    <3>1. CASE q = a
      <4>1. b = <<>>
        BY <2>1, <2>2, <3>1
      <4>2. QED
        BY <3>1, <4>1
    <3>2. CASE q # a
      <4>1. q - 1 \in a .. n /\ (q - 1) - a + 1 # 0
        BY <1>2, <3>2
      <4>2. b \in Seq(DOMAIN file) /\ Len(b) = (q - 1) - a + 1
        BY <1>1, <1>2, <2>1, <4>1, PartGrows
      <4>3. QED
        BY <3>2, <4>1, <4>2
    <3>3. QED
      BY <3>1, <3>2
  <2>4. JoinLines(c) = JoinLines(b) \o (IF b = <<>> THEN LineText(ns[q])
                                        ELSE <<0>> \o LineText(ns[q]))
    BY <2>2, <2>3, JoinLinesAppend
  <2>5. JoinLines(b) \in Texts /\ JoinLines(c) \in Texts /\ LineText(ns[q]) \in Texts
    BY <2>2, <2>3, JoinLinesKeepsInk, LineIsText
  <2>6. JoinLines(<<>>) = <<>>
    <3>1. [i \in DOMAIN <<>> |-> IF i = 1 THEN LineText(<<>>[i])
                                 ELSE <<0>> \o LineText(<<>>[i])] = <<>>
      OBVIOUS
    <3>2. QED
      BY Zenon, <3>1, FlattenEmpty DEF JoinLines
  <2>7. QED
    BY Zenon, <2>1, <2>2, <2>3, <2>4, <2>5, <2>6
<1> HIDE DEF J
<1> DEFINE Ends(q) == \E y \in Texts : J(1, q) = y \o J(p, q)
           T == {q \in 0 .. n : p <= q => Ends(q)}
<1>4. 0 \in T
  BY <1>2
<1>5. ASSUME NEW q \in 0 .. n - 1, q \in T PROVE q + 1 \in T
  <2>1. PICK i : i = q + 1
    OBVIOUS
  <2>2. i \in 0 .. n /\ i \in 1 .. n /\ q = i - 1 /\ 1 \in 1 .. n
    BY <1>2, <2>1
  <2>3. ASSUME p <= i PROVE Ends(i)
    <3>1. PICK t, z, l : t = J(1, q) /\ l = LineText(ns[i])
                         /\ z = IF i = 1 THEN LineText(ns[i]) ELSE <<0>> \o LineText(ns[i])
      OBVIOUS
    <3>2. t \in Seq(Nat) /\ l \in Seq(Nat) /\ J(1, i) = t \o z
      BY <1>3, <2>2, <3>1 DEF Texts
    <3>3. CASE i = p
      <4>1. J(p, i) = l
        <5>1. i \in p .. n
          BY <1>2, <3>3
        <5>2. J(p, i) = J(p, p - 1) \o l /\ J(p, p - 1) = <<>>
          BY <1>2, <1>3, <3>1, <3>3, <5>1
        <5>3. <<>> \o l = l
          BY <3>2
        <5>4. QED
          BY Zenon, <5>2, <5>3
      <4>2. CASE i = 1
        <5>1. z = l /\ t = <<>>
          <6>1. 1 - 1 = 0
            OBVIOUS
          <6>2. q = 0
            BY <2>2, <4>2
          <6>3. 1 \in 1 .. n
            BY <2>2
          <6>4. J(1, 1 - 1) = <<>>
            BY <1>3, <6>3
          <6>5. QED
            BY <3>1, <4>2, <6>1, <6>2, <6>4
        <5>2. <<>> \in Texts
          BY DEF Texts
        <5>3. QED
          BY Zenon, <3>2, <4>1, <5>1, <5>2
      <4>3. CASE i # 1
        <5>1. z = <<0>> \o l
          BY <3>1, <4>3
        <5>2. PICK g : g = <<0>>
          OBVIOUS
        <5>3. g \in Seq(Nat)
          BY <5>2
        <5>4. t \o (g \o l) = (t \o g) \o l
          BY Zenon, <3>2, ConcatTexts, <5>3
        <5>5. t \o g \in Texts
          BY <3>2, <5>3 DEF Texts
        <5>6. QED
          BY Zenon, <3>2, <4>1, <5>1, <5>2, <5>4, <5>5
      <4>4. QED
        BY <4>2, <4>3
    <3>4. CASE i # p
      <4>1. p <= q /\ i \in p .. n /\ i # 1
        BY <1>2, <2>2, <2>3, <3>4
      <4>2. PICK y \in Texts : J(1, q) = y \o J(p, q)
        BY <1>5, <4>1
      <4>3. PICK j : j = J(p, q)
        OBVIOUS
      <4>4. j \in Texts /\ J(p, i) = j \o z
        BY <1>2, <1>3, <2>2, <3>1, <3>4, <4>1, <4>3
      <4>5. z \in Seq(Nat)
        BY <3>1, <3>2, <4>1
      <4>6. y \in Seq(Nat) /\ j \in Seq(Nat)
        BY <4>4 DEF Texts
      <4>7. y \o (j \o z) = (y \o j) \o z
        BY Zenon, <4>5, <4>6, ConcatTexts
      <4>8. QED
        BY Zenon, <3>1, <3>2, <4>2, <4>3, <4>4, <4>7
    <3>5. QED
      BY <3>3, <3>4
  <2>4. QED
    BY <2>1, <2>2, <2>3
<1>6. Ends(e)
  <2> HIDE DEF Ends
  <2>1. e \in T
    <3> HIDE DEF T
    <3>1. 0 .. n \subseteq T
      BY <1>2, <1>4, <1>5, UpTo
    <3>2. QED
      BY <1>2, <3>1
  <2>2. QED
    BY <1>2, <2>1
<1>7. PICK x : x = J(p, e) /\ x \in Texts
  BY <1>2, <1>3
<1>8. Holds(J(1, e), x)
  <2>1. PICK y \in Texts : J(1, e) = y \o x
    BY <1>6, <1>7
  <2>2. QED
    <3>1. x \in Texts /\ Holds(x, x)
      BY <1>7, HoldsInConcat
    <3>2. Holds(y \o x, x)
      BY <3>1, HoldsInConcat
    <3>3. QED
      BY <2>1, <3>2
<1> HIDE DEF T, Ends
<1> DEFINE R == {q \in 0 .. n : e <= q => Holds(J(1, q), x)}
<1>9. 0 \in R
  BY <1>2
<1>10. ASSUME NEW q \in 0 .. n - 1, q \in R PROVE q + 1 \in R
  <2>1. PICK i : i = q + 1
    OBVIOUS
  <2>2. i \in 0 .. n /\ i \in 1 .. n /\ q = i - 1 /\ 1 \in 1 .. n
    BY <1>2, <2>1
  <2>3. ASSUME e <= i PROVE Holds(J(1, i), x)
    <3>1. CASE i = e
      BY <1>8, <3>1
    <3>2. CASE i # e
      <4>1. e <= q
        BY <1>2, <2>2, <2>3, <3>2
      <4>2. PICK t, z, l : t = J(1, q) /\ l = LineText(ns[i])
                           /\ z = IF i = 1 THEN LineText(ns[i]) ELSE <<0>> \o LineText(ns[i])
        OBVIOUS
      <4>3. t \in Seq(Nat) /\ l \in Seq(Nat) /\ J(1, i) = t \o z
        BY <1>3, <2>2, <4>2 DEF Texts
      <4>4. t \in Texts /\ z \in Texts
        BY <4>2, <4>3 DEF Texts
      <4>5. Holds(t, x)
        BY <1>10, <4>1, <4>2
      <4>6. QED
        <5>1. x \in Texts
          BY <1>7
        <5>2. Holds(t \o z, x)
          BY <4>4, <4>5, <5>1, HoldsInConcat
        <5>3. QED
          BY <4>3, <5>2
    <3>3. QED
      BY <3>1, <3>2
  <2>4. QED
    BY <2>1, <2>2, <2>3
<1>11. n \in R
  <2> HIDE DEF R
  <2>1. 0 .. n \subseteq R
    BY <1>2, <1>9, <1>10, UpTo
  <2>2. QED
    BY <1>2, <2>1
<1>12. Holds(J(1, n), x)
  BY <1>2, <1>11
<1>13. SubSeq(ns, 1, n) = ns
  BY <1>1, SubSeqFull
<1>14. QED
  BY Zenon, <1>7, <1>12, <1>13 DEF J

\* A line with text is in a section when the note has been parsed.
LEMMA LineHasSection ==
  ASSUME Inv, phase = "chunk", NEW n \in DOMAIN file, file[n] # "blank"
  PROVE  \E k \in DOMAIN sections : n \in ToSet(sections[k].lines)
<1>1. PICK f, ss : f = file /\ ss = sections
  OBVIOUS
<1>2. /\ f \in Seq(Kinds) /\ ss \in Seq(SectionSet(f)) /\ n \in DOMAIN f
      /\ All(LinesOfSection(f), ss) = Whole(f)
  BY <1>1 DEF Inv, TypeInv, Chunked
<1>3. n \in ToSet(LinesOf(f)[n])
  <2>1. f[n] \in Kinds /\ Size \in [Kinds -> Nat]
    BY <1>2, KindsAssumption
  <2>2. Size[f[n]] # 0 /\ Size[f[n]] \in Nat
    BY <1>1, <2>1, KindsAssumption
  <2>3. PICK t : t = LinesOf(f)[n]
    OBVIOUS
  <2>4. t = [i \in 1 .. Size[f[n]] |-> n]
    BY <1>2, <2>3 DEF LinesOf
  <2>5. 1 \in DOMAIN t /\ t[1] = n
    BY <2>2, <2>4
  <2>6. QED
    BY <2>3, <2>5 DEF ToSet
<1>4. n \in ToSet(Whole(f))
  <2> DEFINE tt == [m \in DOMAIN f |-> LinesOf(f)[m]]
  <2>1. tt \in Seq(Seq(Nat))
    <3>1. DOMAIN f = 1 .. Len(f) /\ Len(f) \in Nat
      BY <1>2
    <3>2. tt \in [1 .. Len(f) -> Seq(Nat)]
      BY <1>2, <3>1, LinesOfTexts DEF Texts
    <3>3. QED
      BY <3>1, <3>2
  <2>2. n \in DOMAIN tt /\ tt[n] = LinesOf(f)[n] /\ Whole(f) = FlattenSeq(tt)
    BY <1>2 DEF Whole
  <2> HIDE DEF tt
  <2>3. QED
    BY <1>3, <2>1, <2>2, FlattenHas
<1>5. PICK k \in DOMAIN ss : n \in ToSet(LinesOfSection(f)[ss[k]])
  BY <1>2, <1>4, LinesOfSections, ElementsOfAll
<1>6. PICK ns : ns = ss[k].lines
  OBVIOUS
<1>7. ns \in Seq(DOMAIN f) /\ n \in ToSet(All(LinesOf(f), ns))
  BY <1>2, <1>5, <1>6, LinesOfSections, SectionsHaveRanges
<1>8. PICK m \in DOMAIN ns : n \in ToSet(LinesOf(f)[ns[m]])
  BY <1>2, <1>7, LinesOfTexts, ElementsOfAll
<1>9. ns[m] = n
  <2>1. PICK l : l = ns[m] /\ l \in DOMAIN f
    BY <1>7
  <2>2. QED
    BY <1>2, <1>8, <2>1, OnlyItsNumber
<1>10. QED
  BY <1>1, <1>6, <1>9 DEF ToSet

\* What Where keeps is there.
LEMMA WhereHas ==
  ASSUME NEW S, NEW s \in Seq(S), NEW keep, NEW i \in DOMAIN s, i \in keep
  PROVE  s[i] \in ToSet(Where(s, keep))
<1> DEFINE part(m) == IF m \in keep THEN <<s[m]>> ELSE <<>>
           parts == [m \in DOMAIN s |-> part(m)]
<1>1. Where(s, keep) = FlattenSeq(parts)
  BY DEF Where
<1>2. ASSUME NEW m \in DOMAIN s PROVE part(m) \in Seq(S)
  OBVIOUS
<1>3. part(i) = <<s[i]>>
  OBVIOUS
<1> HIDE DEF part
<1>4. parts \in Seq(Seq(S)) /\ parts[i] = <<s[i]>> /\ i \in DOMAIN parts
  <2>1. DOMAIN s = 1 .. Len(s) /\ Len(s) \in Nat
    OBVIOUS
  <2>2. parts \in [1 .. Len(s) -> Seq(S)]
    BY <1>2, <2>1
  <2>3. QED
    BY <1>3, <2>1, <2>2
<1> HIDE DEF parts
<1>5. s[i] \in ToSet(parts[i])
  <2>1. 1 \in DOMAIN <<s[i]>> /\ <<s[i]>>[1] = s[i]
    OBVIOUS
  <2>2. QED
    BY <1>4, <2>1 DEF ToSet
<1>6. QED
  BY <1>1, <1>4, <1>5, FlattenHas

-----------------------------------------------------------------------------
(***************************************************************************)
(* The open fence.                                                         *)
(***************************************************************************)
Opened == Fences \cup {"none"}

\* What a line does to the fence that is open.
LEMMA ToggledIs ==
  ASSUME NEW o \in Opened, NEW k
  PROVE  /\ Toggled(o, k) \in Opened
         /\ k \notin Fences => Toggled(o, k) = o
         /\ k \in Fences /\ o = "none" => Toggled(o, k) = k
         /\ o # "none" /\ k = o => Toggled(o, k) = "none"
         /\ o # "none" /\ k # o => Toggled(o, k) = o
BY DEF Toggled, Opened, Fences

\* The fence that is open after each line is what the lines make of it.
LEMMA OpenTyped ==
  ASSUME NEW f \in Seq(Kinds)
  PROVE  /\ OpenIn(f)[0] = "none"
         /\ \A n \in 1 .. Len(f) : OpenIn(f)[n] = Toggled(OpenIn(f)[n - 1], f[n])
         /\ \A n \in 0 .. Len(f) : OpenIn(f)[n] \in Opened
<1> DEFINE step == [i \in 1 .. Len(f) |-> [o \in Opened |-> Toggled(o, f[i])]]
           Follows(open) ==
             open = [n \in 0 .. Len(f) |->
                       IF n = 0 THEN "none" ELSE Toggled(open[n - 1], f[n])]
           g == CHOOSE open : Follows(open)
<1>1. PICK l : l = Len(f) /\ l \in Nat
  OBVIOUS
<1>2. step \in [1 .. l -> [Opened -> Opened]] /\ "none" \in Opened
  BY <1>1, ToggledIs DEF Opened
<1>3. PICK k \in [0 .. l -> Opened] : Runs(k, l, "none", step)
  <2> HIDE DEF step
  <2>1. QED
    BY <1>1, <1>2, LoopRuns
<1>4. k[0] = "none" /\ \A n \in 1 .. l : k[n] = Toggled(k[n - 1], f[n])
  <2>1. ASSUME NEW n \in 1 .. l PROVE k[n] = Toggled(k[n - 1], f[n])
    <3>1. n - 1 \in 0 .. l /\ k[n - 1] \in Opened
      BY <1>1, <1>3
    <3>2. k[n] = step[n][k[n - 1]]
      BY <1>3 DEF Runs
    <3>3. QED
      BY <1>1, <3>1, <3>2
  <2>2. QED
    BY <1>3, <2>1 DEF Runs
<1>5. Follows(k)
  <2>1. ASSUME NEW n \in 0 .. l
        PROVE  k[n] = IF n = 0 THEN "none" ELSE Toggled(k[n - 1], f[n])
    BY <1>1, <1>4
  <2>2. QED
    BY <1>1, <1>3, <2>1
<1>6. Follows(g)
  <2> HIDE DEF Follows
  <2>1. QED
    BY <1>5
<1>7. OpenIn(f) = g
  BY DEF OpenIn
<1> HIDE DEF g
<1>8. g[0] = "none" /\ \A n \in 1 .. l : g[n] = Toggled(g[n - 1], f[n])
  <2>1. 0 \in 0 .. l /\ 1 .. l \subseteq 0 .. l /\ 0 \notin 1 .. l
    BY <1>1
  <2>2. QED
    BY Zenon, <1>1, <1>6, <2>1
<1>9. \A n \in 0 .. l : g[n] \in Opened
  <2> DEFINE T == {n \in 0 .. l : g[n] \in Opened}
  <2>1. 0 \in T
    BY <1>1, <1>8 DEF Opened
  <2>2. ASSUME NEW n \in 0 .. l - 1, n \in T PROVE n + 1 \in T
    <3>1. PICK m : m = n + 1
      OBVIOUS
    <3>2. m \in 1 .. l /\ m \in 0 .. l /\ m - 1 = n
      BY <1>1, <3>1
    <3>3. g[m] = Toggled(g[n], f[m]) /\ g[n] \in Opened
      BY <1>8, <2>2, <3>2
    <3>4. g[m] \in Opened
      BY <3>3, ToggledIs
    <3>5. QED
      BY <3>1, <3>2, <3>4
  <2> HIDE DEF T
  <2>3. 0 .. l \subseteq T
    BY <1>1, <2>1, <2>2, UpTo
  <2>4. QED
    BY <2>3 DEF T
<1>10. QED
  BY <1>1, <1>7, <1>8, <1>9

\* A fence is open after line m if the one before was, or one line up to m opened it,
\* and nothing has closed it since; empty lines and prose change nothing.
LEMMA OpenStays ==
  ASSUME file \in Seq(Kinds), NEW a \in 0 .. Len(file), NEW m \in a .. Len(file),
         NEW o \in Opened, OpenIn(file)[a] = o,
         \A n \in a + 1 .. m : file[n] \notin Fences \/ (o # "none" /\ file[n] # o)
  PROVE  OpenIn(file)[m] = o
<1> DEFINE T == {d \in 0 .. m - a : OpenIn(file)[a + d] = o}
<1>1. PICK l : l = Len(file) /\ l \in Nat
  OBVIOUS
<1>2. a \in Nat /\ m \in Nat /\ a <= m /\ m <= l /\ m - a \in Nat
  BY <1>1
<1>3. 0 \in T
  BY <1>2
<1>4. ASSUME NEW d \in 0 .. m - a - 1, d \in T PROVE d + 1 \in T
  <2>1. PICK n : n = a + d + 1
    OBVIOUS
  <2>2. /\ n \in 1 .. l /\ n \in a + 1 .. m /\ n - 1 = a + d /\ d + 1 \in 0 .. m - a
        /\ a + (d + 1) = n
    <3>1. d \in Int /\ 0 <= d /\ d <= m - a - 1
      BY <1>2
    <3>2. n \in Int /\ a + 1 <= n /\ n <= m
      BY <1>2, <2>1, <3>1
    <3>3. 1 <= n /\ n <= l
      BY <1>1, <1>2, <3>2
    <3>4. d + 1 \in 0 .. m - a
      BY <1>2, <3>1
    <3>5. QED
      BY <1>1, <1>2, <2>1, <3>1, <3>2, <3>3, <3>4
  <2>3. OpenIn(file)[n] = Toggled(OpenIn(file)[a + d], file[n])
    BY <1>1, <2>2, OpenTyped
  <2>4. OpenIn(file)[a + d] = o
    BY <1>4
  <2>5. Toggled(o, file[n]) = o
    BY <2>2, ToggledIs
  <2>6. QED
    BY <2>2, <2>3, <2>4, <2>5
<1>5. m - a \in T
  <2> HIDE DEF T
  <2>1. 0 .. m - a \subseteq T
    BY <1>2, <1>3, <1>4, UpTo
  <2>2. QED
    BY <1>2, <2>1
<1>6. a + (m - a) = m
  BY <1>2
<1>7. QED
  BY <1>5, <1>6

\* One more line changes nothing before it.
LEMMA OpenGrows ==
  ASSUME NEW f \in Seq(Kinds), NEW k \in Kinds
  PROVE  /\ \A n \in 0 .. Len(f) : OpenIn(Append(f, k))[n] = OpenIn(f)[n]
         /\ OpenIn(Append(f, k))[Len(f) + 1] = Toggled(OpenIn(f)[Len(f)], k)
<1>1. Len(f) \in Nat
  OBVIOUS
<1> DEFINE l == Len(f)
           g == Append(f, k)
<1>2. /\ g \in Seq(Kinds) /\ Len(g) = l + 1 /\ g[l + 1] = k
      /\ \A n \in 1 .. l : g[n] = f[n]
  OBVIOUS
<1> HIDE DEF g, l
<1> DEFINE T == {n \in 0 .. l : OpenIn(g)[n] = OpenIn(f)[n]}
<1>3. 0 \in T
  <2>1. OpenIn(g)[0] = "none" /\ OpenIn(f)[0] = "none"
    BY <1>2, OpenTyped
  <2>2. l \in Nat
    BY <1>1 DEF l
  <2>3. QED
    BY <2>1, <2>2
<1>4. ASSUME NEW n \in 0 .. l - 1, n \in T PROVE n + 1 \in T
  <2>1. PICK m : m = n + 1
    OBVIOUS
  <2>2. m \in 1 .. l /\ m \in 1 .. l + 1 /\ m - 1 = n /\ m \in 0 .. l
    BY <1>1, <2>1 DEF l
  <2>3. OpenIn(g)[m] = Toggled(OpenIn(g)[n], g[m])
    BY <1>2, <2>2, OpenTyped
  <2>4. OpenIn(f)[m] = Toggled(OpenIn(f)[n], f[m])
    BY <2>2, OpenTyped DEF l
  <2>5. OpenIn(g)[n] = OpenIn(f)[n] /\ g[m] = f[m]
    BY <1>2, <1>4, <2>2
  <2>6. QED
    BY <2>1, <2>2, <2>3, <2>4, <2>5
<1>5. \A n \in 0 .. l : OpenIn(g)[n] = OpenIn(f)[n]
  <2> HIDE DEF T
  <2>1. 0 .. l \subseteq T
    BY <1>1, <1>3, <1>4, UpTo DEF l
  <2>2. QED
    BY <2>1 DEF T
<1>6. OpenIn(g)[l + 1] = Toggled(OpenIn(f)[l], k)
  <2>1. l + 1 \in 1 .. Len(g) /\ (l + 1) - 1 = l /\ l \in 0 .. l
    BY <1>1, <1>2 DEF l
  <2>2. OpenIn(g)[l + 1] = Toggled(OpenIn(g)[l], g[l + 1])
    <3>1. OpenIn(g)[l + 1] = Toggled(OpenIn(g)[(l + 1) - 1], g[l + 1])
      BY <1>2, <2>1, OpenTyped
    <3>2. QED
      BY <2>1, <3>1
  <2>3. QED
    BY <1>2, <1>5, <2>1, <2>2
<1>7. QED
  BY <1>5, <1>6 DEF g, l

-----------------------------------------------------------------------------
(***************************************************************************)
(* Lines that follow each other.                                           *)
(***************************************************************************)
Lines(i, j) == [n \in 1 .. j - i + 1 |-> n + i - 1]

\* Their number, and each of them.
LEMMA LinesAre ==
  ASSUME NEW l \in Nat, NEW i \in 1 .. l + 1, NEW j \in i - 1 .. l,
         NEW w, w = Lines(i, j)
  PROVE  /\ w \in Seq(1 .. l) /\ Len(w) = j - i + 1 /\ DOMAIN w = 1 .. j - i + 1
         /\ \A n \in 1 .. j - i + 1 : w[n] = n + i - 1
<1>1. PICK n : n = j - i + 1
  OBVIOUS
<1>2. i \in Int /\ j \in Int /\ 1 <= i /\ i <= j + 1 /\ j <= l /\ n \in Nat
  BY <1>1
<1>3. w = [m \in 1 .. n |-> m + i - 1]
  BY <1>1 DEF Lines
<1>4. \A m \in 1 .. n : m + i - 1 \in 1 .. l
  BY <1>1, <1>2
<1>5. w \in [1 .. n -> 1 .. l]
  BY <1>3, <1>4
<1>6. w \in Seq(1 .. l) /\ Len(w) = n /\ DOMAIN w = 1 .. n /\ \A m \in 1 .. n : w[m] = m + i - 1
  BY <1>2, <1>3, <1>5
<1>7. QED
  BY <1>1, <1>6

\* There is none of them.
LEMMA NoLines ==
  ASSUME NEW n \in Int
  PROVE  Lines(n + 1, n) = <<>>
<1>1. n - (n + 1) + 1 = 0 /\ 1 .. 0 = {}
  OBVIOUS
<1>2. PICK w : w = Lines(n + 1, n)
  OBVIOUS
<1>3. w = [m \in {} |-> m + (n + 1) - 1]
  BY <1>1, <1>2 DEF Lines
<1>4. w \in [1 .. 0 -> Int]
  BY <1>1, <1>3
<1>5. w \in Seq(Int) /\ Len(w) = 0
  BY <1>4
<1>6. QED
  BY <1>2, <1>5

\* The first and the last one.
LEMMA LinesEnd ==
  ASSUME NEW l \in Nat, NEW i \in 1 .. l + 1, NEW j \in i - 1 .. l,
         NEW w, w = Lines(i, j)
  PROVE  i <= j => w # <<>> /\ w[1] = i /\ w[Len(w)] = j
<1>1. /\ w \in Seq(1 .. l) /\ Len(w) = j - i + 1
      /\ \A n \in 1 .. j - i + 1 : w[n] = n + i - 1
  BY LinesAre
<1>2. i \in Int /\ j \in Int /\ 1 <= i /\ i <= j + 1
  OBVIOUS
<1>3. QED
  BY <1>1, <1>2

\* One more line.
LEMMA LinesGrow ==
  ASSUME NEW l \in Nat, NEW i \in 1 .. l + 1, NEW j \in i - 1 .. l
  PROVE  Append(Lines(i, j), j + 1) = Lines(i, j + 1)
<1>1. PICK n, w : n = j - i + 1 /\ w = Lines(i, j)
  OBVIOUS
<1>2. i \in Int /\ j \in Int /\ 1 <= i /\ i <= j + 1 /\ j <= l /\ n \in Nat
  BY <1>1
<1>3. w \in Seq(1 .. l) /\ Len(w) = n /\ \A m \in 1 .. n : w[m] = m + i - 1
  BY <1>1, LinesAre
<1>4. PICK c, d : c = Append(w, j + 1) /\ d = Lines(i, j + 1)
  OBVIOUS
<1>5. /\ c \in Seq(Int) /\ Len(c) = n + 1 /\ c[n + 1] = j + 1
      /\ \A m \in 1 .. n : c[m] = w[m]
  BY <1>2, <1>3, <1>4
<1>6. ASSUME NEW m \in 1 .. n + 1 PROVE c[m] = m + i - 1
  <2>1. CASE m = n + 1
    BY <1>1, <1>2, <1>5, <2>1
  <2>2. CASE m # n + 1
    <3>1. m \in 1 .. n
      BY <1>2, <2>2
    <3>2. QED
      BY <1>3, <1>5, <3>1
  <2>3. QED
    BY <2>1, <2>2
<1>7. (j + 1) - i + 1 = n + 1
  BY <1>1, <1>2
<1>8. d = [m \in 1 .. n + 1 |-> m + i - 1]
  BY <1>4, <1>7 DEF Lines
<1>9. c = [m \in 1 .. n + 1 |-> c[m]]
  BY <1>2, <1>5
<1>10. c = d
  BY <1>6, <1>8, <1>9
<1>11. QED
  BY <1>1, <1>4, <1>10

\* A part of lines that follow each other.
LEMMA PartOfLines ==
  ASSUME NEW l \in Nat, NEW a \in 1 .. l, NEW z \in a .. l,
         NEW i \in a .. z, NEW j \in i .. z
  PROVE  /\ i - a + 1 \in 1 .. Len(Lines(a, z))
         /\ j - a + 1 \in i - a + 1 .. Len(Lines(a, z))
         /\ SubSeq(Lines(a, z), i - a + 1, j - a + 1) = Lines(i, j)
<1>1. PICK p, e, w : p = i - a + 1 /\ e = j - a + 1 /\ w = Lines(a, z)
  OBVIOUS
<1>2. /\ a \in Int /\ z \in Int /\ i \in Int /\ j \in Int
      /\ 1 <= a /\ a <= i /\ i <= j /\ j <= z /\ z <= l
  OBVIOUS
<1>3. a \in 1 .. l + 1 /\ z \in a - 1 .. l
  BY <1>2
<1>4. /\ w \in Seq(1 .. l) /\ Len(w) = z - a + 1
      /\ \A n \in 1 .. z - a + 1 : w[n] = n + a - 1
  <2>1. w = Lines(a, z)
    BY <1>1
  <2>2. QED
    BY <1>3, <2>1, LinesAre
<1>5. p \in 1 .. Len(w) /\ e \in p .. Len(w) /\ e - p + 1 = j - i + 1
  BY <1>1, <1>2, <1>4
<1>6. PICK u : u = SubSeq(w, p, e)
  OBVIOUS
<1>7. /\ u \in Seq(1 .. l) /\ Len(u) = j - i + 1
      /\ \A n \in 1 .. j - i + 1 : u[n] = w[p + n - 1]
  BY <1>4, <1>5, <1>6, PartGrows
<1>8. ASSUME NEW n \in 1 .. j - i + 1 PROVE u[n] = n + i - 1
  <2>1. p + n - 1 \in 1 .. z - a + 1 /\ (p + n - 1) + a - 1 = n + i - 1
    BY <1>1, <1>2
  <2>2. QED
    BY <1>4, <1>7, <2>1
<1>9. u = [n \in 1 .. j - i + 1 |-> u[n]]
  BY <1>7
<1>10. u = Lines(i, j)
  BY <1>8, <1>9 DEF Lines
<1>11. QED
  BY <1>1, <1>5, <1>6, <1>10

\* What trimming leaves of them.
LEMMA TrimOfLines ==
  ASSUME file \in Seq(Kinds), NEW i \in 1 .. Len(file) + 1, NEW j \in i - 1 .. Len(file),
         Trim(Lines(i, j)) # <<>>
  PROVE  \E a, z \in DOMAIN file :
           /\ Trim(Lines(i, j)) = Lines(a, z) /\ i <= a /\ a <= z /\ z <= j
           /\ file[a] # "blank" /\ file[z] # "blank"
           /\ \A n \in i .. a - 1 : file[n] = "blank"
           /\ \A n \in z + 1 .. j : file[n] = "blank"
<1>1. PICK l, w : l = Len(file) /\ l \in Nat /\ DOMAIN file = 1 .. l /\ w = Lines(i, j)
  OBVIOUS
<1> DEFINE keep == {n \in DOMAIN w : file[w[n]] # "blank"}
<1>2. i \in Int /\ j \in Int /\ 1 <= i /\ i <= j + 1 /\ j <= l
  BY <1>1
<1>3. /\ w \in Seq(1 .. l) /\ Len(w) = j - i + 1 /\ DOMAIN w = 1 .. j - i + 1
      /\ \A n \in 1 .. j - i + 1 : w[n] = n + i - 1
  <2>1. i \in 1 .. l + 1 /\ j \in i - 1 .. l
    BY <1>1
  <2>2. w = Lines(i, j)
    BY <1>1
  <2>3. QED
    BY <1>1, <2>1, <2>2, LinesAre
<1>4. keep \in SUBSET DOMAIN w /\ Trim(w) = Between(w, keep)
  BY DEF Trim
<1>5. keep # {}
  BY <1>1, <1>4 DEF Between
<1>6. \A n \in DOMAIN w : n \in keep <=> file[w[n]] # "blank"
  OBVIOUS
<1> HIDE DEF keep
<1>7. PICK b, e : b = Min(keep) /\ e = Max(keep)
  OBVIOUS
<1>8. /\ b \in keep /\ e \in keep /\ (\A n \in keep : b <= n /\ n <= e)
      /\ Trim(w) = SubSeq(w, b, e)
  BY <1>3, <1>4, <1>5, <1>7, BetweenIsPart
<1>9. /\ b \in Int /\ e \in Int /\ 1 <= b /\ b <= e /\ e <= j - i + 1
      /\ b \in DOMAIN w /\ e \in DOMAIN w
  BY <1>3, <1>4, <1>8
<1>10. PICK a, z : a = b + i - 1 /\ z = e + i - 1
  OBVIOUS
<1>11. /\ a \in Int /\ z \in Int /\ i <= a /\ a <= z /\ z <= j
       /\ b = a - i + 1 /\ e = z - i + 1
  BY <1>2, <1>9, <1>10
<1>12. a \in DOMAIN file /\ z \in DOMAIN file
  BY <1>1, <1>2, <1>11
<1>13. Trim(w) = Lines(a, z)
  <2>1. i \in 1 .. l /\ j \in i .. l /\ a \in i .. j /\ z \in a .. j
    BY <1>1, <1>2, <1>11
  <2>2. SubSeq(w, b, e) = Lines(a, z)
    BY <1>1, <1>11, <2>1, PartOfLines
  <2>3. QED
    BY <1>8, <2>2
<1>14. file[a] # "blank" /\ file[z] # "blank"
  <2>1. w[b] = a /\ w[e] = z
    BY <1>3, <1>9, <1>10
  <2>2. QED
    BY <1>6, <1>8, <1>9, <2>1
<1>15. ASSUME NEW n \in i .. j, n < a \/ z < n PROVE file[n] = "blank"
  <2>1. PICK m : m = n - i + 1
    OBVIOUS
  <2>2. m \in 1 .. j - i + 1 /\ m + i - 1 = n /\ (m < b \/ e < m) /\ m \in Int
    BY <1>2, <1>11, <1>15, <2>1
  <2>3. m \notin keep
    BY <1>8, <1>9, <2>2
  <2>4. w[m] = n
    BY <1>3, <2>2
  <2>5. QED
    BY <1>3, <1>6, <2>2, <2>3, <2>4
<1>16. (\A n \in i .. a - 1 : file[n] = "blank") /\ (\A n \in z + 1 .. j : file[n] = "blank")
  <2>1. ASSUME NEW n \in i .. a - 1 PROVE file[n] = "blank"
    <3>1. n \in i .. j /\ n < a
      BY <1>2, <1>11
    <3>2. QED
      BY <1>15, <3>1
  <2>2. ASSUME NEW n \in z + 1 .. j PROVE file[n] = "blank"
    <3>1. n \in i .. j /\ z < n
      BY <1>2, <1>11
    <3>2. QED
      BY <1>15, <3>1
  <2>3. QED
    BY <2>1, <2>2
<1>17. QED
  BY <1>1, <1>11, <1>12, <1>13, <1>14, <1>16

-----------------------------------------------------------------------------
(***************************************************************************)
(* The blocks of lines that follow each other.                             *)
(***************************************************************************)
Grows(o, p) == \A b \in DOMAIN o : b \in DOMAIN p /\ p[b] = o[b]
HasBlock(bs, ns) == \E b \in DOMAIN bs : bs[b].lines = ns

\* p is o with a block of these lines, if there are any.
Adds(o, p, ns) ==
  /\ Grows(o, p) /\ (ns # <<>> => HasBlock(p, ns))
  /\ \A b \in DOMAIN p : \/ b \in DOMAIN o /\ p[b] = o[b]
                         \/ ns # <<>> /\ p[b].lines = ns

\* What the end of a block does.
LEMMA BlockIsFlushed ==
  ASSUME NEW acc \in Reading, NEW end
  PROVE  LET new == FlushBlock(acc, end)
         IN new.open = acc.open /\ new.cur = <<>> /\ Adds(acc.out, new.out, Trim(acc.cur))
<1> DEFINE new == FlushBlock(acc, end)
           lines == Trim(acc.cur)
           block == [lines |-> lines, from |-> acc.from, to |-> end]
           out == IF lines = <<>> THEN acc.out ELSE Append(acc.out, block)
<1>1. /\ acc.out \in Seq(BlockSet)
      /\ acc = [out |-> acc.out, cur |-> acc.cur, from |-> acc.from, open |-> acc.open]
  BY DEF Reading
<1>2. new = [acc EXCEPT !.cur = <<>>, !.out = out]
  BY DEF FlushBlock
<1> HIDE DEF new, out, block, lines
<1>3. new.open = acc.open /\ new.cur = <<>> /\ new.out = out
  BY <1>1, <1>2
<1>4. CASE lines = <<>>
  <2>1. new.out = acc.out
    BY <1>3, <1>4 DEF out
  <2>2. Adds(acc.out, acc.out, lines)
    BY <1>4 DEF Adds, Grows
  <2>3. QED
    BY <1>3, <2>1, <2>2 DEF new, lines
<1>5. CASE lines # <<>>
  <2>1. PICK o : o = Append(acc.out, block)
    OBVIOUS
  <2>2. /\ DOMAIN o = DOMAIN acc.out \cup {Len(acc.out) + 1}
        /\ o[Len(acc.out) + 1] = block /\ \A b \in DOMAIN acc.out : o[b] = acc.out[b]
    BY <1>1, <2>1
  <2>3. block.lines = lines
    BY DEF block
  <2>4. Grows(acc.out, o) /\ HasBlock(o, lines)
    BY <2>2, <2>3 DEF Grows, HasBlock
  <2>5. \A b \in DOMAIN o : \/ b \in DOMAIN acc.out /\ o[b] = acc.out[b]
                           \/ o[b].lines = lines
    BY <2>2, <2>3
  <2>6. Adds(acc.out, o, lines)
    BY <1>5, <2>4, <2>5 DEF Adds
  <2>7. out = o
    BY <1>5, <2>1 DEF out
  <2>8. QED
    BY <1>3, <2>6, <2>7 DEF new, lines
<1>6. QED
  BY <1>4, <1>5

\* What a round of Blocks does with a line.
LEMMA BlockLineIsRead ==
  ASSUME file \in Seq(Kinds), NEW acc \in Reading, NEW n \in DOMAIN file, NEW i \in Int
  PROVE  LET new == ReadBlockLine(acc, n, i)
             open == Toggled(acc.open, file[n])
             ends == EndsBlock(acc.open, file[n])
             closes == acc.open # "none" /\ open = "none"
             lines == Append(acc.cur, n)
         IN /\ ends => /\ new.open = acc.open /\ new.cur = <<>>
                       /\ Adds(acc.out, new.out, Trim(acc.cur))
            /\ ~ ends /\ closes => /\ new.open = open /\ new.cur = <<>>
                                   /\ Adds(acc.out, new.out, Trim(lines))
            /\ ~ ends /\ ~ closes => new.open = open /\ new.cur = lines /\ new.out = acc.out
<1>1. PICK new, open, lines : /\ new = ReadBlockLine(acc, n, i)
                              /\ open = Toggled(acc.open, file[n])
                              /\ lines = Append(acc.cur, n)
  OBVIOUS
<1> DEFINE from == IF acc.cur = <<>> THEN i ELSE acc.from
           ends == EndsBlock(acc.open, file[n])
           closes == acc.open # "none" /\ open = "none"
<1>2. /\ acc.out \in Seq(BlockSet) /\ acc.cur \in Seq(DOMAIN file) /\ acc.from \in Int
      /\ acc.open \in Fences \cup {"none"}
      /\ acc = [out |-> acc.out, cur |-> acc.cur, from |-> acc.from, open |-> acc.open]
  BY DEF Reading
<1>3. from \in Int /\ open \in Fences \cup {"none"} /\ lines \in Seq(DOMAIN file)
  BY <1>1, <1>2 DEF Toggled
<1>4. PICK here : here = [out |-> acc.out, cur |-> acc.cur, from |-> from, open |-> acc.open]
  OBVIOUS
<1>5. PICK more : more = [out |-> acc.out, cur |-> lines, from |-> from, open |-> open]
  OBVIOUS
<1>6. here = [acc EXCEPT !.from = IF acc.cur = <<>> THEN i ELSE @]
  <2>1. here = [acc EXCEPT !.from = from]
    BY <1>2, <1>4
  <2>2. QED
    BY <2>1
<1>7. more = [here EXCEPT !.cur = Append(@, n), !.open = open]
  <2> HIDE DEF from, ends, closes
  <2>1. more = [here EXCEPT !.cur = lines, !.open = open]
    <3>1. PICK m : m = [here EXCEPT !.cur = lines, !.open = open]
      OBVIOUS
    <3>2. m = [out |-> acc.out, cur |-> lines, from |-> from, open |-> open]
      BY <1>4, <3>1
    <3>3. QED
      BY Zenon, <1>5, <3>1, <3>2
  <2>2. here.cur = acc.cur
    BY <1>4
  <2>3. QED
    BY <1>1, <2>1, <2>2
<1>8. new = IF ends THEN FlushBlock(here, i - 1)
            ELSE IF closes THEN FlushBlock(more, i) ELSE more
  BY <1>1, <1>6, <1>7 DEF ReadBlockLine
<1> HIDE DEF from, ends, closes
<1>9. here \in Reading /\ more \in Reading
  BY <1>2, <1>3, <1>4, <1>5 DEF Reading
<1>10. /\ here.out = acc.out /\ here.open = acc.open /\ here.cur = acc.cur
       /\ more.out = acc.out /\ more.open = open /\ more.cur = lines
  BY <1>4, <1>5
<1>11. CASE ends
  <2>1. new.open = acc.open /\ new.cur = <<>> /\ Adds(acc.out, new.out, Trim(acc.cur))
    BY <1>8, <1>9, <1>10, <1>11, BlockIsFlushed
  <2>2. QED
    BY <1>1, <1>11, <2>1 DEF ends
<1>12. CASE ~ ends /\ closes
  <2>1. new.open = open /\ new.cur = <<>> /\ Adds(acc.out, new.out, Trim(lines))
    BY <1>8, <1>9, <1>10, <1>12, BlockIsFlushed
  <2>2. QED
    BY <1>1, <1>12, <2>1 DEF ends, closes
<1>13. CASE ~ ends /\ ~ closes
  <2>1. new = more
    BY <1>8, <1>13
  <2>2. QED
    BY <1>1, <1>10, <1>13, <2>1 DEF ends, closes
<1>14. QED
  BY <1>11, <1>12, <1>13

\* Lines without a fence and without an empty one.
Plain(i, j) == \A n \in i .. j : file[n] \notin Fences \cup {"blank"}

\* Lines of prose, and lines that end with a whole piece of fenced code.
PlainBlock(ns) == \E i, j \in DOMAIN file : i <= j /\ ns = Lines(i, j) /\ Plain(i, j)
CodeBlock(ns) ==
  \E i, o, j \in DOMAIN file :
    /\ ns = Lines(i, j) /\ i <= o /\ Plain(i, o - 1)
    /\ IsCode(o, j) \/ IsOpenCode(o, j)
Shaped(bs) == \A b \in DOMAIN bs : PlainBlock(bs[b].lines) \/ CodeBlock(bs[b].lines)

\* The code that line o opens goes on in line m; i is the first line of the block.
Inside(i, o, m) ==
  /\ i <= o /\ o <= m /\ Opens(o)
  /\ Plain(i, o - 1) /\ \A n \in o + 1 .. m : file[n] # file[o]

\* Then its fence is open.
LEMMA InsideIsOpen ==
  ASSUME file \in Seq(Kinds), NEW i, NEW o \in DOMAIN file, NEW m \in 0 .. Len(file),
         Inside(i, o, m)
  PROVE  OpenIn(file)[m] = file[o] /\ file[o] \in Opened
<1>1. /\ o <= m /\ file[o] \in Fences /\ OpenIn(file)[o - 1] = "none"
      /\ \A n \in o + 1 .. m : file[n] # file[o]
  BY DEF Inside, Opens
<1>2. PICK l : l = Len(file) /\ l \in Nat /\ DOMAIN file = 1 .. l
  OBVIOUS
<1>3. o \in 1 .. l /\ o \in 0 .. l /\ m \in o .. l
  BY <1>1, <1>2
<1>4. file[o] \in Opened /\ file[o] # "none" /\ "none" \in Opened
  BY <1>1 DEF Opened, Fences
<1>5. OpenIn(file)[o] = file[o]
  <2>1. OpenIn(file)[o] = Toggled("none", file[o])
    BY <1>1, <1>2, <1>3, OpenTyped
  <2>2. QED
    BY <1>1, <1>4, <2>1, ToggledIs
<1>6. OpenIn(file)[m] = file[o]
  BY <1>1, <1>2, <1>3, <1>4, <1>5, OpenStays
<1>7. QED
  BY <1>4, <1>6

\* The loop of Blocks after line m of the note.
AtLine(acc, m) ==
  /\ acc \in Reading /\ acc.open = OpenIn(file)[m] /\ Shaped(acc.out)
  /\ \E i \in 1 .. m + 1 :
       /\ acc.cur = Lines(i, m)
       /\ acc.open = "none" => Plain(i, m)
       /\ acc.open # "none" => \E o \in DOMAIN file : Inside(i, o, m)

\* Blocks have this shape if those before and the new one have it.
LEMMA ShapedAdds ==
  ASSUME NEW o, NEW p, NEW ns, Adds(o, p, ns), Shaped(o),
         ns # <<>> => PlainBlock(ns) \/ CodeBlock(ns)
  PROVE  Shaped(p)
<1>1. ASSUME NEW b \in DOMAIN p PROVE PlainBlock(p[b].lines) \/ CodeBlock(p[b].lines)
  <2>1. CASE b \in DOMAIN o /\ p[b] = o[b]
    BY <2>1 DEF Shaped
  <2>2. CASE ns # <<>> /\ p[b].lines = ns
    BY <2>2
  <2>3. QED
    BY <1>1, <2>1, <2>2 DEF Adds
<1>2. QED
  BY <1>1 DEF Shaped

\* Nothing is trimmed from lines that begin and end with text.
LEMMA TrimOfFull ==
  ASSUME file \in Seq(Kinds), NEW i \in DOMAIN file, NEW j \in DOMAIN file, i <= j,
         file[i] # "blank", file[j] # "blank"
  PROVE  Trim(Lines(i, j)) = Lines(i, j) /\ Lines(i, j) # <<>>
<1>1. PICK l, w : l = Len(file) /\ l \in Nat /\ DOMAIN file = 1 .. l /\ w = Lines(i, j)
  OBVIOUS
<1>2. i \in 1 .. l + 1 /\ j \in i - 1 .. l /\ j # i - 1
  BY <1>1
<1>3. w \in Seq(1 .. l)
  BY <1>1, <1>2, LinesAre
<1>4. w # <<>> /\ w[1] = i /\ w[Len(w)] = j
  BY <1>1, <1>2, LinesEnd
<1>5. Trimmed(w)
  BY <1>4 DEF Trimmed
<1>6. w \in Seq(DOMAIN file)
  BY <1>1, <1>3
<1>7. QED
  BY <1>1, <1>4, <1>5, <1>6, TrimOfTrimmed

\* A round keeps what AtLine says.
LEMMA LineIsRead ==
  ASSUME file \in Seq(Kinds), NEW m \in Nat, m + 1 \in DOMAIN file,
         NEW acc, AtLine(acc, m), NEW e \in Int, NEW new, new = ReadBlockLine(acc, m + 1, e),
         new \in Reading
  PROVE  AtLine(new, m + 1)
<1>1. PICK n, k : n = m + 1 /\ k = file[n]
  OBVIOUS
<1>2. /\ n \in DOMAIN file /\ n \in 1 .. Len(file) /\ m \in 0 .. Len(file) /\ n - 1 = m
      /\ DOMAIN file = 1 .. Len(file) /\ Len(file) \in Nat /\ n \in Int
  BY <1>1
<1>3. PICK i \in 1 .. m + 1 :
        /\ acc.cur = Lines(i, m)
        /\ acc.open = "none" => Plain(i, m)
        /\ acc.open # "none" => \E o \in DOMAIN file : Inside(i, o, m)
  BY DEF AtLine
<1>4. acc \in Reading /\ acc.open = OpenIn(file)[m] /\ Shaped(acc.out) /\ acc.open \in Opened
  BY <1>2, OpenTyped DEF AtLine
<1>5. PICK open, more : open = Toggled(acc.open, k) /\ more = Append(acc.cur, n)
  OBVIOUS
<1> DEFINE ends == EndsBlock(acc.open, k)
           closes == acc.open # "none" /\ open = "none"
<1>6. /\ ends => /\ new.open = acc.open /\ new.cur = <<>>
                 /\ Adds(acc.out, new.out, Trim(acc.cur))
      /\ ~ ends /\ closes => /\ new.open = open /\ new.cur = <<>>
                             /\ Adds(acc.out, new.out, Trim(more))
      /\ ~ ends /\ ~ closes => new.open = open /\ new.cur = more /\ new.out = acc.out
  BY <1>1, <1>2, <1>4, <1>5, BlockLineIsRead
<1>7. OpenIn(file)[n] = open
  BY <1>1, <1>2, <1>4, <1>5, OpenTyped
<1>8. more = Lines(i, n)
  <2>1. i \in 1 .. Len(file) + 1 /\ m \in i - 1 .. Len(file)
    BY <1>2
  <2>2. Append(Lines(i, m), m + 1) = Lines(i, m + 1)
    BY <1>2, <2>1, LinesGrow
  <2>3. QED
    BY <1>1, <1>3, <1>5, <2>2
<1>9. Lines(n + 1, n) = <<>>
  BY <1>2, NoLines
<1>10. SUFFICES /\ new.open = open /\ Shaped(new.out)
                /\ \E a \in 1 .. n + 1 :
                     /\ new.cur = Lines(a, n)
                     /\ open = "none" => Plain(a, n)
                     /\ open # "none" => \E o \in DOMAIN file : Inside(a, o, n)
  BY <1>1, <1>7 DEF AtLine
<1>11. CASE ends
  <2>1. acc.open = "none" /\ k = "blank"
    BY <1>11 DEF EndsBlock
  <2>2. open = "none"
    BY <1>5, <2>1, ToggledIs, <1>4 DEF Fences
  <2>3. Trim(acc.cur) # <<>> => PlainBlock(Trim(acc.cur))
    <3>1. SUFFICES ASSUME Trim(acc.cur) # <<>> PROVE PlainBlock(Trim(acc.cur))
      OBVIOUS
    <3>2. Plain(i, m)
      BY <1>3, <2>1
    <3>3. i <= m
      <4>1. SUFFICES ASSUME i = m + 1 PROVE FALSE
        BY <1>2
      <4>2. Lines(i, m) = <<>>
        BY <1>2, <4>1, NoLines
      <4>3. Trim(<<>>) = <<>>
        <5>1. {h \in DOMAIN <<>> : file[<<>>[h]] # "blank"} = {}
          OBVIOUS
        <5>2. QED
          BY <5>1 DEF Trim, Between
      <4>4. QED
        BY <1>3, <3>1, <4>2, <4>3
    <3>4. i \in DOMAIN file /\ m \in DOMAIN file /\ i \in i .. m /\ m \in i .. m
      BY <1>2, <3>3
    <3>5. file[i] # "blank" /\ file[m] # "blank"
      BY <3>2, <3>4 DEF Plain
    <3>6. Trim(Lines(i, m)) = Lines(i, m)
      BY <3>3, <3>4, <3>5, TrimOfFull
    <3>7. QED
      BY <1>3, <3>2, <3>3, <3>4, <3>6 DEF PlainBlock
  <2>4. Shaped(new.out)
    BY <1>4, <1>6, <1>11, <2>3, ShapedAdds
  <2>5. n + 1 \in 1 .. n + 1 /\ new.cur = Lines(n + 1, n) /\ Plain(n + 1, n)
    BY <1>2, <1>6, <1>9, <1>11 DEF Plain
  <2>6. QED
    BY <1>6, <1>11, <2>1, <2>2, <2>4, <2>5
<1>12. CASE ~ ends /\ closes
  <2>1. PICK o \in DOMAIN file : Inside(i, o, m)
    BY <1>3, <1>12
  <2>2. /\ i <= o /\ o <= m /\ Opens(o) /\ Plain(i, o - 1) /\ o \in Int
        /\ \A h \in o + 1 .. m : file[h] # file[o]
    BY <1>2, <2>1 DEF Inside
  <2>3. acc.open = file[o]
    BY <1>4, <2>1, InsideIsOpen, <1>2
  <2>4. k = file[o]
    BY <1>4, <1>5, <1>12, <2>3, ToggledIs
  <2>5. IsCode(o, n)
    <3>1. o < n /\ n - 1 = m
      BY <1>1, <1>2, <2>2
    <3>2. QED
      BY <1>1, <2>2, <2>4, <3>1 DEF IsCode
  <2>6. i \in DOMAIN file /\ i <= n
    BY <1>1, <1>2, <2>2
  <2>7. file[i] # "blank" /\ file[n] # "blank"
    <3>1. file[o] \in Fences
      BY <2>2 DEF Opens
    <3>2. i = o \/ i \in i .. o - 1
      BY <1>2, <2>2
    <3>3. QED
      BY <1>1, <2>2, <2>4, <3>1, <3>2 DEF Plain, Fences
  <2>8. Trim(more) = Lines(i, n)
    BY <1>2, <1>8, <2>6, <2>7, TrimOfFull
  <2>9. CodeBlock(Trim(more))
    BY <1>2, <2>2, <2>5, <2>6, <2>8 DEF CodeBlock
  <2>10. Shaped(new.out)
    BY <1>4, <1>6, <1>12, <2>9, ShapedAdds
  <2>11. n + 1 \in 1 .. n + 1 /\ new.cur = Lines(n + 1, n) /\ Plain(n + 1, n)
    BY <1>2, <1>6, <1>9, <1>12 DEF Plain
  <2>12. QED
    BY <1>6, <1>12, <2>10, <2>11
<1>13. CASE ~ ends /\ ~ closes
  <2>1. new.open = open /\ new.cur = Lines(i, n) /\ Shaped(new.out) /\ i \in 1 .. n + 1
    BY <1>1, <1>2, <1>4, <1>6, <1>8, <1>13
  <2>2. CASE acc.open = "none" /\ k \notin Fences
    <3>1. open = "none" /\ k # "blank"
      BY <1>4, <1>5, <1>13, <2>2, ToggledIs DEF EndsBlock
    <3>2. ASSUME NEW h \in i .. n PROVE file[h] \notin Fences \cup {"blank"}
      <4>1. h = n \/ h \in i .. m
        BY <1>1, <1>2
      <4>2. QED
        BY <1>1, <1>3, <2>2, <3>1, <4>1 DEF Plain
    <3>3. Plain(i, n)
      BY <3>2 DEF Plain
    <3>4. QED
      BY <2>1, <3>1, <3>3
  <2>3. CASE acc.open = "none" /\ k \in Fences
    <3>1. open = k /\ open # "none"
      BY <1>4, <1>5, <2>3, ToggledIs DEF Fences
    <3>2. Opens(n)
      BY <1>1, <1>2, <1>4, <2>3 DEF Opens
    <3>3. i <= n /\ n <= n /\ n - 1 = m /\ \A h \in n + 1 .. n : file[h] # file[n]
      BY <1>1, <1>2
    <3>4. Inside(i, n, n)
      BY <1>3, <2>3, <3>2, <3>3 DEF Inside
    <3>5. QED
      BY <1>2, <2>1, <3>1, <3>4
  <2>4. CASE acc.open # "none"
    <3>1. PICK o \in DOMAIN file : Inside(i, o, m)
      BY <1>3, <2>4
    <3>2. /\ i <= o /\ o <= m /\ Opens(o) /\ Plain(i, o - 1) /\ o \in Int
          /\ \A h \in o + 1 .. m : file[h] # file[o]
      BY <1>2, <3>1 DEF Inside
    <3>3. acc.open = file[o]
      BY <1>2, <1>4, <3>1, InsideIsOpen
    <3>4. k # file[o] /\ open = acc.open
      BY <1>4, <1>5, <1>13, <2>4, <3>3, ToggledIs
    <3>5. ASSUME NEW h \in o + 1 .. n PROVE file[h] # file[o]
      <4>1. h = n \/ h \in o + 1 .. m
        BY <1>1, <1>2, <3>2
      <4>2. QED
        BY <1>1, <3>2, <3>4, <4>1
    <3>6. o <= n
      BY <1>1, <1>2, <3>2
    <3>7. Inside(i, o, n)
      BY <3>2, <3>5, <3>6 DEF Inside
    <3>8. QED
      BY <2>1, <2>4, <3>4, <3>7
  <2>5. QED
    BY <2>2, <2>3, <2>4
<1>14. QED
  BY <1>11, <1>12, <1>13

\* No prose stands directly above line c.
Free(c) == c = 1 \/ file[c - 1] \in Fences \cup {"blank"}

\* The loop of Blocks after line m, about the code from line c to line j.
CodeAt(acc, c, j, m) ==
  /\ m = c - 1 => acc.cur = <<>>
  /\ c <= m /\ m < j => acc.cur = Lines(c, m)
  /\ j <= m => HasBlock(acc.out, Lines(c, j))

\* The fences and the lines between them are read into one block, and the second
\* fence ends it.
LEMMA CodeIsRead ==
  ASSUME file \in Seq(Kinds), NEW m \in Nat, m + 1 \in DOMAIN file,
         NEW acc \in Reading, acc.open = OpenIn(file)[m],
         NEW e \in Int, NEW new, new = ReadBlockLine(acc, m + 1, e),
         NEW c \in DOMAIN file, NEW j \in DOMAIN file, IsCode(c, j), Free(c),
         CodeAt(acc, c, j, m)
  PROVE  CodeAt(new, c, j, m + 1)
<1>1. PICK n, k, l : n = m + 1 /\ k = file[n] /\ l = Len(file)
  OBVIOUS
<1>2. /\ n \in DOMAIN file /\ n \in 1 .. l /\ m \in 0 .. l /\ n - 1 = m /\ n \in Int
      /\ DOMAIN file = 1 .. l /\ l \in Nat /\ c \in 1 .. l /\ j \in 1 .. l
  BY <1>1
<1>3. /\ c < j /\ file[c] \in Fences /\ OpenIn(file)[c - 1] = "none" /\ file[j] = file[c]
      /\ \A h \in c + 1 .. j - 1 : file[h] # file[c]
  BY DEF IsCode, Opens
<1>4. acc.open \in Opened
  BY <1>1, <1>2, OpenTyped
<1>5. PICK open, more : open = Toggled(acc.open, k) /\ more = Append(acc.cur, n)
  OBVIOUS
<1> DEFINE ends == EndsBlock(acc.open, k)
           closes == acc.open # "none" /\ open = "none"
<1>6. /\ ends => /\ new.open = acc.open /\ new.cur = <<>>
                 /\ Adds(acc.out, new.out, Trim(acc.cur))
      /\ ~ ends /\ closes => /\ new.open = open /\ new.cur = <<>>
                             /\ Adds(acc.out, new.out, Trim(more))
      /\ ~ ends /\ ~ closes => new.open = open /\ new.cur = more /\ new.out = acc.out
  BY <1>1, <1>2, <1>5, BlockLineIsRead
<1>7. OpenIn(file)[n] = open
  BY <1>1, <1>2, <1>5, OpenTyped
<1>8. SUFFICES /\ n = c - 1 => new.cur = <<>>
               /\ c <= n /\ n < j => new.cur = Lines(c, n)
               /\ j <= n => HasBlock(new.out, Lines(c, j))
  BY <1>1 DEF CodeAt
<1>9. CASE n < c
  <2>1. ~ (c <= n) /\ ~ (j <= n)
    BY <1>2, <1>3, <1>9
  <2>2. SUFFICES ASSUME n = c - 1 PROVE new.cur = <<>>
    BY <2>1
  <2>3. open = "none" /\ k \in Fences \cup {"blank"}
    BY <1>1, <1>2, <1>3, <1>7, <2>2 DEF Free
  <2>4. CASE acc.open = "none"
    <3>1. k = "blank"
      BY <1>4, <1>5, <2>3, <2>4, ToggledIs DEF Fences
    <3>2. ends
      BY <2>4, <3>1 DEF EndsBlock
    <3>3. QED
      BY <1>6, <3>2
  <2>5. CASE acc.open # "none"
    <3>1. ~ ends /\ closes
      BY <2>3, <2>5 DEF EndsBlock
    <3>2. QED
      BY <1>6, <3>1
  <2>6. QED
    BY <2>4, <2>5
<1>10. CASE n = c
  <2>1. m = c - 1
    BY <1>1, <1>2, <1>10
  <2>2. acc.open = "none" /\ acc.cur = <<>> /\ k \in Fences
    BY <1>1, <1>3, <1>10, <2>1 DEF CodeAt
  <2>3. open = k /\ open # "none" /\ k # "blank"
    BY <1>4, <1>5, <2>2, ToggledIs DEF Fences
  <2>4. ~ ends /\ ~ closes
    BY <2>2, <2>3 DEF EndsBlock
  <2>5. more = Lines(c, c)
    <3>1. Lines(m + 1, m) = <<>>
      BY <1>2, NoLines
    <3>2. m + 1 \in 1 .. l + 1 /\ m \in (m + 1) - 1 .. l
      BY <1>1, <1>2
    <3>3. Append(Lines(m + 1, m), m + 1) = Lines(m + 1, m + 1)
      BY <1>2, <3>2, LinesGrow
    <3>4. QED
      BY <1>1, <1>5, <1>10, <2>2, <3>1, <3>3
  <2>6. new.cur = Lines(c, n)
    BY <1>6, <1>10, <2>4, <2>5
  <2>7. ~ (n = c - 1) /\ ~ (j <= n)
    BY <1>2, <1>3, <1>10
  <2>8. QED
    BY <2>6, <2>7
<1>11. ASSUME c < n, n <= j
       PROVE  acc.open = file[c] /\ acc.open # "none" /\ more = Lines(c, n)
  <2>1. c <= m /\ m < j
    BY <1>1, <1>2, <1>11
  <2>2. Inside(c, c, m)
    <3>1. Plain(c, c - 1)
      BY <1>2 DEF Plain
    <3>2. \A h \in c + 1 .. m : file[h] # file[c]
      BY <1>1, <1>2, <1>3, <1>11
    <3>3. c <= c /\ Opens(c)
      BY <1>2, <1>3 DEF Opens
    <3>4. QED
      BY <2>1, <3>1, <3>2, <3>3 DEF Inside
  <2>3. acc.open = file[c]
    BY <1>1, <1>2, <2>2, InsideIsOpen
  <2>4. acc.cur = Lines(c, m)
    BY <2>1 DEF CodeAt
  <2>5. c \in 1 .. l + 1 /\ m \in c - 1 .. l
    BY <1>2, <2>1
  <2>6. Append(Lines(c, m), m + 1) = Lines(c, m + 1)
    BY <1>2, <2>5, LinesGrow
  <2>7. more = Lines(c, n)
    BY <1>1, <1>5, <2>4, <2>6
  <2>8. QED
    BY <1>3, <2>3, <2>7 DEF Fences
<1>12. CASE c < n /\ n < j
  <2>1. acc.open = file[c] /\ acc.open # "none" /\ more = Lines(c, n)
    BY <1>2, <1>11, <1>12
  <2>2. k # acc.open
    BY <1>1, <1>2, <1>3, <1>12, <2>1
  <2>3. ~ ends /\ ~ closes
    BY <1>4, <1>5, <2>1, <2>2, ToggledIs DEF EndsBlock
  <2>4. new.cur = Lines(c, n)
    BY <1>6, <2>1, <2>3
  <2>5. ~ (n = c - 1) /\ ~ (j <= n)
    BY <1>2, <1>12
  <2>6. QED
    BY <2>4, <2>5
<1>13. CASE n = j
  <2>1. acc.open = file[c] /\ acc.open # "none" /\ more = Lines(c, n)
    BY <1>2, <1>3, <1>11, <1>13
  <2>2. k = acc.open
    BY <1>1, <1>3, <1>13, <2>1
  <2>3. ~ ends /\ closes
    BY <1>4, <1>5, <2>1, <2>2, ToggledIs DEF EndsBlock
  <2>4. file[c] # "blank" /\ file[j] # "blank"
    BY <1>3 DEF Fences
  <2>5. c <= j
    BY <1>2, <1>3
  <2>6. Trim(more) = Lines(c, j) /\ Lines(c, j) # <<>>
    BY <1>13, <2>1, <2>4, <2>5, TrimOfFull
  <2>7. HasBlock(new.out, Lines(c, j))
    BY <1>6, <2>3, <2>6 DEF Adds
  <2>8. ~ (n = c - 1) /\ ~ (n < j)
    BY <1>2, <1>3, <1>13
  <2>9. QED
    BY <2>7, <2>8
<1>14. CASE j < n
  <2>1. HasBlock(acc.out, Lines(c, j))
    <3>1. j <= m
      BY <1>1, <1>2, <1>14
    <3>2. QED
      BY <3>1 DEF CodeAt
  <2>2. HasBlock(new.out, Lines(c, j))
    <3>1. Grows(acc.out, new.out)
      BY <1>6 DEF Adds, Grows
    <3>2. QED
      BY <2>1, <3>1 DEF HasBlock, Grows
  <2>3. ~ (n = c - 1) /\ ~ (n < j)
    BY <1>2, <1>3, <1>14
  <2>4. QED
    BY <2>2, <2>3
<1>15. n < c \/ n = c \/ (c < n /\ n < j) \/ n = j \/ j < n
  BY <1>2
<1>16. QED
  BY <1>9, <1>10, <1>12, <1>13, <1>14, <1>15

\* The loop of Blocks after line m, with lines that follow each other from a on.
ReadTo(acc, a, z, m) ==
  /\ AtLine(acc, m)
  /\ \A c \in a .. z : \A j \in DOMAIN file : IsCode(c, j) /\ Free(c) => CodeAt(acc, c, j, m)

\* So it goes on to the last line of the section.
LEMMA LinesAreRead ==
  ASSUME file \in Seq(Kinds), NEW a \in DOMAIN file, NEW z \in DOMAIN file, a <= z,
         OpenIn(file)[a - 1] = "none"
  PROVE  \E acc : /\ ReadTo(acc, a, z, z)
                  /\ \E end : Blocks(Lines(a, z)) = FlushBlock(acc, end).out
<1>1. PICK n, l, ns : n = z - a + 1 /\ l = Len(file) /\ ns = Lines(a, z)
  OBVIOUS
<1>2. /\ l \in Nat /\ DOMAIN file = 1 .. l /\ a \in 1 .. l /\ z \in a .. l /\ n \in Nat
      /\ a \in Int /\ z \in Int /\ n # 0
  BY <1>1
<1>3. /\ ns \in Seq(DOMAIN file) /\ Len(ns) = n /\ \A q \in 1 .. n : ns[q] = q + a - 1
  <2>1. a \in 1 .. l + 1 /\ z \in a - 1 .. l
    BY <1>2
  <2>2. /\ ns \in Seq(1 .. l) /\ Len(ns) = z - a + 1
        /\ \A q \in 1 .. z - a + 1 : ns[q] = q + a - 1
    <3>1. ns = Lines(a, z) /\ l \in Nat
      BY <1>1, <1>2
    <3>2. QED
      BY <2>1, <3>1, LinesAre
  <2>3. QED
    BY <1>1, <1>2, <2>2
<1>4. PICK f : BlockRounds(f, ns)
  BY <1>3, BlocksRuns
<1> DEFINE T == {q \in 0 .. n : ReadTo(f[1 .. q], a, z, a - 1 + q)}
<1>5. 0 \in T
  <2>1. PICK acc : acc = f[1 .. 0]
    OBVIOUS
  <2>2. 1 .. 0 = {} /\ acc = NothingRead /\ acc \in Reading
    BY <1>4, <2>1 DEF BlockRounds
  <2>3. acc.open = "none" /\ acc.cur = <<>> /\ acc.out = <<>>
    BY <2>2 DEF NothingRead
  <2>4. a - 1 + 0 = a - 1 /\ a \in 1 .. (a - 1) + 1
    BY <1>2
  <2>5. Lines((a - 1) + 1, a - 1) = <<>> /\ (a - 1) + 1 = a
    <3>1. a - 1 \in Int /\ (a - 1) + 1 = a
      BY <1>2
    <3>2. QED
      BY <3>1, NoLines
  <2>6. Shaped(<<>>) /\ Plain(a, a - 1)
    BY <1>2 DEF Shaped, Plain
  <2>7. AtLine(acc, a - 1)
    BY <2>2, <2>3, <2>4, <2>5, <2>6 DEF AtLine
  <2>8. ASSUME NEW c \in a .. z, NEW j \in DOMAIN file, IsCode(c, j)
        PROVE  CodeAt(acc, c, j, a - 1)
    <3>1. c < j
      BY <2>8 DEF IsCode
    <3>2. ~ (c <= a - 1) /\ ~ (j <= a - 1)
      BY <1>2, <3>1
    <3>3. QED
      BY <2>3, <3>2 DEF CodeAt
  <2>9. ReadTo(acc, a, z, a - 1)
    BY <2>7, <2>8 DEF ReadTo
  <2>10. QED
    BY <1>2, <2>1, <2>4, <2>9
<1>6. ASSUME NEW q \in 0 .. n - 1, q \in T PROVE q + 1 \in T
  <2>1. PICK i, m, acc, new : i = q + 1 /\ m = a - 1 + q /\ acc = f[1 .. q] /\ new = f[1 .. i]
    OBVIOUS
  <2>2. i \in 1 .. Len(ns) /\ i \in 1 .. n /\ q = i - 1 /\ i \in 0 .. n /\ i \in Int
    BY <1>2, <1>3, <2>1
  <2>3. m \in Nat /\ m + 1 \in DOMAIN file /\ m + 1 = i + a - 1 /\ a - 1 + (q + 1) = m + 1
    BY <1>1, <1>2, <2>1, <2>2
  <2>4. ReadTo(acc, a, z, m)
    BY <1>6, <2>1
  <2>5. AtLine(acc, m) /\ acc \in Reading /\ acc.open = OpenIn(file)[m]
    BY <2>4 DEF ReadTo, AtLine
  <2>6. new = ReadBlockLine(acc, ns[i], i) /\ new \in Reading
    BY <1>4, <2>1, <2>2, <2>5 DEF BlockRounds
  <2>7. ns[i] = m + 1
    BY <1>3, <2>2, <2>3
  <2>8. AtLine(new, m + 1)
    BY <2>2, <2>3, <2>5, <2>6, <2>7, LineIsRead
  <2>9. ASSUME NEW c \in a .. z, NEW j \in DOMAIN file, IsCode(c, j), Free(c)
        PROVE  CodeAt(new, c, j, m + 1)
    <3>1. CodeAt(acc, c, j, m)
      BY <2>4, <2>9 DEF ReadTo
    <3>2. c \in DOMAIN file
      BY <1>2
    <3>3. QED
      BY <2>2, <2>3, <2>5, <2>6, <2>7, <2>9, <3>1, <3>2, CodeIsRead
  <2>10. ReadTo(new, a, z, m + 1)
    BY <2>8, <2>9 DEF ReadTo
  <2>11. QED
    BY <2>1, <2>2, <2>3, <2>10
<1>7. n \in T
  <2> HIDE DEF T
  <2>1. 0 .. n \subseteq T
    BY <1>2, <1>5, <1>6, UpTo
  <2>2. QED
    BY <1>2, <2>1
<1>8. ReadTo(f[1 .. n], a, z, z)
  <2>1. a - 1 + n = z
    BY <1>1, <1>2
  <2>2. QED
    BY <1>7, <2>1
<1>9. Blocks(ns) = FlushBlock(f[1 .. n], n).out
  BY <1>3, <1>4 DEF BlockRounds
<1>10. QED
  BY <1>1, <1>8, <1>9

\* Code of the section with no prose directly above it is a block of its own.
LEMMA CodeIsBlock ==
  ASSUME file \in Seq(Kinds), NEW a \in DOMAIN file, NEW z \in DOMAIN file, a <= z,
         OpenIn(file)[a - 1] = "none",
         NEW c \in a .. z, NEW j \in c .. z, IsCode(c, j), Free(c)
  PROVE  HasBlock(Blocks(Lines(a, z)), Lines(c, j))
<1>1. PICK acc, end : ReadTo(acc, a, z, z) /\ Blocks(Lines(a, z)) = FlushBlock(acc, end).out
  BY LinesAreRead
<1>2. j \in DOMAIN file /\ j <= z
  <2>1. Len(file) \in Nat /\ DOMAIN file = 1 .. Len(file)
    OBVIOUS
  <2>2. QED
    BY <2>1
<1>3. HasBlock(acc.out, Lines(c, j)) /\ acc \in Reading
  BY <1>1, <1>2 DEF ReadTo, CodeAt, AtLine
<1>4. PICK new : new = FlushBlock(acc, end)
  OBVIOUS
<1>5. Grows(acc.out, new.out)
  BY <1>3, <1>4, BlockIsFlushed DEF Adds
<1>6. QED
  BY <1>1, <1>3, <1>4, <1>5 DEF HasBlock, Grows

\* A block is prose, or ends with a whole piece of code: a fence that is open at the
\* end of a section stays open to the end of the note.
LEMMA BlocksAreShaped ==
  ASSUME file \in Seq(Kinds), NEW a \in DOMAIN file, NEW z \in DOMAIN file, a <= z,
         OpenIn(file)[a - 1] = "none", file[z] # "blank",
         OpenIn(file)[z] = "none" \/ \A n \in z + 1 .. Len(file) : file[n] = "blank"
  PROVE  Shaped(Blocks(Lines(a, z)))
<1>1. PICK acc, end : ReadTo(acc, a, z, z) /\ Blocks(Lines(a, z)) = FlushBlock(acc, end).out
  BY LinesAreRead
<1>2. acc \in Reading /\ acc.open = OpenIn(file)[z] /\ Shaped(acc.out)
  BY <1>1 DEF ReadTo, AtLine
<1>3. PICK i \in 1 .. z + 1 :
        /\ acc.cur = Lines(i, z)
        /\ acc.open = "none" => Plain(i, z)
        /\ acc.open # "none" => \E o \in DOMAIN file : Inside(i, o, z)
  BY <1>1 DEF ReadTo, AtLine
<1>4. Len(file) \in Nat /\ DOMAIN file = 1 .. Len(file) /\ z \in Int
  OBVIOUS
<1>5. Trim(acc.cur) # <<>> => PlainBlock(Trim(acc.cur)) \/ CodeBlock(Trim(acc.cur))
  <2>1. CASE i = z + 1
    <3>1. acc.cur = <<>>
      BY <1>3, <1>4, <2>1, NoLines
    <3>2. {h \in DOMAIN <<>> : file[<<>>[h]] # "blank"} = {}
      OBVIOUS
    <3>3. Trim(<<>>) = <<>>
      BY <3>2 DEF Trim, Between
    <3>4. QED
      BY <3>1, <3>3
  <2>2. CASE i # z + 1
    <3>1. i \in DOMAIN file /\ i <= z /\ i \in i .. z
      BY <1>4, <2>2
    <3>2. CASE acc.open = "none"
      <4>1. Plain(i, z)
        BY <1>3, <3>2
      <4>2. file[i] # "blank"
        BY <3>1, <4>1 DEF Plain
      <4>3. Trim(acc.cur) = Lines(i, z)
        BY <1>3, <3>1, <4>2, TrimOfFull
      <4>4. QED
        BY <3>1, <4>1, <4>3 DEF PlainBlock
    <3>3. CASE acc.open # "none"
      <4>1. PICK o \in DOMAIN file : Inside(i, o, z)
        BY <1>3, <3>3
      <4>2. /\ i <= o /\ o <= z /\ Opens(o) /\ Plain(i, o - 1) /\ file[o] \in Fences
            /\ \A h \in o + 1 .. z : file[h] # file[o]
        BY <4>1 DEF Inside, Opens
      <4>3. file[i] # "blank"
        <5>1. i = o \/ i \in i .. o - 1
          BY <1>4, <3>1, <4>2
        <5>2. QED
          BY <4>2, <5>1 DEF Plain, Fences
      <4>4. Trim(acc.cur) = Lines(i, z)
        BY <1>3, <3>1, <4>3, TrimOfFull
      <4>5. IsOpenCode(o, z)
        BY <1>2, <3>3, <4>2 DEF IsOpenCode
      <4>6. QED
        BY <3>1, <4>2, <4>4, <4>5 DEF CodeBlock
    <3>4. QED
      BY <3>2, <3>3
  <2>3. QED
    BY <2>1, <2>2
<1>6. PICK new : new = FlushBlock(acc, end)
  OBVIOUS
<1>7. Adds(acc.out, new.out, Trim(acc.cur))
  BY <1>2, <1>6, BlockIsFlushed
<1>8. Shaped(new.out)
  BY <1>2, <1>5, <1>7, ShapedAdds
<1>9. QED
  BY <1>1, <1>6, <1>8

\* The text of such code is within the text of its section and, if it fits, within
\* a chunk when the section is split.
LEMMA CodeOfSection ==
  ASSUME file \in Seq(Kinds), NEW s \in SectionSet(file),
         NEW a \in DOMAIN file, NEW z \in DOMAIN file, a <= z, s.lines = Lines(a, z),
         OpenIn(file)[a - 1] = "none",
         NEW i \in a .. z, NEW j \in i .. z, IsCode(i, j), Free(i),
         NEW x, x = Passage(i, j)
  PROVE  /\ x \in Texts /\ Edged(x) /\ Holds(Content(s), x)
         /\ Len(x) <= MaxSize => InChunk(SplitSection(s), x)
<1>1. PICK ns, bs, code : ns = s.lines /\ bs = Blocks(ns) /\ code = Lines(i, j)
  OBVIOUS
<1>2. ns \in Seq(DOMAIN file) /\ bs \in Seq(BlockSet)
  <2>1. ns \in Seq(DOMAIN file)
    BY <1>1 DEF SectionSet
  <2>2. QED
    BY <1>1, <2>1, BlocksKeepLines
<1>3. HasBlock(bs, code)
  BY <1>1, CodeIsBlock
<1>4. PICK b \in DOMAIN bs : bs[b].lines = code
  BY <1>3 DEF HasBlock
<1>5. code \in Seq(DOMAIN file) /\ Trimmed(code)
  <2>1. PICK k : k = bs[b]
    OBVIOUS
  <2>2. k \in BlockSet
    BY <1>2, <1>4, <2>1
  <2>3. QED
    BY <1>4, <2>1, <2>2 DEF BlockSet
<1>6. x = JoinLines(code) /\ x \in Texts /\ Edged(x)
  <2>1. x = JoinLines(code)
    BY <1>1 DEF Passage, Lines
  <2>2. QED
    BY <1>5, <2>1, JoinLinesKeepsInk, JoinOfTrimmed
<1>7. Holds(Content(s), x)
  <2>1. PICK l, p, e : l = Len(file) /\ p = i - a + 1 /\ e = j - a + 1
    OBVIOUS
  <2>2. l \in Nat /\ a \in 1 .. l /\ z \in a .. l
    BY <2>1
  <2>3. p \in 1 .. Len(ns) /\ e \in p .. Len(ns) /\ SubSeq(ns, p, e) = code
    <3>1. /\ i - a + 1 \in 1 .. Len(Lines(a, z))
          /\ j - a + 1 \in i - a + 1 .. Len(Lines(a, z))
          /\ SubSeq(Lines(a, z), i - a + 1, j - a + 1) = Lines(i, j)
      BY <2>2, PartOfLines
    <3>2. ns = Lines(a, z) /\ code = Lines(i, j) /\ p = i - a + 1 /\ e = j - a + 1
      BY <1>1, <2>1
    <3>3. QED
      BY Zenon, <3>1, <3>2
  <2>4. Holds(JoinLines(ns), JoinLines(SubSeq(ns, p, e)))
    BY <1>2, <2>3, JoinLinesHolds
  <2>5. QED
    BY <1>1, <1>6, <2>3, <2>4 DEF Content
<1>8. ASSUME Len(x) <= MaxSize PROVE InChunk(SplitSection(s), x)
  <2>1. b \in DOMAIN Blocks(s.lines) /\ x = JoinLines(Blocks(s.lines)[b].lines)
    BY <1>1, <1>4, <1>6
  <2>2. PICK u \in ToSet(Units(s)) : u.text = x
    BY <1>8, <2>1, FittingBlockIsUnit
  <2>3. Holds(u.text, x)
    BY <1>6, <2>2, HoldsInConcat
  <2>4. QED
    BY <1>6, <2>3, SplitSectionHolds
<1>9. QED
  BY <1>6, <1>7, <1>8

-----------------------------------------------------------------------------
(***************************************************************************)
(* The sections and the fences of the note.                                *)
(***************************************************************************)
\* Lines of f that follow each other, from where no fence is open to where none is
\* or, at the end of the note, to the last line with text.
CutFrom(f, ns, ended) ==
  \E a, z \in DOMAIN f :
    /\ ns = Lines(a, z) /\ a <= z /\ f[z] # "blank" /\ OpenIn(f)[a - 1] = "none"
    /\ \/ OpenIn(f)[z] = "none"
       \/ ended /\ \A n \in z + 1 .. Len(f) : f[n] = "blank"

\* So are the sections, and the one being read; fence is what its name says.
Matched ==
  /\ \A m \in DOMAIN sections : CutFrom(file, sections[m].lines, phase # "parse")
  /\ phase = "parse" =>
       /\ fence = OpenIn(file)[Len(file)]
       /\ \E a \in 1 .. Len(file) + 1 :
            cur = Lines(a, Len(file)) /\ OpenIn(file)[a - 1] = "none"

\* There is no section at first, and no fence is open.
LEMMA InitMatched == Init => Matched
<1> SUFFICES ASSUME Init PROVE Matched
  OBVIOUS
<1>1. file = <<>> /\ cur = <<>> /\ fence = "none" /\ sections = <<>>
  BY DEF Init
<1>2. DOMAIN <<>> = {} /\ Len(<<>>) = 0 /\ <<>> \in Seq(Kinds) /\ 1 \in 1 .. 0 + 1 /\ 1 - 1 = 0
  OBVIOUS
<1>3. OpenIn(<<>>)[0] = "none"
  BY <1>2, OpenTyped
<1>4. Lines(1, 0) = <<>>
  <2>1. Lines(0 + 1, 0) = <<>> /\ 0 + 1 = 1
    BY NoLines
  <2>2. QED
    BY <2>1
<1>5. QED
  BY <1>1, <1>2, <1>3, <1>4 DEF Matched

\* One more line changes nothing in what has been cut.
LEMMA CutGrows ==
  ASSUME NEW f \in Seq(Kinds), NEW k \in Kinds, NEW ns, CutFrom(f, ns, FALSE)
  PROVE  CutFrom(Append(f, k), ns, FALSE)
<1>1. PICK a \in DOMAIN f, z \in DOMAIN f :
        /\ ns = Lines(a, z) /\ a <= z /\ f[z] # "blank" /\ OpenIn(f)[a - 1] = "none"
        /\ OpenIn(f)[z] = "none"
  BY DEF CutFrom
<1>2. PICK g : g = Append(f, k)
  OBVIOUS
<1>3. /\ a \in DOMAIN g /\ z \in DOMAIN g /\ g[z] = f[z]
      /\ a - 1 \in 0 .. Len(f) /\ z \in 0 .. Len(f)
  BY <1>2
<1>4. OpenIn(g)[a - 1] = OpenIn(f)[a - 1] /\ OpenIn(g)[z] = OpenIn(f)[z]
  BY <1>2, <1>3, OpenGrows
<1>5. CutFrom(g, ns, FALSE)
  BY <1>1, <1>3, <1>4 DEF CutFrom
<1>6. QED
  BY <1>2, <1>5

\* A section is trimmed at its ends only.  If no fence is open, none was at its end.
LEMMA FlushedMatched ==
  ASSUME Inv, Matched, phase = "parse", NEW end
  PROVE  \A m \in DOMAIN Flushed(end) :
           /\ CutFrom(file, Flushed(end)[m].lines, TRUE)
           /\ fence = "none" => CutFrom(file, Flushed(end)[m].lines, FALSE)
<1> DEFINE lines == Trim(cur)
           new == [lines |-> lines, path |-> stack, from |-> start, to |-> end]
           Good(ns) == /\ CutFrom(file, ns, TRUE)
                       /\ fence = "none" => CutFrom(file, ns, FALSE)
<1>1. file \in Seq(Kinds) /\ sections \in Seq(SectionSet(file))
  BY DEF Inv, TypeInv
<1>2. PICK l : l = Len(file) /\ l \in Nat /\ DOMAIN file = 1 .. l
  BY <1>1
<1>3. PICK b \in 1 .. l + 1 : cur = Lines(b, l) /\ OpenIn(file)[b - 1] = "none"
  BY <1>2 DEF Matched
<1>4. \A m \in DOMAIN sections : Good(sections[m].lines)
  BY DEF Matched, CutFrom
<1>5. lines # <<>> => Good(lines)
  <2>1. SUFFICES ASSUME lines # <<>> PROVE Good(lines)
    OBVIOUS
  <2>2. b \in 1 .. Len(file) + 1 /\ Len(file) \in b - 1 .. Len(file)
    BY <1>2
  <2>3. PICK a \in DOMAIN file, z \in DOMAIN file :
          /\ lines = Lines(a, z) /\ b <= a /\ a <= z /\ z <= l /\ file[z] # "blank"
          /\ \A n \in b .. a - 1 : file[n] = "blank"
          /\ \A n \in z + 1 .. l : file[n] = "blank"
    BY <1>1, <1>2, <1>3, <2>1, <2>2, TrimOfLines
  <2>4. OpenIn(file)[a - 1] = "none"
    <3>1. b - 1 \in 0 .. l /\ a - 1 \in b - 1 .. l /\ (b - 1) + 1 = b /\ "none" \in Opened
      BY <1>2, <2>3 DEF Opened
    <3>2. \A n \in (b - 1) + 1 .. a - 1 : file[n] \notin Fences
      BY <2>3, <3>1 DEF Fences
    <3>3. QED
      BY <1>1, <1>2, <1>3, <3>1, <3>2, OpenStays
  <2>5. OpenIn(file)[l] = OpenIn(file)[z]
    <3>1. z \in 0 .. l /\ l \in z .. l
      BY <1>2, <2>3
    <3>2. PICK o : o = OpenIn(file)[z]
      OBVIOUS
    <3>3. o \in Opened
      BY <1>1, <1>2, <3>1, <3>2, OpenTyped
    <3>4. \A n \in z + 1 .. l : file[n] \notin Fences
      BY <2>3 DEF Fences
    <3>5. OpenIn(file)[l] = o
      BY <1>1, <1>2, <3>1, <3>2, <3>3, <3>4, OpenStays
    <3>6. QED
      BY <3>2, <3>5
  <2>6. fence = OpenIn(file)[l]
    BY <1>2 DEF Matched
  <2>7. CutFrom(file, lines, TRUE)
    BY <1>2, <2>3, <2>4 DEF CutFrom
  <2>8. fence = "none" => CutFrom(file, lines, FALSE)
    BY <2>3, <2>4, <2>5, <2>6 DEF CutFrom
  <2>9. QED
    BY <2>7, <2>8
<1>6. Flushed(end) = IF lines = <<>> THEN sections ELSE Append(sections, new)
  BY DEF Flushed
<1>7. \A m \in DOMAIN Flushed(end) : Good(Flushed(end)[m].lines)
  <2>1. CASE lines = <<>>
    BY <1>4, <1>6, <2>1
  <2>2. CASE lines # <<>>
    <3>1. PICK ss : ss = Append(sections, new)
      OBVIOUS
    <3>2. new.lines = lines
      OBVIOUS
    <3> HIDE DEF new, lines, Good
    <3>3. /\ DOMAIN ss = DOMAIN sections \cup {Len(sections) + 1}
          /\ ss[Len(sections) + 1] = new /\ \A i \in DOMAIN sections : ss[i] = sections[i]
      BY <1>1, <3>1
    <3>4. \A m \in DOMAIN ss : Good(ss[m].lines)
      BY <1>4, <1>5, <2>2, <3>2, <3>3
    <3>5. QED
      BY <1>6, <2>2, <3>1, <3>4
  <2>3. QED
    BY <2>1, <2>2
<1>8. QED
  BY <1>7

\* The parser follows the fences of the note, and cuts only where none is open.
LEMMA NextMatched ==
  ASSUME Inv, Matched, Next
  PROVE  Matched'
<1>1. file \in Seq(Kinds)
  BY DEF Inv, TypeInv
<1>2. PICK l : l = Len(file) /\ l \in Nat /\ DOMAIN file = 1 .. l
  BY <1>1
<1>3. ASSUME NEW k \in Kinds, ReadHeading(k) PROVE Matched'
  <2>1. PICK g : g = Append(file, k)
    OBVIOUS
  <2>2. /\ phase = "parse" /\ phase' = phase /\ file' = g /\ fence = "none" /\ fence' = fence
        /\ sections' = Flushed(l) /\ cur' = <<l + 1>> /\ k \in DOMAIN Level
    BY <1>2, <1>3, <2>1 DEF ReadHeading
  <2>3. Len(g) = l + 1
    BY <1>1, <1>2, <2>1
  <2>4. ASSUME NEW m \in DOMAIN sections' PROVE CutFrom(g, sections'[m].lines, FALSE)
    <3>1. CutFrom(file, sections'[m].lines, FALSE)
      BY <2>2, <2>4, FlushedMatched
    <3>2. QED
      BY <1>1, <2>1, <3>1, CutGrows
  <2>5. OpenIn(g)[l] = "none" /\ OpenIn(g)[l + 1] = "none"
    <3>1. OpenIn(file)[l] = "none" /\ "none" \in Opened
      BY <1>2, <2>2 DEF Matched, Opened
    <3>2. OpenIn(g)[l] = OpenIn(file)[l] /\ OpenIn(g)[l + 1] = Toggled(OpenIn(file)[l], k)
      BY <1>1, <1>2, <2>1, OpenGrows
    <3>3. k \notin Fences
      BY <2>2 DEF Level, Fences
    <3>4. QED
      BY <3>1, <3>2, <3>3, ToggledIs
  <2>6. Lines(l + 1, l + 1) = <<l + 1>>
    <3>1. l + 1 \in 1 .. l + 1 /\ l \in (l + 1) - 1 .. l
      BY <1>2
    <3>2. Append(Lines(l + 1, l), l + 1) = Lines(l + 1, l + 1)
      BY <1>2, <3>1, LinesGrow
    <3>3. Lines(l + 1, l) = <<>> /\ Append(<<>>, l + 1) = <<l + 1>>
      BY <1>2, NoLines
    <3>4. QED
      BY Zenon, <3>2, <3>3
  <2>7. \E a \in 1 .. Len(g) + 1 : cur' = Lines(a, Len(g)) /\ OpenIn(g)[a - 1] = "none"
    <3>1. l + 1 \in 1 .. Len(g) + 1 /\ (l + 1) - 1 = l
      BY <1>2, <2>3
    <3>2. QED
      BY <2>2, <2>3, <2>5, <2>6, <3>1
  <2>8. QED
    BY <2>2, <2>3, <2>4, <2>5, <2>7 DEF Matched
<1>4. ASSUME NEW k \in Kinds, ReadLine(k) PROVE Matched'
  <2>1. PICK g : g = Append(file, k)
    OBVIOUS
  <2>2. /\ phase = "parse" /\ phase' = phase /\ file' = g /\ fence' = Toggled(fence, k)
        /\ sections' = sections /\ cur' = Append(cur, l + 1)
    BY <1>2, <1>4, <2>1 DEF ReadLine
  <2>3. Len(g) = l + 1
    BY <1>1, <1>2, <2>1
  <2>4. ASSUME NEW m \in DOMAIN sections' PROVE CutFrom(g, sections'[m].lines, FALSE)
    <3>1. CutFrom(file, sections'[m].lines, FALSE)
      BY <2>2, <2>4 DEF Matched
    <3>2. QED
      BY <1>1, <2>1, <3>1, CutGrows
  <2>5. PICK a \in 1 .. l + 1 : cur = Lines(a, l) /\ OpenIn(file)[a - 1] = "none"
    BY <1>2, <2>2 DEF Matched
  <2>6. fence' = OpenIn(g)[l + 1]
    <3>1. fence = OpenIn(file)[l]
      BY <1>2, <2>2 DEF Matched
    <3>2. OpenIn(g)[l + 1] = Toggled(OpenIn(file)[l], k)
      BY <1>1, <1>2, <2>1, OpenGrows
    <3>3. QED
      BY <2>2, <3>1, <3>2
  <2>7. OpenIn(g)[a - 1] = "none"
    <3>1. a - 1 \in 0 .. l
      BY <1>2
    <3>2. QED
      BY <1>1, <1>2, <2>1, <2>5, <3>1, OpenGrows
  <2>8. cur' = Lines(a, l + 1)
    <3>1. l \in a - 1 .. l
      BY <1>2
    <3>2. QED
      BY <1>2, <2>2, <2>5, <3>1, LinesGrow
  <2>9. a \in 1 .. Len(g) + 1
    BY <1>2, <2>3
  <2>10. QED
    BY <2>2, <2>3, <2>4, <2>6, <2>7, <2>8, <2>9 DEF Matched
<1>5. CASE EndOfFile
  <2>1. phase = "parse" /\ phase' = "chunk" /\ sections' = Flushed(Len(file)) /\ file' = file
    BY <1>5 DEF EndOfFile
  <2>2. \A m \in DOMAIN sections' : CutFrom(file', sections'[m].lines, TRUE)
    BY <2>1, FlushedMatched
  <2>3. (phase' # "parse") = TRUE
    BY <2>1
  <2>4. QED
    BY <2>1, <2>2, <2>3 DEF Matched
<1>6. CASE SplitNext \/ StartNext \/ AddNext \/ EndOfSections
  <2>1. phase # "parse" /\ phase' # "parse" /\ sections' = sections /\ file' = file
    BY <1>6 DEF SplitNext, StartNext, AddNext, EndOfSections
  <2>2. (phase # "parse") = TRUE /\ (phase' # "parse") = TRUE
    BY <2>1
  <2>3. QED
    BY <2>1, <2>2 DEF Matched
<1>7. QED
  BY <1>3, <1>4, <1>5, <1>6 DEF Next

\* The code of a section ends in it.
LEMMA CodeEndsInside ==
  ASSUME file \in Seq(Kinds), NEW a \in DOMAIN file, NEW z \in DOMAIN file,
         \/ OpenIn(file)[z] = "none"
         \/ \A n \in z + 1 .. Len(file) : file[n] = "blank",
         NEW i \in a .. z, NEW j \in DOMAIN file, IsCode(i, j)
  PROVE  j \in i .. z
<1>1. Len(file) \in Nat /\ DOMAIN file = 1 .. Len(file)
  OBVIOUS
<1>2. /\ i < j /\ Opens(i) /\ file[i] \in Fences /\ file[j] = file[i]
      /\ \A n \in i + 1 .. j - 1 : file[n] # file[i]
  BY DEF IsCode, Opens
<1>3. i \in DOMAIN file /\ i <= z
  BY <1>1
<1>4. SUFFICES ASSUME z < j PROVE FALSE
  BY <1>1, <1>2
<1>5. CASE OpenIn(file)[z] = "none"
  <2>1. \A n \in i + 1 .. z : file[n] # file[i]
    BY <1>1, <1>2, <1>4
  <2>2. Plain(i, i - 1) /\ i <= i
    BY <1>1, <1>3 DEF Plain
  <2>3. Inside(i, i, z)
    BY <1>2, <1>3, <2>1, <2>2 DEF Inside
  <2>4. z \in 0 .. Len(file)
    BY <1>1
  <2>5. OpenIn(file)[z] = file[i]
    BY <1>3, <2>3, <2>4, InsideIsOpen
  <2>6. QED
    BY <1>2, <1>5, <2>5 DEF Fences
<1>6. CASE \A n \in z + 1 .. Len(file) : file[n] = "blank"
  <2>1. j \in z + 1 .. Len(file)
    BY <1>1, <1>4
  <2>2. QED
    BY <1>2, <1>6, <2>1 DEF Fences
<1>7. QED
  BY <1>5, <1>6

\* The code that SetApartCodeIsWhole is about.
SetApart(i, j) == IsCode(i, j) /\ Len(Passage(i, j)) <= MaxSize /\ Free(i)

\* It is within the text of its section, and within a chunk if that is split.
LEMMA SetApartStays ==
  ASSUME Inv, Matched, NEW k \in DOMAIN sections, NEW i \in DOMAIN file,
         NEW j \in DOMAIN file, SetApart(i, j), i \in ToSet(sections[k].lines)
  PROVE  LET x == Passage(i, j)
         IN /\ x \in Texts /\ Edged(x) /\ Holds(Content(sections[k]), x)
            /\ InChunk(SplitSection(sections[k]), x)
<1>1. PICK s, ns, x : s = sections[k] /\ ns = s.lines /\ x = Passage(i, j)
  OBVIOUS
<1>2. file \in Seq(Kinds) /\ sections \in Seq(SectionSet(file))
  BY DEF Inv, TypeInv
<1>3. s \in SectionSet(file) /\ CutFrom(file, ns, phase # "parse")
  BY <1>1, <1>2, SectionsHaveRanges DEF Matched
<1>4. IsCode(i, j) /\ Len(x) <= MaxSize /\ Free(i)
  BY <1>1 DEF SetApart
<1>5. PICK a \in DOMAIN file, z \in DOMAIN file :
        /\ ns = Lines(a, z) /\ a <= z /\ OpenIn(file)[a - 1] = "none"
        /\ \/ OpenIn(file)[z] = "none"
           \/ \A n \in z + 1 .. Len(file) : file[n] = "blank"
  BY <1>3 DEF CutFrom
<1>6. PICK l : l = Len(file) /\ l \in Nat /\ DOMAIN file = 1 .. l
  BY <1>2
<1>7. i \in a .. z
  <2>1. PICK p \in DOMAIN ns : ns[p] = i
    BY <1>1 DEF ToSet
  <2>2. a \in 1 .. l + 1 /\ z \in a - 1 .. l /\ a \in Int /\ z \in Int
    BY <1>5, <1>6
  <2>3. /\ DOMAIN ns = 1 .. z - a + 1
        /\ \A n \in 1 .. z - a + 1 : ns[n] = n + a - 1
    <3>1. ns = Lines(a, z) /\ l \in Nat
      BY <1>5, <1>6
    <3>2. QED
      BY <2>2, <3>1, LinesAre
  <2>4. p \in 1 .. z - a + 1 /\ i = p + a - 1
    BY <2>1, <2>3
  <2>5. QED
    BY <2>2, <2>4
<1>8. j \in i .. z
  BY <1>2, <1>4, <1>5, <1>7, CodeEndsInside
<1>9. x \in Texts /\ Edged(x) /\ Holds(Content(s), x) /\ InChunk(SplitSection(s), x)
  BY <1>1, <1>2, <1>3, <1>4, <1>5, <1>7, <1>8, CodeOfSection
<1>10. QED
  BY <1>1, <1>9

\* While the sections are chunked, code of those that were taken is within a chunk
\* or within what is collected; in the end all of it is within chunks.
CodeKept ==
  /\ phase = "chunk" =>
       \A k \in DOMAIN sections : k < next =>
         \A i, j \in DOMAIN file :
           SetApart(i, j) /\ i \in ToSet(sections[k].lines)
             => Somewhere(raw, pending, Passage(i, j))
  /\ phase = "done" =>
       \A i, j \in DOMAIN file : SetApart(i, j) => InChunk(raw, Passage(i, j))

\* The code of the note depends on the file alone.
LEMMA SameCode ==
  ASSUME file' = file, sections' = sections
  PROVE  \A i, j : Passage(i, j)' = Passage(i, j) /\ (SetApart(i, j)' <=> SetApart(i, j))
<1>1. ASSUME NEW i, NEW j PROVE Passage(i, j)' = Passage(i, j)
  BY DEF Passage, JoinLines, LineText
<1>2. ASSUME NEW i, NEW j PROVE IsCode(i, j)' <=> IsCode(i, j)
  BY DEF IsCode, Opens, OpenIn
<1>3. ASSUME NEW i, NEW j PROVE SetApart(i, j)' <=> SetApart(i, j)
  BY <1>1, <1>2 DEF SetApart, Free
<1>4. QED
  BY <1>1, <1>3

\* A step of the chunker that takes a section keeps what it has, and takes the code
\* of the section.
LEMMA CodeIsTaken ==
  ASSUME Inv, Matched, CodeKept, phase = "chunk", next <= Len(sections),
         NEW r, NEW p, raw' = r, pending' = p, next' = next + 1, phase' = phase,
         file' = file, sections' = sections,
         \A x \in Texts : Edged(x) /\ Somewhere(raw, pending, x) => Somewhere(r, p, x),
         \A x \in Texts : /\ Edged(x) /\ Holds(Content(sections[next]), x)
                          /\ InChunk(SplitSection(sections[next]), x)
                          => Somewhere(r, p, x)
  PROVE  CodeKept'
<1>1. next \in Nat \ {0} /\ DOMAIN sections \subseteq Nat
  BY DEF Inv, TypeInv
<1>2. ASSUME NEW k \in DOMAIN sections, k < next + 1, NEW i \in DOMAIN file,
             NEW j \in DOMAIN file, SetApart(i, j), i \in ToSet(sections[k].lines)
      PROVE  Somewhere(r, p, Passage(i, j))
  <2>1. PICK x : x = Passage(i, j)
    OBVIOUS
  <2>2. /\ x \in Texts /\ Edged(x) /\ Holds(Content(sections[k]), x)
        /\ InChunk(SplitSection(sections[k]), x)
    BY <1>2, <2>1, SetApartStays
  <2>3. CASE k < next
    <3>1. Somewhere(raw, pending, x)
      BY <1>2, <2>1, <2>3 DEF CodeKept
    <3>2. QED
      BY <2>1, <2>2, <3>1
  <2>4. CASE k = next
    BY <2>1, <2>2, <2>4
  <2>5. k < next \/ k = next
    BY <1>1, <1>2
  <2>6. QED
    BY <2>3, <2>4, <2>5
<1>3. ASSUME NEW k \in DOMAIN sections', k < next', NEW i \in DOMAIN file',
             NEW j \in DOMAIN file', SetApart(i, j)', i \in ToSet(sections'[k].lines)
      PROVE  Somewhere(raw', pending', Passage(i, j)')
  <2>1. SetApart(i, j) /\ Passage(i, j)' = Passage(i, j)
    BY <1>3, SameCode
  <2>2. Somewhere(r, p, Passage(i, j))
    BY <1>2, <1>3, <2>1
  <2>3. QED
    BY <2>1, <2>2
<1>4. phase' # "done"
  OBVIOUS
<1>5. QED
  BY <1>3, <1>4 DEF CodeKept, Somewhere, InChunk

\* What is collected becomes a chunk.
LEMMA CollectedHolds ==
  ASSUME Inv, NEW x \in Texts, Edged(x), Somewhere(raw, pending, x)
  PROVE  InChunk(raw \o Collected, x)
<1>1. PICK r, c : r = raw /\ c = Collected
  OBVIOUS
<1>2. raw \in Seq(ChunkSet) /\ c \in Seq(ChunkSet) /\ pending.text \in Texts
  <2>1. pending \in Short /\ raw \in Seq(FitIn(sections))
    BY DEF Inv, TypeInv
  <2>2. raw \in Seq(ChunkSet)
    BY <2>1, FitsAreChunks
  <2>3. pending \in ChunkSet
    BY <2>1, FitsAreChunks
  <2>4. QED
    BY <1>1, <2>1, <2>2, <2>3, CollectedKeepsInk DEF ChunkSet
<1>3. Holds(pending.text, x) => InChunk(c, x)
  <2>1. SUFFICES ASSUME Holds(pending.text, x) PROVE InChunk(c, x)
    OBVIOUS
  <2>2. pending.text # <<>>
    BY <1>2, <2>1, HoldsInJoin
  <2>3. c = <<pending>>
    BY <1>1, <2>2 DEF Collected
  <2>4. QED
    BY <2>1, <2>3, InChunkOfOne
<1>4. InChunk(r, x) \/ InChunk(c, x)
  BY <1>1, <1>3 DEF Somewhere
<1>5. QED
  BY <1>1, <1>2, <1>4, InChunkOfConcat

\* A long section is split after what was pending, and its code stays whole.
LEMMA SplitNextKeepsCode ==
  ASSUME Inv, Matched, CodeKept, SplitNext
  PROVE  CodeKept'
<1>1. PICK b, e, r, p : /\ b = raw \o Collected /\ e = SplitSection(sections[next])
                        /\ r = b \o e /\ p = pending'
  OBVIOUS
<1>2. /\ phase = "chunk" /\ phase' = phase /\ next <= Len(sections) /\ next' = next + 1
      /\ raw' = r /\ pending' = p /\ file' = file /\ sections' = sections
  BY <1>1 DEF SplitNext
<1>3. b \in Seq(ChunkSet) /\ e \in Seq(ChunkSet)
  <2>1. pending \in Short /\ raw \in Seq(FitIn(sections))
    BY DEF Inv, TypeInv
  <2>2. file \in Seq(Kinds) /\ sections[next] \in SectionSet(file)
    BY <1>2 DEF Inv, TypeInv
  <2>3. QED
    BY <1>1, <2>1, <2>2, FlushKeepsInk, SplitSectionKeepsInk
<1>4. ASSUME NEW x \in Texts, Edged(x), Somewhere(raw, pending, x)
      PROVE  Somewhere(r, p, x)
  <2>1. InChunk(b, x)
    BY <1>1, <1>4, CollectedHolds
  <2>2. InChunk(b \o e, x)
    BY <1>3, <2>1, InChunkOfConcat
  <2>3. QED
    BY <1>1, <2>2 DEF Somewhere
<1>5. ASSUME NEW x \in Texts, InChunk(SplitSection(sections[next]), x)
      PROVE  Somewhere(r, p, x)
  <2>1. InChunk(b \o e, x)
    BY <1>1, <1>3, <1>5, InChunkOfConcat
  <2>2. QED
    BY <1>1, <2>1 DEF Somewhere
<1>6. QED
  BY <1>2, <1>4, <1>5, CodeIsTaken

\* What was pending becomes a chunk, and the section with its code is pending.
LEMMA StartNextKeepsCode ==
  ASSUME Inv, Matched, CodeKept, StartNext
  PROVE  CodeKept'
<1>1. PICK r, p, s : /\ r = raw \o Collected /\ s = sections[next]
                     /\ p = [text |-> Content(s), path |-> s.path, from |-> s.from, to |-> s.to]
  OBVIOUS
<1>2. /\ phase = "chunk" /\ phase' = phase /\ next <= Len(sections) /\ next' = next + 1
      /\ raw' = r /\ pending' = p /\ file' = file /\ sections' = sections
  BY <1>1 DEF StartNext
<1>3. ASSUME NEW x \in Texts, Edged(x), Somewhere(raw, pending, x)
      PROVE  Somewhere(r, p, x)
  BY <1>1, <1>3, CollectedHolds DEF Somewhere
<1>4. ASSUME NEW x \in Texts, Holds(Content(sections[next]), x)
      PROVE  Somewhere(r, p, x)
  BY <1>1, <1>4 DEF Somewhere
<1>5. QED
  BY <1>2, <1>3, <1>4, CodeIsTaken

\* What was pending and the section with its code are joined.
LEMMA AddNextKeepsCode ==
  ASSUME Inv, Matched, CodeKept, AddNext
  PROVE  CodeKept'
<1> DEFINE s == sections[next]
           joined == JoinBlocks(pending.text, Content(s))
           path == IF pending.path = <<>> THEN s.path ELSE pending.path
           sum == [text |-> joined, path |-> path, from |-> FirstLine(s), to |-> s.to]
           full == Len(sum.text) >= TargetSize
           r == IF full THEN Append(raw, sum) ELSE raw
           p == IF full THEN Nothing ELSE sum
<1>1. /\ phase = "chunk" /\ phase' = phase /\ next <= Len(sections) /\ next' = next + 1
      /\ ~ Overlong(s) /\ raw' = r /\ pending' = p /\ file' = file /\ sections' = sections
  BY DEF AddNext
<1>2. sum.text = joined
  OBVIOUS
<1>3. raw \in Seq(ChunkSet) /\ pending.text \in Texts /\ Content(s) \in Texts
  <2>1. pending \in Short /\ raw \in Seq(FitIn(sections))
    BY DEF Inv, TypeInv
  <2>2. raw \in Seq(ChunkSet) /\ pending \in ChunkSet
    BY <2>1, FitsAreChunks
  <2>3. Content(s) \in Texts
    BY <1>1, ContentFits
  <2>4. QED
    BY <2>2, <2>3 DEF ChunkSet
<1> HIDE DEF joined, sum, full
<1>4. ASSUME NEW x, InChunk(raw, x) \/ Holds(joined, x)
      PROVE  Somewhere(r, p, x)
  <2>1. CASE full
    <3>1. PICK w : w = Append(raw, sum)
      OBVIOUS
    <3>2. /\ Len(raw) + 1 \in DOMAIN w /\ w[Len(raw) + 1] = sum
          /\ \A m \in DOMAIN raw : m \in DOMAIN w /\ w[m] = raw[m]
      BY <1>3, <3>1
    <3>3. InChunk(w, x)
      BY <1>2, <1>4, <3>2 DEF InChunk
    <3>4. r = w
      BY <2>1, <3>1
    <3>5. QED
      BY <3>3, <3>4 DEF Somewhere
  <2>2. CASE ~ full
    <3>1. r = raw /\ p = sum
      BY <2>2
    <3>2. QED
      BY <1>2, <1>4, <3>1 DEF Somewhere
  <2>3. QED
    BY <2>1, <2>2
<1> HIDE DEF r, p
<1>5. ASSUME NEW x \in Texts, Edged(x), Somewhere(raw, pending, x)
      PROVE  Somewhere(r, p, x)
  <2>1. Holds(pending.text, x) => Holds(joined, x)
    BY <1>3, <1>5, HoldsInJoin DEF joined
  <2>2. QED
    BY <1>4, <1>5, <2>1 DEF Somewhere
<1>6. ASSUME NEW x \in Texts, Edged(x), Holds(Content(sections[next]), x)
      PROVE  Somewhere(r, p, x)
  <2>1. Holds(joined, x)
    BY <1>3, <1>6, HoldsInJoin DEF joined
  <2>2. QED
    BY <1>4, <2>1
<1>7. QED
  BY <1>1, <1>5, <1>6, CodeIsTaken

\* At the end the chunks are stripped, which leaves the code in them whole.
LEMMA EndOfSectionsKeepsCode ==
  ASSUME Inv, Matched, CodeKept, EndOfSections
  PROVE  CodeKept'
<1>1. PICK all : all = raw \o Collected
  OBVIOUS
<1> DEFINE strip(c) == [c EXCEPT !.text = Strip(@)]
           stripped == [i \in DOMAIN all |-> strip(all[i])]
           keep == {i \in DOMAIN stripped : stripped[i].text # <<>>}
<1>2. /\ phase = "chunk" /\ next > Len(sections) /\ raw' = Where(stripped, keep)
      /\ phase' = "done" /\ file' = file /\ sections' = sections
  BY <1>1 DEF EndOfSections
<1>3. all \in Seq(ChunkSet) /\ file \in Seq(Kinds) /\ next \in Nat
      /\ sections \in Seq(SectionSet(file))
  <2>1. pending \in Short /\ raw \in Seq(FitIn(sections))
    BY DEF Inv, TypeInv
  <2>2. QED
    BY <1>1, <2>1, FlushKeepsInk DEF Inv, TypeInv
<1>4. ASSUME NEW i \in DOMAIN all
      PROVE  /\ all[i].text \in Texts /\ strip(all[i]) \in ChunkSet
             /\ strip(all[i]).text = Strip(all[i].text)
  <2>1. PICK c : c = all[i]
    OBVIOUS
  <2>2. c \in ChunkSet /\ c.text \in Texts /\ Strip(c.text) \in Texts
    BY <1>3, <2>1, InkOfChunks, StripKeepsInk
  <2>3. c = [text |-> c.text, path |-> c.path, from |-> c.from, to |-> c.to]
    BY <2>2 DEF ChunkSet
  <2>4. strip(c) = [text |-> Strip(c.text), path |-> c.path, from |-> c.from, to |-> c.to]
    BY <2>3
  <2>5. strip(c) \in ChunkSet /\ strip(c).text = Strip(c.text)
    BY <2>2, <2>4 DEF ChunkSet
  <2>6. QED
    BY <2>1, <2>2, <2>5
<1> HIDE DEF strip
<1>5. /\ stripped \in Seq(ChunkSet) /\ DOMAIN stripped = DOMAIN all
      /\ \A i \in DOMAIN all : stripped[i] = strip(all[i])
  <2>1. DOMAIN all = 1 .. Len(all) /\ Len(all) \in Nat
    BY <1>3
  <2>2. stripped \in [1 .. Len(all) -> ChunkSet]
    BY <1>4, <2>1
  <2>3. QED
    BY <2>1, <2>2
<1>6. PICK s, k, r : s = stripped /\ k = keep /\ r = Where(s, k)
  OBVIOUS
<1>7. \A i \in DOMAIN s : s[i].text # <<>> => i \in k
  BY <1>6
<1> HIDE DEF stripped, keep
<1>8. ASSUME NEW x \in Texts, Edged(x), InChunk(all, x) PROVE InChunk(r, x)
  <2>1. PICK m \in DOMAIN all : Holds(all[m].text, x)
    BY <1>8 DEF InChunk
  <2>2. PICK t : t = all[m].text
    OBVIOUS
  <2>3. t \in Texts /\ Strip(t) \in Texts
    BY <1>4, <2>2, StripKeepsInk
  <2>4. Holds(Strip(t), x)
    BY <1>8, <2>1, <2>2, <2>3, HoldsInJoin
  <2>5. Strip(t) # <<>>
    BY <1>8, <2>3, <2>4, HoldsInJoin
  <2>6. m \in DOMAIN s /\ s \in Seq(ChunkSet) /\ s[m].text = Strip(t)
    BY <1>4, <1>5, <1>6, <2>2
  <2>7. s[m] \in ToSet(r)
    BY <1>6, <1>7, <2>5, <2>6, WhereHas
  <2>8. QED
    BY <2>4, <2>6, <2>7 DEF InChunk, ToSet
<1>9. ASSUME NEW i \in DOMAIN file, NEW j \in DOMAIN file, SetApart(i, j)
      PROVE  InChunk(r, Passage(i, j))
  <2>1. PICK x : x = Passage(i, j)
    OBVIOUS
  <2>2. file[i] # "blank"
    BY <1>9 DEF SetApart, IsCode, Opens, Fences
  <2>3. PICK n \in DOMAIN sections : i \in ToSet(sections[n].lines)
    BY <1>2, <2>2, LineHasSection
  <2>4. n < next
    BY <1>2, <1>3
  <2>5. Somewhere(raw, pending, x)
    BY <1>2, <1>9, <2>1, <2>3, <2>4 DEF CodeKept
  <2>6. x \in Texts /\ Edged(x)
    BY <1>9, <2>1, <2>3, SetApartStays
  <2>7. InChunk(all, x)
    BY <1>1, <2>5, <2>6, CollectedHolds
  <2>8. QED
    BY <1>8, <2>1, <2>6, <2>7
<1>10. ASSUME NEW i \in DOMAIN file', NEW j \in DOMAIN file', SetApart(i, j)'
       PROVE  InChunk(raw', Passage(i, j)')
  <2>1. SetApart(i, j) /\ Passage(i, j)' = Passage(i, j)
    BY <1>2, <1>10, SameCode
  <2>2. raw' = r
    BY <1>2, <1>6
  <2>3. QED
    BY <1>2, <1>9, <2>1, <2>2
<1>11. phase' # "chunk"
  BY <1>2
<1>12. QED
  BY <1>10, <1>11 DEF CodeKept, InChunk

\* No section has been taken while the note is read.
LEMMA ParsingKeepsCode ==
  ASSUME Inv, phase = "parse", next' = next, phase' \in {"parse", "chunk"},
         sections' \in Seq(SectionSet(file'))
  PROVE  CodeKept'
<1>1. next' = 1 /\ phase' # "done"
  BY DEF Inv, Parsed
<1>2. ASSUME NEW k \in DOMAIN sections' PROVE ~ (k < next')
  <2>1. k \in Nat /\ k # 0
    OBVIOUS
  <2>2. QED
    BY <1>1, <2>1
<1>3. QED
  BY <1>1, <1>2 DEF CodeKept

\* Every step keeps the code that is set apart whole.
LEMMA NextKeepsCode ==
  ASSUME Inv, Inv', Matched, CodeKept, Next
  PROVE  CodeKept'
<1>1. sections' \in Seq(SectionSet(file'))
  BY DEF Inv, TypeInv
<1>2. ASSUME NEW k \in Kinds, ReadHeading(k) \/ ReadLine(k) PROVE CodeKept'
  BY <1>1, <1>2, ParsingKeepsCode DEF ReadHeading, ReadLine
<1>3. CASE EndOfFile
  BY <1>1, <1>3, ParsingKeepsCode DEF EndOfFile
<1>4. CASE SplitNext
  BY <1>4, SplitNextKeepsCode
<1>5. CASE StartNext
  BY <1>5, StartNextKeepsCode
<1>6. CASE AddNext
  BY <1>6, AddNextKeepsCode
<1>7. CASE EndOfSections
  BY <1>7, EndOfSectionsKeepsCode
<1>8. QED
  BY <1>2, <1>3, <1>4, <1>5, <1>6, <1>7 DEF Next

\* A step that changes nothing.
LEMMA NothingChangesTheCode ==
  ASSUME Matched, CodeKept, UNCHANGED vars
  PROVE  Matched' /\ CodeKept'
<1>1. /\ phase' = phase /\ file' = file /\ fence' = fence /\ cur' = cur
      /\ sections' = sections
      /\ next' = next /\ pending' = pending /\ raw' = raw
  BY DEF vars
<1>2. Matched'
  BY <1>1 DEF Matched
<1>3. ASSUME phase' = "chunk", NEW k \in DOMAIN sections', k < next',
             NEW i \in DOMAIN file', NEW j \in DOMAIN file',
             SetApart(i, j)', i \in ToSet(sections'[k].lines)
      PROVE  Somewhere(raw', pending', Passage(i, j)')
  <2>1. SetApart(i, j) /\ Passage(i, j)' = Passage(i, j)
    BY <1>1, <1>3, SameCode
  <2>2. Somewhere(raw, pending, Passage(i, j))
    BY <1>1, <1>3, <2>1 DEF CodeKept
  <2>3. QED
    BY <1>1, <2>1, <2>2
<1>4. ASSUME phase' = "done", NEW i \in DOMAIN file', NEW j \in DOMAIN file', SetApart(i, j)'
      PROVE  InChunk(raw', Passage(i, j)')
  <2>1. SetApart(i, j) /\ Passage(i, j)' = Passage(i, j)
    BY <1>1, <1>4, SameCode
  <2>2. InChunk(raw, Passage(i, j))
    BY <1>1, <1>4, <2>1 DEF CodeKept
  <2>3. QED
    BY <1>1, <2>1, <2>2
<1>5. CodeKept'
  BY <1>3, <1>4 DEF CodeKept, Somewhere, InChunk
<1>6. QED
  BY <1>2, <1>5

\* In every reachable state the sections read are passages of the note between two
\* lines where no fence is open, and the fenced code of the sections taken, if it
\* fits and no prose stands directly above it, is whole in a chunk or in what is
\* pending.
THEOREM CodeInvariant == Spec => [](Matched /\ CodeKept)
<1>1. Init => Matched /\ CodeKept
  <2> SUFFICES ASSUME Init PROVE Matched /\ CodeKept
    OBVIOUS
  <2>1. phase = "parse"
    BY DEF Init
  <2>2. QED
    BY <2>1, InitMatched DEF CodeKept
<1>2. ASSUME Inv, Inv', Matched /\ CodeKept, [Next]_vars PROVE (Matched /\ CodeKept)'
  BY <1>2, NextMatched, NextKeepsCode, NothingChangesTheCode
<1>3. QED
  BY <1>1, <1>2, Invariant, PTL DEF Spec

\* Fenced code that fits is never cut, wherever in the note it stands, if there is
\* nothing, an empty line or other code directly above it: when the note has been
\* chunked, all of it, with both fences, is within one chunk, whatever the note,
\* the length of its lines and the two sizes.
THEOREM CodeIsKeptWhole == Spec => []SetApartCodeIsWhole
<1>1. ASSUME Inv, Matched /\ CodeKept PROVE SetApartCodeIsWhole
  <2> SUFFICES ASSUME Done, NEW i \in DOMAIN file, NEW j \in DOMAIN file, SetApart(i, j)
               PROVE  \E c \in ToSet(raw) : ToSet(Passage(i, j)) \subseteq ToSet(c.text)
    BY DEF SetApartCodeIsWhole, SetApart, Free
  <2>1. PICK m \in DOMAIN raw : Holds(raw[m].text, Passage(i, j))
    BY <1>1 DEF CodeKept, Done, InChunk
  <2>2. PICK c, x : c = raw[m] /\ x = Passage(i, j)
    OBVIOUS
  <2>3. file \in Seq(Kinds) /\ raw \in Seq(ChunkSet)
    BY <1>1, FitsAreChunks DEF Inv, TypeInv
  <2>4. c \in ToSet(raw) /\ c.text \in Texts
    <3>1. c \in ChunkSet
      BY <2>2, <2>3
    <3>2. QED
      BY <2>2, <3>1 DEF ToSet, ChunkSet
  <2>5. x \in Texts
    <3> DEFINE ns == [n \in 1 .. j - i + 1 |-> n + i - 1]
    <3>1. /\ i \in Nat /\ j \in Nat /\ 1 <= i /\ j <= Len(file) /\ i < j /\ Len(file) \in Nat
          /\ DOMAIN file = 1 .. Len(file)
      BY <2>3 DEF SetApart, IsCode
    <3>2. PICK l : l = j - i + 1 /\ l \in Nat
      BY <3>1
    <3>3. \A n \in 1 .. l : n + i - 1 \in DOMAIN file
      BY <3>1, <3>2
    <3>4. ns \in [1 .. l -> DOMAIN file]
      BY <3>2, <3>3
    <3> HIDE DEF ns
    <3>5. ns \in Seq(DOMAIN file)
      BY <3>2, <3>4
    <3>6. JoinLines(ns) \in Texts
      BY <2>3, <3>5, JoinLinesKeepsInk
    <3>7. QED
      BY <2>2, <3>6 DEF Passage, ns
  <2>6. ToSet(x) \subseteq ToSet(c.text)
    BY <2>1, <2>2, <2>4, <2>5, HoldsAll
  <2>7. QED
    BY <2>2, <2>4, <2>6
<1>2. QED
  BY Invariant, CodeInvariant, <1>1, PTL

-----------------------------------------------------------------------------
(***************************************************************************)
(* The blocks that are not split.                                          *)
(***************************************************************************)
\* Two different numbers of a set, if it has two elements.
LEMMA TwoOf ==
  ASSUME NEW S \in SUBSET Int, IsFiniteSet(S), Cardinality(S) >= 2
  PROVE  \E x, y \in S : x < y
<1>1. S # {}
  BY FS_EmptySet
<1>2. PICK x \in S : TRUE
  BY <1>1
<1>3. S # {x}
  BY FS_Singleton
<1>4. PICK y \in S : y # x
  BY <1>1, <1>3
<1>5. x < y \/ y < x
  BY <1>4
<1>6. QED
  BY <1>5

\* What _is_fenced_code_block accepts begins with a fence or has two lines with a
\* tilde.
LEMMA FencedHas ==
  ASSUME file \in Seq(Kinds), NEW i \in DOMAIN file, NEW j \in DOMAIN file, i <= j,
         IsFenced(Lines(i, j))
  PROVE  \/ file[i] \in Fences
         \/ \E m, n \in i .. j : m < n /\ file[m] = "tilde" /\ file[n] = "tilde"
<1>1. PICK l, w : l = Len(file) /\ l \in Nat /\ DOMAIN file = 1 .. l /\ w = Lines(i, j)
  OBVIOUS
<1>2. i \in 1 .. l + 1 /\ j \in i - 1 .. l /\ i \in Int /\ j \in Int
  BY <1>1
<1>3. /\ DOMAIN w = 1 .. j - i + 1
      /\ \A n \in 1 .. j - i + 1 : w[n] = n + i - 1
  <2>1. w = Lines(i, j) /\ l \in Nat
    BY <1>1
  <2>2. QED
    BY <1>2, <2>1, LinesAre
<1>4. CASE file[w[1]] \in Fences
  <2>1. w[1] = i
    BY <1>2, <1>3
  <2>2. QED
    BY <1>4, <2>1
<1>5. CASE Count(w, "tilde") >= 2
  <2> DEFINE S == {q \in DOMAIN w : file[w[q]] = "tilde"}
  <2>1. Cardinality(S) >= 2
    BY <1>5 DEF Count
  <2>2. IsFiniteSet(S) /\ S \in SUBSET Int
    <3>1. IsFiniteSet(1 .. j - i + 1)
      BY <1>2, FS_Interval
    <3>2. QED
      BY <1>3, <3>1, FS_Subset
  <2>3. \A q \in S : q \in 1 .. j - i + 1 /\ file[w[q]] = "tilde"
    BY <1>3
  <2> HIDE DEF S
  <2>4. PICK x, y \in S : x < y
    BY <2>1, <2>2, TwoOf
  <2>5. PICK m, n : m = x + i - 1 /\ n = y + i - 1
    OBVIOUS
  <2>6. m \in i .. j /\ n \in i .. j /\ m < n
    BY <1>2, <2>3, <2>4, <2>5
  <2>7. w[x] = m /\ w[y] = n
    BY <1>3, <2>3, <2>4, <2>5
  <2>8. file[m] = "tilde" /\ file[n] = "tilde"
    BY <2>3, <2>4, <2>7
  <2>9. QED
    BY <2>6, <2>8
<1>6. QED
  BY <1>1, <1>4, <1>5 DEF IsFenced

\* A block that is kept whole is a passage that ends with a whole piece of code.
LEMMA KeptIsCode ==
  ASSUME file \in Seq(Kinds), NEW ns, NEW text, text = JoinLines(ns), IsFenced(ns),
         PlainBlock(ns) \/ CodeBlock(ns)
  PROVE  \E i, o, j \in DOMAIN file :
           /\ text = Passage(i, j)
           /\ i <= o /\ (IsCode(o, j) \/ IsOpenCode(o, j))
           /\ \A n \in i .. o - 1 : file[n] \notin Fences \cup {"blank"}
           /\ \/ i = o
              \/ \E m, n \in i .. j : m < n /\ file[m] = "tilde" /\ file[n] = "tilde"
<1>1. Len(file) \in Nat /\ DOMAIN file = 1 .. Len(file)
  OBVIOUS
<1>2. CASE PlainBlock(ns)
  <2>1. PICK i \in DOMAIN file, j \in DOMAIN file : i <= j /\ ns = Lines(i, j) /\ Plain(i, j)
    BY <1>2 DEF PlainBlock
  <2>2. i \in i .. j
    BY <1>1, <2>1
  <2>3. \A n \in i .. j : file[n] \notin Fences /\ file[n] # "tilde"
    BY <2>1 DEF Plain, Fences
  <2>4. QED
    BY <2>1, <2>2, <2>3, FencedHas
<1>3. CASE CodeBlock(ns)
  <2>1. PICK i \in DOMAIN file, o \in DOMAIN file, j \in DOMAIN file :
          /\ ns = Lines(i, j) /\ i <= o /\ Plain(i, o - 1)
          /\ IsCode(o, j) \/ IsOpenCode(o, j)
    BY <1>3 DEF CodeBlock
  <2>2. o <= j
    BY <1>1, <2>1 DEF IsCode, IsOpenCode
  <2>3. i <= j
    BY <1>1, <2>1, <2>2
  <2>4. \/ file[i] \in Fences
        \/ \E m, n \in i .. j : m < n /\ file[m] = "tilde" /\ file[n] = "tilde"
    BY <2>1, <2>3, FencedHas
  <2>5. file[i] \in Fences => i = o
    <3>1. i = o \/ i \in i .. o - 1
      BY <1>1, <2>1
    <3>2. QED
      BY <2>1, <3>1 DEF Plain
  <2>6. text = Passage(i, j)
    BY <2>1 DEF Passage, Lines
  <2>7. \A n \in i .. o - 1 : file[n] \notin Fences \cup {"blank"}
    BY <2>1 DEF Plain
  <2>8. QED
    BY <2>1, <2>4, <2>5, <2>6, <2>7
<1>4. QED
  BY <1>2, <1>3

\* No chunk is ever longer than max_size, except for a passage of the note that ends
\* with a whole piece of fenced code: the code alone or, if two of its lines are
\* tildes, with the prose directly above it, which _is_fenced_code_block takes for
\* code as well.  Every other text is split by _split_oversized_section.
THEOREM NoneIsTooLong == Spec => []ChunksFit
<1>1. ASSUME Inv, Matched PROVE ChunksFit
  <2>1. file \in Seq(Kinds) /\ sections \in Seq(SectionSet(file))
        /\ raw \in Seq(FitIn(sections))
    BY <1>1 DEF Inv, TypeInv
  <2>2. CASE phase = "parse"
    <3>1. raw = <<>>
      BY <1>1, <2>2 DEF Inv, Parsed
    <3>2. ToSet(raw) = {}
      BY <3>1 DEF ToSet
    <3>3. QED
      BY <3>2 DEF ChunksFit
  <2>3. ASSUME phase # "parse", NEW c \in ToSet(raw), ~ (Len(c.text) <= MaxSize)
        PROVE  \E i, o, j \in DOMAIN file :
                 /\ c.text = Passage(i, j)
                 /\ i <= o /\ (IsCode(o, j) \/ IsOpenCode(o, j))
                 /\ \A n \in i .. o - 1 : file[n] \notin Fences \cup {"blank"}
                 /\ \/ i = o
                    \/ \E m, n \in i .. j : m < n /\ file[m] = "tilde" /\ file[n] = "tilde"
    <3>1. c \in FitIn(sections)
      <4>1. PICK m \in DOMAIN raw : raw[m] = c
        BY DEF ToSet
      <4>2. QED
        BY <2>1, <4>1
    <3>2. PICK s \in ToSet(sections) : KeptCode(c.text, Blocks(s.lines))
      BY <2>3, <3>1 DEF FitIn
    <3>3. PICK b \in ToSet(Blocks(s.lines)) : c.text = JoinLines(b.lines) /\ IsFenced(b.lines)
      BY <3>2 DEF KeptCode
    <3>4. PICK k \in DOMAIN sections : sections[k] = s
      BY DEF ToSet
    <3>5. CutFrom(file, s.lines, TRUE)
      <4>1. (phase # "parse") = TRUE
        BY <2>3
      <4>2. QED
        BY <1>1, <3>4, <4>1 DEF Matched
    <3>6. PICK a \in DOMAIN file, z \in DOMAIN file :
            /\ s.lines = Lines(a, z) /\ a <= z /\ file[z] # "blank"
            /\ OpenIn(file)[a - 1] = "none"
            /\ \/ OpenIn(file)[z] = "none"
               \/ \A n \in z + 1 .. Len(file) : file[n] = "blank"
      BY <3>5 DEF CutFrom
    <3>7. Shaped(Blocks(Lines(a, z)))
      BY <2>1, <3>6, BlocksAreShaped
    <3>8. PICK h \in DOMAIN Blocks(s.lines) : Blocks(s.lines)[h] = b
      BY DEF ToSet
    <3>9. PlainBlock(b.lines) \/ CodeBlock(b.lines)
      BY <3>6, <3>7, <3>8 DEF Shaped
    <3>10. PICK ns, text : ns = b.lines /\ text = c.text
      OBVIOUS
    <3>11. text = JoinLines(ns) /\ IsFenced(ns)
      BY <3>3, <3>10
    <3>12. PlainBlock(ns) \/ CodeBlock(ns)
      BY <3>9, <3>10
    <3>13. \E i, o, j \in DOMAIN file :
             /\ text = Passage(i, j)
             /\ i <= o /\ (IsCode(o, j) \/ IsOpenCode(o, j))
             /\ \A n \in i .. o - 1 : file[n] \notin Fences \cup {"blank"}
             /\ \/ i = o
                \/ \E m, n \in i .. j : m < n /\ file[m] = "tilde" /\ file[n] = "tilde"
      BY <2>1, <3>11, <3>12, KeptIsCode
    <3>14. QED
      BY <3>10, <3>13, Zenon
  <2>4. QED
    BY <2>2, <2>3 DEF ChunksFit
<1>2. QED
  BY Invariant, CodeInvariant, <1>1, PTL
=============================================================================
