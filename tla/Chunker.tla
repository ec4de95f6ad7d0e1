------------------------------- MODULE Chunker -------------------------------
(***************************************************************************)
(* How the body of a Markdown note becomes chunks: the parser reads it     *)
(* line by line and cuts it into sections at headings outside fenced code; *)
(* the chunker joins small sections and splits those that are too long     *)
(* into blocks, and blocks into pieces.  Both are loops, and a step of     *)
(* this module is one round of them.                                       *)
(*                                                                         *)
(* Abstractions: a line is its kind, and its text that many characters,    *)
(* each known by the number of its line; 0 is a line break.  So a text     *)
(* says where it came from, and its length is what the code compares.      *)
(* Lines have no blanks inside or around, and fence markers one length.    *)
(* Line numbers count from the first line of the body: the front matter,   *)
(* which is cut off before, only shifts them.                              *)
(***************************************************************************)
EXTENDS SequencesExt

CONSTANTS
  Kinds,       \* kinds of lines that a note may have, of those in Kind
  Size,        \* the length of a line of each kind
  TargetSize,  \* a chunk this long is complete
  MaxSize,     \* a chunk is not longer, unless it is one block of code
  MaxLines     \* bound: lines of a note

\* Headings of two levels; prose; prose that ends a sentence; a list item;
\* fences of the two characters; an empty line.
Kind   == {"h1", "h2", "text", "stop", "item", "fence", "tilde", "blank"}
Fences == {"fence", "tilde"}
Level  == [h1 |-> 1, h2 |-> 2]

ASSUME KindsAssumption ==
  /\ Kinds \subseteq Kind
  /\ Size \in [Kinds -> Nat]
  /\ \A k \in Kinds : Size[k] = 0 <=> k = "blank"

\* ChunkingConfig.__post_init__.
ASSUME SizesAssumption ==
  /\ TargetSize \in Nat \ {0} /\ MaxSize \in Nat \ {0} /\ MaxLines \in Nat
  /\ TargetSize <= MaxSize

VARIABLES
  phase,     \* "parse", "chunk" or "done"
  file,      \* the lines read so far
  fence,     \* the fence that is open, or "none"
  stack,     \* the lines of the headings above the current line
  cur,       \* current_lines: the lines of the section that is being read
  start,     \* current_start
  sections,  \* what the parser has cut
  next,      \* the next section to chunk
  pending,   \* the text, heading path and line range that are collected
  raw        \* the chunks so far

vars == <<phase, file, fence, stack, cur, start, sections, next, pending, raw>>

NoLine  == 0
Nothing == [text |-> <<>>, path |-> <<>>, from |-> NoLine, to |-> NoLine]

-----------------------------------------------------------------------------
(***************************************************************************)
(* Texts.                                                                  *)
(***************************************************************************)
\* The part of s between the first and the last position in keep.
Between(s, keep) == IF keep = {} THEN <<>> ELSE SubSeq(s, Min(keep), Max(keep))
Marks(t)  == {i \in DOMAIN t : t[i] # 0}
Strip(t)  == Between(t, Marks(t))
RStrip(t) == Between(t, {i \in DOMAIN t : \E j \in Marks(t) : i <= j})

\* The elements of s at the positions in keep.
Where(s, keep) ==
  FlattenSeq([i \in DOMAIN s |-> IF i \in keep THEN <<s[i]>> ELSE <<>>])

LineText(n) == [i \in 1 .. Size[file[n]] |-> n]

\* "\n".join of lines given by number, and the lines left by strip("\n").
JoinLines(ns) ==
  FlattenSeq([i \in DOMAIN ns |->
                IF i = 1 THEN LineText(ns[i]) ELSE <<0>> \o LineText(ns[i])])
Trim(ns) == Between(ns, {i \in DOMAIN ns : file[ns[i]] # "blank"})

\* _join_blocks: an empty line between two texts.
JoinBlocks(left, right) ==
  IF left = <<>> \/ right = <<>> THEN Strip(left \o right)
  ELSE RStrip(left) \o <<0, 0>> \o Strip(right)

\* A text that has been collected is kept if there is any.
Kept(out, text) == IF text = <<>> THEN out ELSE Append(out, text)

\* The greedy loop that _pack_pattern_splits runs over the atoms of a text.
PackAtom(acc, atom) ==
  LET joined == JoinBlocks(acc.text, atom)
  IN IF acc.text # <<>> /\ Len(joined) > MaxSize
       THEN [out |-> Append(acc.out, acc.text), text |-> atom]
       ELSE [acc EXCEPT !.text = joined]
Pack(atoms) ==
  LET all == FoldLeft(PackAtom, [out |-> <<>>, text |-> <<>>], atoms)
  IN Kept(all.out, all.text)

\* The characters that _BOUNDARY_PATTERNS match: line breaks with an empty line,
\* a line break before a list item, line breaks after the end of a sentence.
Boundary(t, pattern) ==
  LET breaks == DOMAIN t \ Marks(t)
  IN CASE pattern = 1 -> {i \in breaks : {i - 1, i + 1} \cap breaks # {}}
       [] pattern = 2 -> {i \in breaks : i + 1 \in Marks(t) /\ file[t[i + 1]] = "item"}
       [] pattern = 3 -> {i \in breaks : \E j \in Marks(t) :
                            j < i /\ j + 1 .. i \subseteq breaks /\ file[t[j]] = "stop"}

\* The non-empty parts of t between the characters of a pattern.
Atoms(t, pattern) ==
  LET cut == Boundary(t, pattern)
      read(acc, i) ==
        IF i \in cut THEN [out |-> Kept(acc.out, acc.text), text |-> <<>>]
        ELSE [acc EXCEPT !.text = Append(@, t[i])]
      all == FoldLeftDomain(read, [out |-> <<>>, text |-> <<>>], t)
  IN Kept(all.out, all.text)

\* _split_text_by_boundaries: the patterns in turn, then hard cuts.
PackPattern(t, pattern) ==
  IF Len(t) <= MaxSize \/ Len(Atoms(t, pattern)) <= 1 THEN <<t>>
  ELSE Pack(Atoms(t, pattern))
\* Mutant of HardCut: the part after the last full piece is dropped.
HardCutFull(t) ==
  [i \in 1 .. Len(t) \div MaxSize |->
     SubSeq(t, (i - 1) * MaxSize + 1, Min({i * MaxSize, Len(t)}))]
HardCut(t) ==
  [i \in 1 .. (Len(t) + MaxSize - 1) \div MaxSize |->
     SubSeq(t, (i - 1) * MaxSize + 1, Min({i * MaxSize, Len(t)}))]
Refine(pieces, pattern) ==
  FlattenSeq([i \in DOMAIN pieces |-> PackPattern(pieces[i], pattern)])
SplitText(t) ==
  LET packed == Refine(Refine(Refine(<<t>>, 1), 2), 3)
  IN FlattenSeq([i \in DOMAIN packed |-> HardCut(packed[i])])

-----------------------------------------------------------------------------
(***************************************************************************)
(* A section that is too long.                                             *)
(***************************************************************************)
Toggled(open, k) == CASE k \in Fences /\ open = "none" -> k
                      [] k \in Fences /\ open = k -> "none"
                      [] OTHER -> open

\* Mutant of EndsBlock: an empty line ends a block inside a fence as well.
EndsBlockAnywhere(open, k) == k = "blank"
EndsBlock(open, k) == open = "none" /\ k = "blank"

\* _split_blocks_preserving_code: empty lines outside fences and closed fences
\* end a block.  from and to are offsets in the lines of the section.
FlushBlock(acc, end) ==
  [acc EXCEPT !.cur = <<>>,
              !.out = IF Trim(acc.cur) = <<>> THEN @
                      ELSE Append(@, [lines |-> Trim(acc.cur),
                                      from |-> acc.from, to |-> end])]
ReadBlockLine(acc, n, i) ==
  LET k    == file[n]
      open == Toggled(acc.open, k)
      here == [acc EXCEPT !.from = IF acc.cur = <<>> THEN i ELSE @]
      more == [here EXCEPT !.cur = Append(@, n), !.open = open]
  IN IF EndsBlock(acc.open, k) THEN FlushBlock(here, i - 1)
     ELSE IF acc.open # "none" /\ open = "none" THEN FlushBlock(more, i) ELSE more
Blocks(lines) ==
  LET read(acc, i) == ReadBlockLine(acc, lines[i], i)
      all == FoldLeftDomain(read, [out |-> <<>>, cur |-> <<>>, from |-> 1,
                                   open |-> "none"], lines)
  IN FlushBlock(all, Len(lines)).out

Count(ns, kind) == Cardinality({i \in DOMAIN ns : file[ns[i]] = kind})

\* Mutant of IsFenced: prose above a fence does not matter for either kind.
IsFencedAnywhere(ns) == Count(ns, "fence") >= 2 \/ Count(ns, "tilde") >= 2

\* _is_fenced_code_block ("and" binds before "or").
IsFenced(ns) ==
  \/ file[ns[1]] \in Fences /\ Count(ns, "fence") >= 2
  \/ Count(ns, "tilde") >= 2

\* What the loop of _split_oversized_section puts together: a block of code that
\* is too long as it is, other blocks whole or in pieces.  Only the first piece
\* of a block has a first line and only the last one a last line.
BlockUnits(s, b) ==
  LET text == JoinLines(b.lines)
      kept == Len(text) > MaxSize /\ IsFenced(b.lines)
      parts == IF kept THEN <<text>> ELSE SplitText(text)
  IN [i \in DOMAIN parts |->
        [text |-> parts[i], alone |-> kept,
         from |-> IF i = 1 THEN s.from + b.from - 1 ELSE NoLine,
         to   |-> IF i = Len(parts) THEN s.from + b.to - 1 ELSE NoLine]]
Units(s) ==
  LET blocks == Blocks(s.lines)
  IN FlattenSeq([i \in DOMAIN blocks |-> BlockUnits(s, blocks[i])])

\* _valid_line_range.
ValidRange(c) ==
  IF c.from = NoLine \/ c.to = NoLine \/ c.to < c.from
    THEN [c EXCEPT !.from = NoLine, !.to = NoLine] ELSE c

\* _split_oversized_section.
Emitted(c) == IF c.text = <<>> THEN <<>> ELSE <<ValidRange(c)>>
AddUnit(acc, u) ==
  LET joined == JoinBlocks(acc.pend.text, u.text)
      none   == [Nothing EXCEPT !.path = acc.pend.path]
      chunk  == [none EXCEPT !.text = u.text, !.from = u.from, !.to = u.to]
  IN CASE u.alone ->
            [out |-> acc.out \o Emitted(acc.pend) \o <<chunk>>, pend |-> none]
       [] ~u.alone /\ acc.pend.text # <<>> /\ Len(joined) > MaxSize ->
            [out |-> acc.out \o Emitted(acc.pend), pend |-> chunk]
       [] OTHER ->
            [acc EXCEPT !.pend.text = joined, !.pend.to = u.to,
                        !.pend.from = IF @ = NoLine THEN u.from ELSE @]
SplitSection(s) ==
  LET none == [Nothing EXCEPT !.path = s.path]
      all  == FoldLeft(AddUnit, [out |-> <<>>, pend |-> none], Units(s))
  IN all.out \o Emitted(all.pend)

-----------------------------------------------------------------------------
(***************************************************************************)
(* The parser (_parse_sections).                                           *)
(***************************************************************************)
Init ==
  /\ phase = "parse"
  /\ file = <<>> /\ fence = "none" /\ stack = <<>>
  /\ cur = <<>> /\ start = 1 /\ sections = <<>>
  /\ next = 1 /\ pending = Nothing /\ raw = <<>>

\* flush: the section that ends before a heading or with the file.
Flushed(end) ==
  IF Trim(cur) = <<>> THEN sections
  ELSE Append(sections, [lines |-> Trim(cur), path |-> stack, from |-> start, to |-> end])

ReadHeading(k) ==
  LET n == Len(file) + 1
  IN /\ phase = "parse" /\ n <= MaxLines
     /\ k \in DOMAIN Level /\ fence = "none"
     /\ file' = Append(file, k)
     /\ sections' = Flushed(n - 1)
     /\ stack' = LET above == {i \in DOMAIN stack : Level[file[stack[i]]] < Level[k]}
                 IN Append(Where(stack, above), n)
     /\ start' = n
     /\ cur' = <<n>>
     /\ UNCHANGED <<phase, fence, next, pending, raw>>

ReadLine(k) ==
  LET n == Len(file) + 1
  IN /\ phase = "parse" /\ n <= MaxLines
     /\ k \notin DOMAIN Level \/ fence # "none"
     /\ file' = Append(file, k)
     /\ start' = IF cur = <<>> THEN n ELSE start
     /\ cur' = Append(cur, n)
     /\ fence' = Toggled(fence, k)
     /\ UNCHANGED <<phase, stack, sections, next, pending, raw>>

EndOfFile ==
  /\ phase = "parse"
  /\ sections' = Flushed(Len(file))
  /\ cur' = <<>>
  /\ phase' = "chunk"
  /\ UNCHANGED <<file, fence, stack, start, next, pending, raw>>

-----------------------------------------------------------------------------
(***************************************************************************)
(* The chunker (chunk_markdown_document).                                  *)
(***************************************************************************)
Content(s) == JoinLines(s.lines)

Overlong(s) == Len(Content(s)) > MaxSize

Collected == IF pending.text = <<>> THEN <<>> ELSE <<pending>>

\* A long section comes after what was pending.  pending_path stays as it was.
SplitNext ==
  /\ phase = "chunk" /\ next <= Len(sections)
  /\ Overlong(sections[next])
  /\ raw' = raw \o Collected \o SplitSection(sections[next])
  /\ pending' = [Nothing EXCEPT !.path = pending.path]
  /\ next' = next + 1
  /\ UNCHANGED <<phase, file, fence, stack, cur, start, sections>>

\* Mutants of Overflows: the line breaks of the join are not counted; the target
\* is taken for the limit.
OverflowsUnjoined(s) ==
  pending.text # <<>> /\ Len(pending.text \o Content(s)) > MaxSize
OverflowsTarget(s) ==
  pending.text # <<>> /\ Len(JoinBlocks(pending.text, Content(s))) > TargetSize
Overflows(s) ==
  pending.text # <<>> /\ Len(JoinBlocks(pending.text, Content(s))) > MaxSize

StartNext ==
  LET s == sections[next]
  IN /\ phase = "chunk" /\ next <= Len(sections)
     /\ ~Overlong(s) /\ Overflows(s)
     /\ raw' = raw \o Collected
     /\ pending' = [text |-> Content(s), path |-> s.path, from |-> s.from, to |-> s.to]
     /\ next' = next + 1
     /\ UNCHANGED <<phase, file, fence, stack, cur, start, sections>>

\* Mutant of FirstLine: a chunk begins where its last section begins.
FirstLineOfLast(s) == s.from
FirstLine(s) == IF pending.from = NoLine THEN s.from ELSE pending.from

\* The section is added, and the chunk is complete at the target size.
AddNext ==
  LET s == sections[next]
      sum == [text |-> JoinBlocks(pending.text, Content(s)),
              path |-> IF pending.path = <<>> THEN s.path ELSE pending.path,
              from |-> FirstLine(s),
              to   |-> s.to]
      full == Len(sum.text) >= TargetSize
  IN /\ phase = "chunk" /\ next <= Len(sections)
     /\ ~Overlong(s) /\ ~Overflows(s)
     /\ raw' = IF full THEN Append(raw, sum) ELSE raw
     /\ pending' = IF full THEN Nothing ELSE sum
     /\ next' = next + 1
     /\ UNCHANGED <<phase, file, fence, stack, cur, start, sections>>

\* The rest; then texts are stripped, and empty ones get no number.
EndOfSections ==
  /\ phase = "chunk" /\ next > Len(sections)
  /\ LET all == raw \o Collected
         stripped == [i \in DOMAIN all |-> [all[i] EXCEPT !.text = Strip(@)]]
     IN raw' = Where(stripped, {i \in DOMAIN stripped : stripped[i].text # <<>>})
  /\ pending' = Nothing
  /\ phase' = "done"
  /\ UNCHANGED <<file, fence, stack, cur, start, sections, next>>

Next ==
  \/ \E k \in Kinds : ReadHeading(k) \/ ReadLine(k)
  \/ EndOfFile
  \/ SplitNext \/ StartNext \/ AddNext
  \/ EndOfSections

Spec == Init /\ [][Next]_vars

-----------------------------------------------------------------------------
(***************************************************************************)
(* Properties.                                                             *)
(***************************************************************************)
Done   == phase = "done"
Text(c) == Where(c.text, Marks(c.text))
SectionOf(n) == CHOOSE i \in DOMAIN sections : n \in ToSet(sections[i].lines)

\* The chunks hold the whole note: every character once and in order, through
\* the joins, the packing and the cuts of chunker.py.
TextIsKept ==
  Done => FlattenSeq([i \in DOMAIN raw |-> Text(raw[i])])
            = FlattenSeq([n \in DOMAIN file |-> LineText(n)])

\* The fence that is open after each line of a note f, as its reader sees it:
\* sections, blocks and chunks have no part in it.
OpenIn(f) ==
  LET open[n \in 0 .. Len(f)] == IF n = 0 THEN "none" ELSE Toggled(open[n - 1], f[n])
  IN open

Opens(i) == file[i] \in Fences /\ OpenIn(file)[i - 1] = "none"

\* Fenced code of the note from its first line to its last: the next fence of the
\* same kind, or the last line with text if there is none.
IsCode(i, j) ==
  /\ i < j /\ Opens(i) /\ file[j] = file[i]
  /\ \A n \in i + 1 .. j - 1 : file[n] # file[i]
IsOpenCode(i, j) ==
  /\ i <= j /\ Opens(i)
  /\ \A n \in i + 1 .. j : file[n] # file[i]
  /\ \A n \in j + 1 .. Len(file) : file[n] = "blank"

\* The text of the lines from i to j.
Passage(i, j) == JoinLines([n \in 1 .. j - i + 1 |-> n + i - 1])

\* No chunk is longer than max_size, but for one passage of the note that ends
\* with a whole piece of fenced code: the code alone or, if two of the lines are
\* tildes, with the prose that stands directly above it.  The code alone is the
\* "single over-long code block" of docs/ARCHITECTURE.md:188; the prose is there
\* because "and" binds before "or" in chunker.py:239.
ChunksFit ==
  \A c \in ToSet(raw) :
    \/ Len(c.text) <= MaxSize
    \/ \E i, o, j \in DOMAIN file :
         /\ c.text = Passage(i, j)
         /\ i <= o /\ (IsCode(o, j) \/ IsOpenCode(o, j))
         /\ \A n \in i .. o - 1 : file[n] \notin Fences \cup {"blank"}
         /\ \/ i = o
            \/ \E m, n \in i .. j : m < n /\ file[m] = "tilde" /\ file[n] = "tilde"

\* A chunk of whole sections only.
IsWhole(c) ==
  Text(c) # <<>> /\ \A n \in ToSet(Text(c)) : ~Overlong(sections[SectionOf(n)])

\* The joining is greedy: between two chunks of whole sections the first has
\* reached the target size or had no room for the next section.
NoNeedlessCut ==
  \A i \in DOMAIN raw :
    i + 1 \in DOMAIN raw /\ IsWhole(raw[i]) /\ IsWhole(raw[i + 1]) =>
      \/ Len(raw[i].text) >= TargetSize
      \/ LET s == sections[SectionOf(Head(Text(raw[i + 1])))]
         IN Len(JoinBlocks(raw[i].text, Content(s))) > MaxSize

\* The line range of a chunk of whole sections is that of its sections.
WholeSectionsAreLocated ==
  \A c \in ToSet(raw) : IsWhole(c) =>
    /\ c.from = sections[SectionOf(Head(Text(c)))].from
    /\ c.to = sections[SectionOf(Last(Text(c)))].to

\* Fenced code that fits into a chunk is in one chunk from its first line to its
\* last, empty lines included, wherever it is in the note, if no prose stands
\* directly above it: it comes first, after an empty line, or after other code.
SetApartCodeIsWhole ==
  Done => \A i, j \in DOMAIN file :
    /\ IsCode(i, j) /\ Len(Passage(i, j)) <= MaxSize
    /\ i = 1 \/ file[i - 1] \in Fences \cup {"blank"}
    => \E c \in ToSet(raw) : ToSet(Passage(i, j)) \subseteq ToSet(c.text)
=============================================================================
