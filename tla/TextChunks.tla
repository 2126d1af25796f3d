------------------------------- MODULE TextChunks -------------------------------
(***************************************************************************)
(* How the text of a document becomes chunks: the chunker walks over the   *)
(* paragraphs of the cleaned text and the chunks are stored in batches.  A *)
(* paragraph is what the control looks at: its length, whether it begins   *)
(* with a page marker and whether it is a heading.  A chunk is the place   *)
(* in the text it claims to be, the length of its content, its page and    *)
(* its section.                                                            *)
(***************************************************************************)
EXTENDS Integers, Sequences

CONSTANTS
  ChunkSize, Overlap, MinChunk, MaxChunk,   \* the arguments of iter_text_chunks
  CutWindow,       \* how far before a cut _find_boundary looks
  MarkerLength,    \* characters of a page marker
  StoreBatch,      \* CHUNK_PERSIST_BATCH_SIZE
  Lengths,         \* bound: lengths of paragraphs
  MaxText          \* bound: paragraphs begin before this place

ASSUME ChunkSizes ==
  /\ Lengths \subseteq Nat \ {0} /\ MaxText \in Nat /\ StoreBatch \in Nat \ {0}
  /\ MarkerLength \in Nat \ {0} /\ CutWindow \in Nat \ {0} /\ Overlap \in Nat
  /\ MinChunk \in Nat /\ ChunkSize \in Nat \ {0} /\ MaxChunk \in Nat
  /\ Overlap > 1 /\ Overlap + CutWindow + 1 < ChunkSize
  /\ MinChunk <= ChunkSize /\ ChunkSize <= MaxChunk

VARIABLES
  phase,       \* "read" paragraphs, "split" a long one, "done"
  text,        \* the paragraphs so far
  cursor,      \* where the next one begins
  parts,       \* current_parts: [length, start, end]
  page, section,  \* current_page, current_section
  from,        \* start in _split_long_text
  chunks,      \* the chunks that were yielded
  persisted    \* how many of them were flushed

chunkVars == <<phase, text, cursor, parts, page, section, from, chunks, persisted>>

-----------------------------------------------------------------------------
NoPage == 0
NoSection == 0

\* clean_text leaves one blank line between paragraphs and none at their ends.
Gap == 2
NoParts == [length |-> 0, start |-> 0, end |-> 0]
Smaller(x, y) == IF x < y THEN x ELSE y
Larger(x, y) == IF x < y THEN y ELSE x

Joined(length) == IF parts.length = 0 THEN length ELSE parts.length + Gap + length

\* _build_chunk of current_parts.
Built == [start |-> parts.start, end |-> parts.end, chars |-> parts.length,
          page |-> page, section |-> section]
Flushed == IF parts.length = 0 THEN chunks ELSE Append(chunks, Built)

\* The lengths _tail_overlap can return: after the first sentence that ends in the
\* tail, or all of it.
Tails == IF parts.length <= Overlap THEN {0} ELSE 1 .. Overlap

\* recreate_document_chunks: a batch that is full is flushed when its last chunk comes.
Store(cs) == /\ chunks' = cs
             /\ persisted' = (Len(cs) \div StoreBatch) * StoreBatch

\* The paragraph of the given length after the marker, if there is one.
Paragraph(marker, heading, length) ==
  [start |-> cursor + (IF marker THEN MarkerLength ELSE 0), length |-> length,
   page |-> IF marker THEN Len(text) + 1 ELSE page,
   section |-> IF heading THEN Len(text) + 1 ELSE IF marker THEN NoSection ELSE section]
Seen(p) ==
  /\ text' = Append(text, p)
  /\ cursor' = p.start + p.length + Gap
  /\ page' = p.page /\ section' = p.section

More == phase = "read" /\ cursor < MaxText

\* A marker with nothing behind it ends the chunk and begins a page.
ReadMarker ==
  /\ More
  /\ Store(Flushed) /\ parts' = NoParts
  /\ Seen(Paragraph(TRUE, FALSE, 0))
  /\ UNCHANGED <<phase, from>>

\* A marker or a heading ends the chunk before it.
ReadBreak(marker, heading, length) ==
  LET p == Paragraph(marker, heading, length) IN
  /\ More /\ (marker \/ heading) /\ length <= MaxChunk
  /\ Store(Flushed)
  /\ parts' = [length |-> length, start |-> p.start, end |-> p.start + length]
  /\ Seen(p)
  /\ UNCHANGED <<phase, from>>

ReadLong(marker, heading, length) ==
  /\ More /\ length > MaxChunk
  /\ Store(Flushed) /\ parts' = NoParts
  /\ Seen(Paragraph(marker, heading, length))
  /\ phase' = "split" /\ from' = 0

\* Neither long nor a break: it joins the parts, or they are full and it begins new
\* ones, after what they end with.
TooLong(length) ==
  /\ parts.length > 0 /\ Joined(length) > ChunkSize
  /\ parts.length >= MinChunk \/ Joined(length) > MaxChunk

JoinParagraph(length) ==
  LET p == Paragraph(FALSE, FALSE, length) IN
  /\ More /\ length <= MaxChunk /\ ~TooLong(length)
  /\ Store(chunks)
  /\ parts' = [length |-> Joined(length), end |-> p.start + length,
               start |-> IF parts.length = 0 THEN p.start ELSE parts.start]
  /\ Seen(p)
  /\ UNCHANGED <<phase, from>>

\* Mutant of NextParts: the whole overlap is taken for the place of its tail.
NextPartsAtOverlap(tail, p) ==
  [length |-> tail + Gap + p.length, end |-> p.start + p.length,
   start |-> Larger(parts.end - Overlap, parts.start)]

NextParts(tail, p) ==
  [length |-> IF tail = 0 THEN p.length ELSE tail + Gap + p.length, end |-> p.start + p.length,
   start |-> IF tail = 0 THEN p.start ELSE Larger(parts.end - tail, parts.start)]

StartOver(length, tail) ==
  LET p == Paragraph(FALSE, FALSE, length) IN
  /\ More /\ length <= MaxChunk /\ TooLong(length)
  /\ tail \in Tails
  /\ Store(Flushed)
  /\ parts' = NextParts(tail, p)
  /\ Seen(p)
  /\ UNCHANGED <<phase, from>>

-----------------------------------------------------------------------------
(* _split_long_text of the paragraph read last.                            *)

Long == text[Len(text)]
Target == Smaller(from + ChunkSize, Long.length)

\* Behind the last sentence of the window, or the target.
Cuts == IF Target = Long.length THEN {Target}
        ELSE (Larger(from, Target - CutWindow) + 1) .. Target

\* White space at a cut is stripped: the cleaned text has one character of it at most.
Piece(end, leading, trailing) ==
  [start |-> Long.start + from + leading, end |-> Long.start + end - trailing,
   chars |-> end - trailing - (from + leading), page |-> page, section |-> section]

SplitLong(end, leading, trailing) ==
  /\ phase = "split" /\ end \in Cuts
  /\ leading = 1 => from > 0
  /\ trailing = 1 => end < Long.length
  /\ Store(Append(chunks, Piece(end, leading, trailing)))
  /\ IF end >= Long.length THEN phase' = "read" /\ from' = 0
     ELSE phase' = phase /\ from' = Larger(end - Overlap, from + 1)
  /\ UNCHANGED <<text, cursor, parts, page, section>>

\* The end of the text: the parts that are left, the batch that is left.
EndText ==
  /\ phase = "read" /\ text # <<>>
  /\ phase' = "done" /\ parts' = NoParts
  /\ chunks' = Flushed /\ persisted' = Len(Flushed)
  /\ UNCHANGED <<text, cursor, page, section, from>>

-----------------------------------------------------------------------------
ChunksInit ==
  /\ phase = "read" /\ text = <<>> /\ cursor = 0 /\ parts = NoParts
  /\ page = NoPage /\ section = NoSection /\ from = 0
  /\ chunks = <<>> /\ persisted = 0

ChunksNext ==
  \/ ReadMarker \/ EndText
  \/ \E length \in Lengths :
       \/ \E marker, heading \in BOOLEAN :
            ReadBreak(marker, heading, length) \/ ReadLong(marker, heading, length)
       \/ JoinParagraph(length)
       \/ \E tail \in 0 .. Overlap : StartOver(length, tail)
  \/ \E end \in (from + 1) .. (from + ChunkSize), leading, trailing \in 0 .. 1 :
       SplitLong(end, leading, trailing)

ChunksSpec == ChunksInit /\ [][ChunksNext]_chunkVars

-----------------------------------------------------------------------------
(* Properties.                                                             *)

\* Types of every variable.
ChunksTypeOK ==
  /\ phase \in {"read", "split", "done"} /\ cursor \in Nat /\ from \in Nat
  /\ page \in Nat /\ section \in Nat /\ persisted \in Nat
  /\ parts \in [length : Nat, start : Nat, end : Nat]
  /\ text \in Seq([start : Nat, length : Nat, page : Nat, section : Nat])
  /\ chunks \in Seq([start : Nat, end : Nat, chars : Nat, page : Nat, section : Nat])

Holds(c, at) == c.start <= at /\ at < c.end
Overlapping(c, p) == c.start < p.start + p.length /\ p.start < c.end

\* A chunk is where it claims to be: as long as the text between its offsets, on the
\* page and in the section it names.
RightPlace(c) ==
  /\ c.chars = c.end - c.start
  /\ \A i \in 1 .. Len(text) :
       Overlapping(c, text[i]) => c.page = text[i].page /\ c.section = text[i].section

\* The limit is exceeded by no more than what the chunk repeats of the one before.
Bounded(c) == 0 < c.chars /\ c.chars <= MaxChunk + Overlap + Gap

\* Chunks follow each other, and each brings something new.
InOrder(c, next) == c.start < next.start /\ c.end < next.end

\* Nothing is lost: every character of a paragraph is in a chunk, and every chunk stored.
AllStored ==
  /\ persisted = Len(chunks)
  /\ \A i \in 1 .. Len(text) :
       \A at \in text[i].start .. (text[i].start + text[i].length - 1) :
         \E k \in 1 .. Len(chunks) : Holds(chunks[k], at)

\* Citations open the text at the offsets of a chunk: whatever the lengths, pages,
\* headings and cuts, chunks are where they claim to be, bounded and in order, and
\* together they are the whole text.
ChunksFaithful ==
  /\ \A k \in 1 .. Len(chunks) : RightPlace(chunks[k]) /\ Bounded(chunks[k])
  /\ \A k \in 1 .. Len(chunks) - 1 : InOrder(chunks[k], chunks[k + 1])
  /\ phase = "done" => AllStored

=============================================================================
