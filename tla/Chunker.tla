-------------------------------- MODULE Chunker --------------------------------
(***************************************************************************)
(* Markdown is cut for embedding: at headings, and a section that is too   *)
(* large at its paragraphs, which are packed up to a limit.  A body is a   *)
(* sequence of lines of which only the kind and the size matter; a chunk   *)
(* is a sequence of paragraphs, each the interval of its lines.            *)
(***************************************************************************)
EXTENDS Naturals, Sequences
LOCAL INSTANCE SequencesExt

CONSTANTS BodyLines,  \* the longest body
          SizeOf,     \* the kinds of a line -> its bytes
          Limits      \* values of chunk_max_bytes

Kinds == {"heading", "blank", "short", "long"}

ASSUME ChunkerAssumption ==
    /\ BodyLines \in Nat /\ Limits \subseteq Nat
    /\ SizeOf \in [Kinds -> Nat]

VARIABLES body, limit,
          chunks  \* what chunk_body returned, NotChunked before
chunkerVars == <<body, limit, chunks>>

NotChunked == [returned |-> FALSE]

Ascending(S) == SetToSortSeq(S, LAMBDA a, b : a < b)

Total(bytes) == FoldLeft(LAMBDA sum, b : sum + b, 0, bytes)

IsText(i) == body[i] # "blank"

\* _split_into_sections: from each heading, or the first line, to the next one.
SectionStarts == {i \in DOMAIN body : i = 1 \/ body[i] = "heading"}

SectionEnd(start) ==
    CHOOSE end \in start..Len(body) :
      /\ end = Len(body) \/ end + 1 \in SectionStarts
      /\ \A i \in (start + 1)..end : i \notin SectionStarts

\* Its paragraphs; text.strip() and the split leave no blank line.
Paragraphs(start) ==
    LET lines == start..SectionEnd(start)
        starts == {i \in lines : IsText(i) /\ (i = start \/ ~IsText(i - 1))}
        EndOf(i) == CHOOSE j \in lines :
                      /\ \A k \in i..j : IsText(k)
                      /\ j >= i /\ (j = SectionEnd(start) \/ ~IsText(j + 1))
        seq == Ascending(starts)
    IN [k \in DOMAIN seq |-> <<seq[k], EndOf(seq[k])>>]

\* The bytes of what was stripped: from the first text line to the last, with the
\* blank lines between.
SectionBytes(paragraphs) ==
    LET lines == paragraphs[1][1]..paragraphs[Len(paragraphs)][2]
        seq == Ascending(lines)
    IN Total([k \in DOMAIN seq |-> SizeOf[body[seq[k]]] + 1]) - 1

\* A piece is one paragraph, or the heading's and the one that it is glued to.
Pieces(paragraphs) ==
    IF body[paragraphs[1][1]] = "heading" /\ Len(paragraphs) > 1
    THEN <<SubSeq(paragraphs, 1, 2)>>
           \o [k \in 1..(Len(paragraphs) - 2) |-> <<paragraphs[k + 2]>>]
    ELSE [k \in DOMAIN paragraphs |-> <<paragraphs[k]>>]

LinesIn(paragraph) ==
    [k \in 1..(paragraph[2] - paragraph[1] + 1) |-> paragraph[1] + k - 1]

ParagraphBytes(paragraph) ==
    Total([k \in DOMAIN LinesIn(paragraph) |-> SizeOf[body[LinesIn(paragraph)[k]]] + 1]) - 1

\* Paragraphs of a piece are joined by an empty line: two bytes, two newlines.
PieceBytes(piece) == Total([k \in DOMAIN piece |-> ParagraphBytes(piece[k]) + 2]) - 2
PieceNewlines(piece) == Total([k \in DOMAIN piece |-> piece[k][2] - piece[k][1] + 2]) - 2

Smaller(a, b) == IF a < b THEN a ELSE b

Chunk(start, first, last, pieces) ==
    [heading |-> IF body[start] = "heading" THEN start ELSE 0,
     lineStart |-> first, lineEnd |-> Smaller(last, SectionEnd(start)),
     pieces |-> pieces]

\* As if the buffer were emptied by the piece that does not fit.
DropPiece(start, buffer, piece) ==
    LET end == buffer.first + Total([k \in DOMAIN buffer.pieces |->
                                       PieceNewlines(buffer.pieces[k]) + 2]) - 1
    IN IF buffer.pieces # <<>> /\ buffer.bytes + PieceBytes(piece) > limit
       THEN [out |-> Append(buffer.out, Chunk(start, buffer.first, end, buffer.pieces)),
             pieces |-> <<>>, bytes |-> 0, first |-> end + 1]
       ELSE [buffer EXCEPT !.pieces = Append(@, piece), !.bytes = @ + PieceBytes(piece)]

\* The loop of _split_oversized: the buffer is flushed when the next piece does not
\* fit.  The separators are not counted; the lines are, as if there were one empty
\* line between paragraphs.
AddPiece(start, buffer, piece) ==
    LET end == buffer.first + Total([k \in DOMAIN buffer.pieces |->
                                       PieceNewlines(buffer.pieces[k]) + 2]) - 1
    IN IF buffer.pieces # <<>> /\ buffer.bytes + PieceBytes(piece) > limit
       THEN [out |-> Append(buffer.out, Chunk(start, buffer.first, end, buffer.pieces)),
             pieces |-> <<piece>>, bytes |-> PieceBytes(piece), first |-> end + 1]
       ELSE [buffer EXCEPT !.pieces = Append(@, piece), !.bytes = @ + PieceBytes(piece)]

SplitSection(start) ==
    LET paragraphs == Paragraphs(start)
        whole == [k \in DOMAIN paragraphs |-> <<paragraphs[k]>>]
        full == FoldLeft(LAMBDA buffer, piece : AddPiece(start, buffer, piece),
                         [out |-> <<>>, pieces |-> <<>>, bytes |-> 0, first |-> start],
                         Pieces(paragraphs))
    IN IF paragraphs = <<>> THEN <<>>
       ELSE IF SectionBytes(paragraphs) <= limit
            THEN <<Chunk(start, start, SectionEnd(start), whole)>>
            ELSE Append(full.out, Chunk(start, full.first, SectionEnd(start), full.pieces))

\* chunk_body; a blank body has no chunks.
ChunkBody ==
    /\ chunks = NotChunked
    /\ LET starts == Ascending(SectionStarts)
       IN chunks' = [returned |-> TRUE,
                     list |-> FlattenSeq([k \in DOMAIN starts |-> SplitSection(starts[k])])]
    /\ UNCHANGED <<body, limit>>

ChunkerInit ==
    /\ body \in UNION {[1..n -> Kinds] : n \in 0..BodyLines}
    /\ limit \in Limits
    /\ chunks = NotChunked

ChunkerSpec == ChunkerInit /\ [][ChunkBody]_chunkerVars

-----------------------------------------------------------------------------

ParagraphsOf(chunk) == FlattenSeq(chunk.pieces)

TextLines(chunk) ==
    LET paragraphs == ParagraphsOf(chunk)
    IN FlattenSeq([k \in DOMAIN paragraphs |-> LinesIn(paragraphs[k])])

\* The heading that a reader finds above line i.
HeadingAbove(i) ==
    LET above == {j \in 1..i : body[j] = "heading"}
    IN IF above = {} THEN 0 ELSE CHOOSE j \in above : \A k \in above : k <= j

\* Every line that is not blank is in exactly one chunk, in order, under the heading
\* that is above it; a chunk of several pieces counts no more bytes than the limit;
\* no heading that text follows is alone in a chunk; and
\* the lines that a chunk claims never start after its text, follow those of the
\* chunk before, and are exact where single blank lines separate the paragraphs
\* (chunker.py:54-208).
ChunksPartition ==
    chunks.returned =>
      LET list == chunks.list
          text == {i \in DOMAIN body : IsText(i)}
          Exact == \A i \in DOMAIN body : IsText(i) \/ (i > 1 /\ IsText(i - 1))
      IN /\ FlattenSeq([k \in DOMAIN list |-> TextLines(list[k])]) = Ascending(text)
         /\ \A k \in DOMAIN list :
              LET lines == TextLines(list[k])
                  pieces == list[k].pieces
              IN /\ \A j \in DOMAIN lines : list[k].heading = HeadingAbove(lines[j])
                 /\ Len(pieces) > 1 =>
                      Total([j \in DOMAIN pieces |-> PieceBytes(pieces[j])]) <= limit
                 /\ list[k].lineStart <= lines[1]
                 /\ list[k].lineStart <= list[k].lineEnd
                 /\ k > 1 => list[k - 1].lineEnd < list[k].lineStart
                 /\ Exact => /\ list[k].lineStart = lines[1]
                             /\ list[k].lineEnd >= lines[Len(lines)]
                 /\ lines = <<list[k].heading>> =>
                      \A i \in text : HeadingAbove(i) = lines[1] => i = lines[1]
=============================================================================
