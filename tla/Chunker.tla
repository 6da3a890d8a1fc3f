------------------------------ MODULE Chunker ------------------------------
(***************************************************************************)
(* Splitting a document into chunks for retrieval (rag/chunker.py).        *)
(*                                                                         *)
(* A document is a sequence of lines, each with its kind and its number of *)
(* words (one token is one word).  A piece is a sequence of line numbers,  *)
(* a chunk a sequence of pieces under an optional heading: so "which text  *)
(* is in which chunk" is exact, while wording and character offsets are    *)
(* left out.  The document grows by one line per step; the chunks are a    *)
(* function of it.                                                         *)
(***************************************************************************)
EXTENDS Integers, Sequences, SequencesExt, Folding

CONSTANTS
    ChunkSize,    \* chunk_size, in words
    Overlap,      \* chunk_overlap, in words
    LineWords,    \* lengths a line may have
    MaxLines      \* bound: lines of a document

ASSUME ChunkerAssumption ==
    /\ ChunkSize \in Nat /\ Overlap \in Nat /\ Overlap < ChunkSize
    /\ LineWords \subseteq Nat /\ MaxLines \in Nat

VARIABLES docKind, text

chunkVars == <<docKind, text>>

\* What a line may be, by the extension of its file.
LineKinds == [markdown |-> {"blank", "text", "heading", "fence"},
              plain    |-> {"blank", "text"},
              python   |-> {"blank", "text", "def", "body"},
              code     |-> {"blank", "text", "def"}]

Line == DOMAIN text
Piece == Seq(Line)
IsBlank(i) == text[i].kind = "blank"
Lines == [i \in Line |-> i]
Words(lines) == Total([i \in Line |-> text[i].words], lines)
PieceWords(pieces) == Words(Joined(pieces, Line))

ChunkInit == docKind \in DOMAIN LineKinds /\ text = <<>>

\* An indented line continues a definition.
AddLine ==
    /\ Len(text) < MaxLines
    /\ \E kind \in LineKinds[docKind], words \in LineWords :
        /\ (kind = "blank") = (words = 0)
        /\ kind = "body" => text # <<>> /\ Last(text).kind \in {"def", "body"}
        /\ text' = Append(text, [kind |-> kind, words |-> words])
    /\ UNCHANGED docKind

ChunkNext == AddLine

ChunkSpec == ChunkInit /\ [][ChunkNext]_chunkVars

-----------------------------------------------------------------------------
\* Faulty: everything is carried into the next chunk.
CarriedAll(pieces) == pieces

\* The last pieces of a chunk that are worth at most Overlap words.
Carried(pieces) ==
    LET Start(k) == SubSeq(pieces, k, Len(pieces))
    IN  Start(CHOOSE k \in 1..(Len(pieces) + 1) :
                /\ PieceWords(Start(k)) <= Overlap
                /\ \A j \in 1..(k - 1) : PieceWords(Start(j)) > Overlap)

\* _merge_splits: a piece is added to the last chunk while it fits there, else it
\* opens another.
MergeSplits(pieces) ==
    LET Add(piece, chunks) ==
            IF chunks = <<>> THEN << <<piece>> >>
            ELSE IF PieceWords(Append(Last(chunks), piece)) > ChunkSize
                 THEN Append(chunks, Append(Carried(Last(chunks)), piece))
            ELSE [chunks EXCEPT ![Len(chunks)] = Append(@, piece)]
    IN  Fold([p \in Piece |-> [chunks \in Seq(Seq(Piece)) |-> Add(p, chunks)]], <<>>, pieces)

\* The pieces that begin at the lines in cuts, blank ones dropped.
SegmentsAt(cuts) ==
    LET Add(i, segments) ==
            IF segments = <<>> \/ i \in cuts THEN Append(segments, <<i>>)
            ELSE [segments EXCEPT ![Len(segments)] = Append(@, i)]
        all == Fold([i \in Line |-> [segments \in Seq(Piece) |-> Add(i, segments)]], <<>>, Lines)
    IN  Kept(all, Piece, {s \in Piece : \E k \in DOMAIN s : ~IsBlank(s[k])})

Plain(pieces) ==
    LET chunks == MergeSplits(pieces)
    IN  [k \in DOMAIN chunks |-> [heading |-> 0, pieces |-> chunks[k]]]

\* TextChunker: paragraphs, a long one by its sentences (here: its lines).
Sentences(para) == IF Words(para) > ChunkSize THEN [k \in DOMAIN para |-> <<para[k]>>] ELSE <<para>>

TextChunks ==
    LET cuts == {i \in 2..Len(text) : IsBlank(i) \/ IsBlank(i - 1)}
    IN  Plain(Gathered([para \in Piece |-> Sentences(para)], SegmentsAt(cuts), Piece))

\* Source code: a new segment at every definition; Python also ends one where
\* the definition ends.  A Python file that does not parse is cut like the rest.
CodeChunks ==
    LET Parses == \A i \in DOMAIN text : text[i].kind = "def" =>
                     i < Len(text) /\ text[i + 1].kind = "body"
        defs == {i \in DOMAIN text : text[i].kind = "def"}
        ends == {i \in 2..Len(text) :
                   text[i - 1].kind \in {"def", "body"} /\ text[i].kind # "body"}
        segments == SegmentsAt(IF docKind = "python" /\ Parses THEN defs \cup ends ELSE defs)
    IN  Plain(IF segments = <<>> THEN <<Lines>> ELSE segments)

-----------------------------------------------------------------------------
\* _split_by_headings: a section for every heading line, fenced or not.
Section == [heading : Nat, body : Piece]

Sections ==
    LET Add(i, parts) ==
            IF text[i].kind = "heading" THEN Append(parts, [heading |-> i, body |-> <<>>])
            ELSE IF parts = <<>> THEN <<[heading |-> 0, body |-> <<i>>]>>
            ELSE [parts EXCEPT ![Len(parts)].body = Append(@, i)]
    IN  Fold([i \in Line |-> [parts \in Seq(Section) |-> Add(i, parts)]], <<>>, Lines)

\* _paragraph_split: blank lines separate blocks, except inside a fence.
Paragraphs(body) ==
    LET State == [blocks : Seq(Piece), current : Piece, inside : BOOLEAN]
        Add(i, st) ==
            LET inside == IF text[i].kind = "fence" THEN ~st.inside ELSE st.inside
            IN  IF ~inside /\ IsBlank(i) /\ st.current # <<>>
                THEN [blocks |-> Append(st.blocks, st.current), current |-> <<>>,
                      inside |-> inside]
                ELSE [st EXCEPT !.current = Append(@, i), !.inside = inside]
        end == Fold([i \in Line |-> [st \in State |-> Add(i, st)]],
                    [blocks |-> <<>>, current |-> <<>>, inside |-> FALSE], body)
    IN  IF end.current = <<>> THEN end.blocks ELSE Append(end.blocks, end.current)

\* MarkdownChunker and ObsidianChunker: a section is one chunk when it fits,
\* else the chunks of its paragraphs, each with the heading in front.
Chunk == [heading : Nat, pieces : Seq(Piece)]

SectionChunks(section) ==
    LET head == IF section.heading = 0 THEN <<>> ELSE <<section.heading>>
        whole == head \o section.body
        sub == MergeSplits(Paragraphs(section.body))
    IN  IF \A k \in DOMAIN whole : IsBlank(whole[k]) THEN <<>>
        ELSE IF Words(whole) <= ChunkSize
             THEN <<[heading |-> section.heading, pieces |-> <<section.body>>]>>
        ELSE [k \in DOMAIN sub |-> [heading |-> section.heading, pieces |-> sub[k]]]

MarkdownChunks == Gathered([section \in Section |-> SectionChunks(section)], Sections, Chunk)

\* DocumentIngester._chunk_file
Chunks == CASE docKind = "markdown" -> MarkdownChunks
            [] docKind = "plain" -> TextChunks
            [] OTHER -> CodeChunks

-----------------------------------------------------------------------------
ChunkTypeOK ==
    /\ docKind \in DOMAIN LineKinds
    /\ text \in Seq([kind : LineKinds[docKind], words : LineWords]) /\ Len(text) <= MaxLines

\* The text of a chunk: the heading, which every chunk of a long section has in
\* front, and the lines.
Heading(chunk) == IF chunk.heading = 0 THEN <<>> ELSE <<chunk.heading>>
LinesOf(chunk) == Joined(chunk.pieces, Line)
TextOf(chunk) == Heading(chunk) \o LinesOf(chunk)

\* Lines that reach no chunk: a heading longer than a chunk with nothing under it.
LostHeading(i) ==
    /\ text[i].kind = "heading" /\ text[i].words > ChunkSize
    /\ i = Len(text) \/ text[i + 1].kind = "heading"

\* Line i comes after heading h (after none if h is 0) and before the next heading.
StandsUnder(i, h) ==
    /\ h < i /\ (h = 0 \/ text[h].kind = "heading")
    /\ \A j \in (h + 1) .. i : text[j].kind # "heading"

(***************************************************************************)
(* Chunking loses no text and bounds what it repeats.  Every line that is  *)
(* not blank is in the text of a chunk; a chunk has its lines in the order *)
(* of the document, each under the heading it is given, and ends after the *)
(* one before.  Apart from the heading in front, a chunk is longer than    *)
(* ChunkSize only when one piece comes after a carry of at most Overlap    *)
(* words.  It repeats at most Overlap words of the chunk before and, when  *)
(* both are of one section, the heading.                                   *)
(***************************************************************************)
ChunksAreSound ==
    LET chunks == Chunks
        Again(k) == Kept(TextOf(chunks[k]), Line, Range(TextOf(chunks[k - 1])))
        HeadAgain(k) == IF chunks[k].heading = chunks[k - 1].heading
                        THEN Words(Heading(chunks[k])) ELSE 0
    IN  /\ \A i \in Line : IsBlank(i) \/ LostHeading(i) \/
              \E k \in DOMAIN chunks : i \in Range(TextOf(chunks[k]))
        /\ \A k \in DOMAIN chunks : LET whole == TextOf(chunks[k]) IN
              /\ \A m \in 1..(Len(whole) - 1) : whole[m] < whole[m + 1]
              /\ \A i \in Range(LinesOf(chunks[k])) : StandsUnder(i, chunks[k].heading)
              /\ Words(whole) > ChunkSize + Words(Heading(chunks[k])) =>
                    PieceWords(Front(chunks[k].pieces)) <= Overlap
              /\ k > 1 =>
                    /\ whole # <<>> /\ TextOf(chunks[k - 1]) # <<>> =>
                          Last(whole) > Last(TextOf(chunks[k - 1]))
                    /\ Words(Again(k)) <= Overlap + HeadAgain(k)

=============================================================================
