------------------------------- MODULE Chunker -------------------------------
(***************************************************************************)
(* chunk_text of retrieval/chunker.py: a circular is cut into overlapping  *)
(* windows of paragraphs, and a paragraph that is too large into windows   *)
(* of its sentences.  One iteration of a loop is one step.                 *)
(*                                                                         *)
(* A text is the sequence of its paragraphs; each has the token counts of  *)
(* its sentences and is short if it has at most 20 characters.  Short ones *)
(* are dropped before the loop.  The rest is known by where its paragraphs *)
(* end.  A position is a number of sentences from the start; doc.ends[i]   *)
(* is the position after paragraph i and doc.offset[s] the number of       *)
(* tokens before position s.  Windows grow by the next element             *)
(* and shrink from the front, so that a list of consecutive elements is    *)
(* the pair of its ends.  current_tokens is the difference of two offsets, *)
(* and chunk_index the number of chunks so far.  Token counts are taken to *)
(* be additive over the sentences of a paragraph.  Citation data (section, *)
(* character offsets) is left out.                                         *)
(***************************************************************************)
EXTENDS Integers, Sequences

CONSTANTS
    Texts,         \* texts, with whitespace normalised
    ChunkSize,     \* chunk_size_tokens
    Overlap,       \* overlap_tokens
    MinChunk,      \* MIN_CHUNK_SIZE_TOKENS
    Joint          \* tokens that "\n\n" adds between two paragraphs

\* _split_into_paragraphs, and the sentences of what it keeps: the paragraphs
\* that are not short, in their order.
Split(text) ==
    LET origin == SelectSeq([p \in 1..Len(text) |-> p], LAMBDA p : ~text[p].short)
        joined[i \in 0..Len(origin)] ==
            IF i = 0 THEN <<>> ELSE joined[i - 1] \o text[origin[i]].tokens
        tokens == joined[Len(origin)]
        before[s \in 0..Len(tokens)] == IF s = 0 THEN 0 ELSE before[s - 1] + tokens[s]
    IN [text |-> text,
        paragraphs |-> Len(origin),
        origin |-> origin,
        ends |-> [i \in 0..Len(origin) |-> Len(joined[i])],
        offset |-> before]

\* Positions and offsets are in order, since no sentence is empty; what is not
\* short is there, with all its sentences.
IsDocument(d) ==
    /\ DOMAIN d = {"text", "paragraphs", "origin", "ends", "offset"}
    /\ d.paragraphs \in Nat
    /\ d.ends \in [0..d.paragraphs -> Nat]
    /\ d.ends[0] = 0
    /\ \A i, j \in 0..d.paragraphs : i < j => d.ends[i] < d.ends[j]
    /\ d.offset \in [0..d.ends[d.paragraphs] -> Nat]
    /\ \A s, t \in 0..d.ends[d.paragraphs] : s < t => d.offset[s] < d.offset[t]
    /\ \A p \in 1..Len(d.text) : d.text[p].short \/
          \E q \in 1..d.paragraphs :
              /\ d.origin[q] = p
              /\ d.ends[q] - d.ends[q - 1] = Len(d.text[p].tokens)

ASSUME TextsSplit == \A text \in Texts : IsDocument(Split(text))
ASSUME SizesType == /\ ChunkSize \in Nat /\ Overlap \in Nat
                    /\ MinChunk \in Nat /\ Joint \in Nat
\* As the defaults are, 50, 128 and 512, and no caller passes others.
ASSUME SizesOrdered == 0 < MinChunk /\ MinChunk <= Overlap /\ Overlap <= ChunkSize

VARIABLES
    doc,           \* the text, normalised and split
    paras,         \* paragraphs the loop is through with
    kept,          \* current_paras are paragraphs kept + 1 to paras
    splitting,     \* _chunk_large_paragraph is at work on the next paragraph
    sents,         \* position it has reached
    keptSent,      \* current_sents are sentences keptSent + 1 to sents
    chunks,        \* what is returned
    done

vars == <<doc, paras, kept, splitting, sents, keptSent, chunks, done>>

Init ==
    /\ \E text \in Texts : doc = Split(text)
    /\ paras = 0
    /\ kept = 0
    /\ splitting = FALSE
    /\ sents = 0
    /\ keptSent = 0
    /\ chunks = <<>>
    /\ done = FALSE

-----------------------------------------------------------------------------
Paragraphs == doc.paragraphs
End == doc.ends[Paragraphs]

\* Tokens of the sentences, and of the paragraphs, between two positions.
SentTokens(a, b) == doc.offset[b] - doc.offset[a]
ParaTokens(i, j) == SentTokens(doc.ends[i], doc.ends[j])

\* tokens > chunk_size_tokens
Large(i) == ParaTokens(i - 1, i) > ChunkSize

\* The overlap of window lo..hi is k..hi: going backwards, an element is kept
\* while those after it have not used up the budget.
Keeps(size(_, _), lo, hi, k) ==
    /\ k < hi => size(k + 1, hi) < Overlap
    /\ k > lo => size(k, hi) >= Overlap

\* _make_chunk, and its like for sentences: nothing comes of a short window.
Emitted(from, to, tokens) ==
    IF tokens < MinChunk THEN chunks ELSE Append(chunks, [from |-> from, to |-> to])

\* The window of paragraphs, joined with blank lines.
EmittedParas(i, j) ==
    Emitted(doc.ends[i], doc.ends[j], ParaTokens(i, j) + Joint * (j - i - 1))

\* "Flush current window": not for an empty one.
Flushed == IF kept < paras THEN EmittedParas(kept, paras) ELSE chunks

-----------------------------------------------------------------------------
(***************************************************************************)
(* chunk_text                                                              *)
(***************************************************************************)

AtParagraph == ~splitting /\ paras < Paragraphs

\* The paragraph fits, and the window is not full yet.
AddParagraph ==
    /\ AtParagraph
    /\ ~Large(paras + 1)
    /\ ParaTokens(kept, paras + 1) < ChunkSize
    /\ paras' = paras + 1
    /\ UNCHANGED <<doc, kept, splitting, sents, keptSent, chunks, done>>

\* Mutant: the next window starts with no overlap.
FillWindowAfresh ==
    /\ AtParagraph
    /\ ~Large(paras + 1)
    /\ ParaTokens(kept, paras + 1) >= ChunkSize
    /\ paras' = paras + 1
    /\ chunks' = EmittedParas(kept, paras + 1)
    /\ kept' = paras + 1
    /\ UNCHANGED <<doc, splitting, sents, keptSent, done>>

\* The window is full: it is emitted, and the next one starts with the overlap.
FillWindow ==
    /\ AtParagraph
    /\ ~Large(paras + 1)
    /\ ParaTokens(kept, paras + 1) >= ChunkSize
    /\ paras' = paras + 1
    /\ chunks' = EmittedParas(kept, paras + 1)
    /\ \E k \in kept..paras + 1 :
        /\ Keeps(ParaTokens, kept, paras + 1, k)
        /\ kept' = k
    /\ UNCHANGED <<doc, splitting, sents, keptSent, done>>

\* Mutant: the window before a large paragraph is dropped.
OpenLargeParagraphUnflushed ==
    /\ AtParagraph
    /\ Large(paras + 1)
    /\ kept' = paras
    /\ splitting' = TRUE
    /\ sents' = doc.ends[paras]
    /\ keptSent' = doc.ends[paras]
    /\ UNCHANGED <<doc, paras, chunks, done>>

\* The paragraph is too large: the window is flushed, and begins anew after it.
OpenLargeParagraph ==
    /\ AtParagraph
    /\ Large(paras + 1)
    /\ chunks' = Flushed
    /\ kept' = paras
    /\ splitting' = TRUE
    /\ sents' = doc.ends[paras]
    /\ keptSent' = doc.ends[paras]
    /\ UNCHANGED <<doc, paras, done>>

\* The loop is over.
Finish ==
    /\ ~splitting
    /\ paras = Paragraphs
    /\ ~done
    /\ chunks' = Flushed
    /\ done' = TRUE
    /\ UNCHANGED <<doc, paras, kept, splitting, sents, keptSent>>

-----------------------------------------------------------------------------
(***************************************************************************)
(* _chunk_large_paragraph                                                  *)
(***************************************************************************)

AtSentence == splitting /\ sents < doc.ends[paras + 1]

\* A sentence is added, and the window is not full yet.
AddSentence ==
    /\ AtSentence
    /\ SentTokens(keptSent, sents + 1) < ChunkSize
    /\ sents' = sents + 1
    /\ UNCHANGED <<doc, paras, kept, splitting, keptSent, chunks, done>>

\* The window is full; as in FillWindow.
FillSentences ==
    /\ AtSentence
    /\ SentTokens(keptSent, sents + 1) >= ChunkSize
    /\ sents' = sents + 1
    /\ chunks' = Emitted(keptSent, sents + 1, SentTokens(keptSent, sents + 1))
    /\ \E k \in keptSent..sents + 1 :
        /\ Keeps(SentTokens, keptSent, sents + 1, k)
        /\ keptSent' = k
    /\ UNCHANGED <<doc, paras, kept, splitting, done>>

\* Mutant: the large paragraph itself stays in the window.
CloseLargeParagraphStays ==
    /\ splitting
    /\ sents = doc.ends[paras + 1]
    /\ chunks' = IF keptSent < sents
                 THEN Emitted(keptSent, sents, SentTokens(keptSent, sents))
                 ELSE chunks
    /\ paras' = paras + 1
    /\ splitting' = FALSE
    /\ UNCHANGED <<doc, kept, sents, keptSent, done>>

\* The sentences are through: what is left of them is emitted.
CloseLargeParagraph ==
    /\ splitting
    /\ sents = doc.ends[paras + 1]
    /\ chunks' = IF keptSent < sents
                 THEN Emitted(keptSent, sents, SentTokens(keptSent, sents))
                 ELSE chunks
    /\ paras' = paras + 1
    /\ kept' = paras + 1
    /\ splitting' = FALSE
    /\ UNCHANGED <<doc, sents, keptSent, done>>

-----------------------------------------------------------------------------
Next ==
    \/ AddParagraph
    \/ FillWindow
    \/ OpenLargeParagraph
    \/ Finish
    \/ AddSentence
    \/ FillSentences
    \/ CloseLargeParagraph

Spec == Init /\ [][Next]_vars

-----------------------------------------------------------------------------
(***************************************************************************)
(* Properties                                                              *)
(***************************************************************************)

\* Windows lie in the text that was read so far, chunks in the document.
TypeOK ==
    /\ IsDocument(doc)
    /\ paras \in 0..Paragraphs
    /\ kept \in 0..paras
    /\ splitting \in BOOLEAN
    /\ sents \in 0..End
    /\ keptSent \in 0..sents
    /\ chunks \in Seq([from : 0..End, to : 0..End])
    /\ done \in BOOLEAN

\* Sentence s is part of a chunk.
InChunk(s) == \E i \in 1..Len(chunks) : chunks[i].from < s /\ s <= chunks[i].to

\* Paragraphs i + 1 to j are all that stands between two large paragraphs.
IsRun(i, j) ==
    /\ \A p \in i + 1..j : ~Large(p)
    /\ i = 0 \/ Large(i)
    /\ j = Paragraphs \/ Large(j + 1)

\* Sentence s stands in a run of paragraphs too short for a chunk.
InShortRun(s) ==
    \E i, j \in 0..Paragraphs :
        /\ IsRun(i, j)
        /\ doc.ends[i] < s /\ s <= doc.ends[j]
        /\ ParaTokens(i, j) < MinChunk

\* Text gets lost in two ways only: in a paragraph of at most 20 characters, a
\* heading or the row of a table, and where all the rest that stands between
\* two large paragraphs (or an end of the document) is too short to be a chunk.
\* Neither the windows nor what is left over after the last of them drop
\* anything else.
OnlyShortTextLost ==
    done => \A p \in 1..Len(doc.text) :
        \/ doc.text[p].short
        \/ \E q \in 1..Paragraphs :
            /\ doc.origin[q] = p
            /\ doc.ends[q] - doc.ends[q - 1] = Len(doc.text[p].tokens)
            /\ \A s \in doc.ends[q - 1] + 1..doc.ends[q] : InChunk(s) \/ InShortRun(s)

\* Position a paragraph boundary next to a large paragraph.
BesideLarge(s) ==
    \E p \in 1..Paragraphs : Large(p) /\ s \in {doc.ends[p - 1], doc.ends[p]}

\* Neighbouring chunks share the overlap that was asked for, in full elements,
\* except at a large paragraph, which shares none with its surroundings.
ChunksOverlap ==
    \A i \in 1..Len(chunks) - 1 :
        LET c == chunks[i]
            d == chunks[i + 1]
        IN \/ d.from <= c.to /\ SentTokens(d.from, c.to) >= Overlap
           \/ d.from >= c.to /\ BesideLarge(c.to) /\ BesideLarge(d.from)

\* Chunks come in the order of the text, and none is contained in the one
\* before it, unless it is the last window before a large paragraph or the end.
ChunksAdvance ==
    \A i \in 1..Len(chunks) - 1 :
        LET c == chunks[i]
            d == chunks[i + 1]
        IN /\ c.from <= d.from
           /\ c.to < d.to \/ (c.to = d.to /\ (d.to = End \/ BesideLarge(d.to)))
==============================================================================
