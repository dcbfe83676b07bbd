------------------------------ MODULE MCChunker ------------------------------
(* Small instances of Chunker for TLC. *)
EXTENDS Chunker, FiniteSets

CONSTANTS
    MaxSentences,      \* bound: sentences of a document
    TokenCounts        \* bound: tokens of a sentence

\* The text whose sentences have the given token counts and whose paragraphs
\* end after the sentences in cuts.  A paragraph of one token is short, one of
\* two is not, and is too small for a chunk.
Text(counts, cuts) ==
    LET bounds == {0} \cup cuts \cup {Len(counts)}
        nth(i) == CHOOSE b \in bounds : Cardinality({c \in bounds : c < b}) = i
        paragraph(p) == SubSeq(counts, nth(p - 1) + 1, nth(p))
    IN [p \in 1..Cardinality(bounds) - 1 |->
           [tokens |-> paragraph(p), short |-> paragraph(p) = <<1>>]]

\* All texts up to the bounds, the empty one included.
AllTexts ==
    UNION {{Text(counts, cuts) : counts \in [1..n -> TokenCounts],
                                 cuts \in SUBSET (1..n - 1)} :
              n \in 0..MaxSentences}
==============================================================================
