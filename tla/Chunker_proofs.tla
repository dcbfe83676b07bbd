---------------------------- MODULE Chunker_proofs ----------------------------
(***************************************************************************)
(* Proofs about Chunker: which text is lost and how chunks follow each     *)
(* other, for every text and all sizes.                                    *)
(***************************************************************************)
EXTENDS Chunker, TLAPS

-----------------------------------------------------------------------------
(***************************************************************************)
(* The inductive invariant                                                 *)
(***************************************************************************)

\* Positions between which the text of the current window lies.
Start == IF splitting THEN keptSent ELSE doc.ends[kept]
Reached == IF splitting THEN sents ELSE doc.ends[paras]

LastChunk == chunks[Len(chunks)]

\* Where the two loops are.
Progress ==
    /\ done => ~splitting /\ paras = Paragraphs
    /\ splitting =>
        /\ paras < Paragraphs
        /\ Large(paras + 1)
        /\ kept = paras
        /\ doc.ends[paras] <= keptSent
        /\ sents <= doc.ends[paras + 1]
    /\ \A p \in kept + 1..paras : ~Large(p)

\* The window is the first one of a run of paragraphs, or of a large paragraph;
\* the last chunk, if any, ended at a large paragraph before it.
FreshWindow ==
    /\ IF splitting THEN keptSent = doc.ends[paras] ELSE kept = 0 \/ Large(kept)
    /\ chunks # <<>> =>
        /\ BesideLarge(Start)
        /\ BesideLarge(LastChunk.to)
        /\ LastChunk.to <= Start

\* The window begins with the overlap of the last chunk.
OverlapWindow ==
    /\ chunks # <<>>
    /\ LastChunk.from <= Start
    /\ Start <= LastChunk.to
    /\ LastChunk.to <= Reached
    /\ SentTokens(Start, LastChunk.to) >= Overlap

WindowOK == done \/ FreshWindow \/ OverlapWindow

\* What was read is in a chunk, in the window, or lost.
Covered ==
    \A s \in 1..Reached : InChunk(s) \/ InShortRun(s) \/ (~done /\ Start < s)

\* A chunk ends behind its beginning.
ChunksOrdered == \A i \in 1..Len(chunks) : chunks[i].from < chunks[i].to

\* What is said of the chunks alone.
ChunksOK ==
    /\ chunks \in Seq([from : 0..End, to : 0..End])
    /\ ChunksOrdered
    /\ ChunksOverlap
    /\ ChunksAdvance

Inv ==
    /\ TypeOK
    /\ Progress
    /\ WindowOK
    /\ Covered
    /\ ChunksOK

-----------------------------------------------------------------------------
(***************************************************************************)
(* Documents                                                               *)
(***************************************************************************)

\* The ends of the paragraphs are positions of the document, in order.
LEMMA Positions ==
    ASSUME IsDocument(doc)
    PROVE  /\ Paragraphs \in Nat
           /\ End \in Nat
           /\ doc.ends[0] = 0
           /\ \A i \in 0..Paragraphs : doc.ends[i] \in 0..End
           /\ \A i, j \in 0..Paragraphs : i < j => doc.ends[i] < doc.ends[j]
           /\ \A i, j \in 0..Paragraphs : i <= j => doc.ends[i] <= doc.ends[j]
  <1>1. /\ Paragraphs \in Nat
        /\ \A i \in 0..Paragraphs : doc.ends[i] \in Nat
        /\ doc.ends[0] = 0
        /\ \A i, j \in 0..Paragraphs : i < j => doc.ends[i] < doc.ends[j]
    BY DEF IsDocument, Paragraphs
  <1>2. \A i, j \in 0..Paragraphs : i <= j => doc.ends[i] <= doc.ends[j]
    BY <1>1
  <1>3. End \in Nat /\ \A i \in 0..Paragraphs : doc.ends[i] <= End
    BY <1>1, <1>2 DEF End
  <1> QED
    BY <1>1, <1>2, <1>3

\* Token counts are positive and add up.
LEMMA Tokens ==
    ASSUME IsDocument(doc)
    PROVE  \A a, b, c \in 0..End :
               /\ SentTokens(a, b) \in Int
               /\ SentTokens(a, c) = SentTokens(a, b) + SentTokens(b, c)
               /\ a = b => SentTokens(a, b) = 0
               /\ a < b => SentTokens(a, b) > 0
  <1>1. \A a \in 0..End : doc.offset[a] \in Nat
    BY DEF IsDocument, End, Paragraphs
  <1>2. \A a, b \in 0..End : a < b => doc.offset[a] < doc.offset[b]
    BY DEF IsDocument, End, Paragraphs
  <1> QED
    BY <1>1, <1>2 DEF SentTokens

\* A stretch of text has no negative number of tokens.
LEMMA TokensNat ==
    ASSUME IsDocument(doc), NEW a \in 0..End, NEW b \in 0..End, a <= b
    PROVE  SentTokens(a, b) \in Nat
  <1>1. CASE a = b
    BY <1>1, Tokens
  <1>2. CASE a < b
    <2>1. SentTokens(a, b) \in Int /\ SentTokens(a, b) > 0
      BY <1>2, Tokens
    <2> QED
      BY <2>1
  <1> QED
    BY <1>1, <1>2, Positions

\* What is said of the document alone stays true.
LEMMA DocKept ==
    ASSUME doc' = doc
    PROVE  /\ Paragraphs' = Paragraphs
           /\ End' = End
           /\ \A a, b : (SentTokens(a, b))' = SentTokens(a, b)
           /\ \A a, b : (ParaTokens(a, b))' = ParaTokens(a, b)
           /\ \A p : (Large(p))' <=> Large(p)
           /\ \A s : (BesideLarge(s))' <=> BesideLarge(s)
           /\ \A s : (InShortRun(s))' <=> InShortRun(s)
  BY DEF Paragraphs, End, SentTokens, ParaTokens, Large, BesideLarge, InShortRun, IsRun

-----------------------------------------------------------------------------
(***************************************************************************)
(* Emitting a chunk                                                        *)
(***************************************************************************)

\* What is said of the chunks alone stays true while none is added.
LEMMA SameChunks ==
    ASSUME ChunksOK, doc' = doc, chunks' = chunks
    PROVE  ChunksOK' /\ LastChunk' = LastChunk /\ \A s : (InChunk(s))' <=> InChunk(s)
  BY DocKept DEF ChunksOK, ChunksOrdered, ChunksOverlap, ChunksAdvance,
     LastChunk, InChunk

\* The chunks are in order when the next one follows the last.
LEMMA AppendChunk ==
    ASSUME IsDocument(doc), ChunksOK, doc' = doc,
           NEW f \in 0..End, NEW t \in 0..End, f < t,
           chunks # <<>> =>
               /\ \/ f <= LastChunk.to /\ SentTokens(f, LastChunk.to) >= Overlap
                  \/ f >= LastChunk.to /\ BesideLarge(LastChunk.to) /\ BesideLarge(f)
               /\ LastChunk.from <= f
               /\ LastChunk.to < t \/ (LastChunk.to = t /\ (t = End \/ BesideLarge(t))),
           chunks' = Append(chunks, [from |-> f, to |-> t])
    PROVE  /\ ChunksOK'
           /\ chunks' # <<>>
           /\ LastChunk' = [from |-> f, to |-> t]
           /\ \A s : (InChunk(s))' <=> InChunk(s) \/ (f < s /\ s <= t)
  <1> DEFINE new == [from |-> f, to |-> t]
             n == Len(chunks)
  <1>1. chunks \in Seq([from : 0..End, to : 0..End]) /\ n \in Nat
    BY DEF ChunksOK
  <1>2. /\ Len(chunks') = n + 1
        /\ chunks'[n + 1] = new
        /\ \A i \in 1..n : chunks'[i] = chunks[i]
        /\ chunks' \in Seq([from : 0..End, to : 0..End])
        /\ chunks' # <<>>
    BY <1>1
  <1>3. n > 0 => chunks # <<>>
    BY <1>1
  <1>4. /\ End' = End
        /\ \A a, b : (SentTokens(a, b))' = SentTokens(a, b)
        /\ \A s : (BesideLarge(s))' <=> BesideLarge(s)
    BY DocKept
  <1>b. n \in Nat
    BY <1>1
  <1>c. 1..n + 1 = 1..n \cup {n + 1} /\ 1..n = 1..n - 1 \cup {i \in {n} : n > 0}
    BY <1>b
  <1>d. 1..Len(chunks') = 1..n + 1 /\ 1..Len(chunks') - 1 = 1..n
    BY <1>b, <1>2
  <1>a. new.from = f /\ new.to = t
    OBVIOUS
  <1> HIDE DEF new, n
  <1>5. LastChunk' = new
    BY <1>1, <1>2 DEF LastChunk
  <1>6. ChunksOrdered'
    <2> SUFFICES ASSUME NEW i \in 1..n + 1 PROVE chunks'[i].from < chunks'[i].to
      BY <1>2 DEF ChunksOrdered
    <2>1. CASE i = n + 1 BY <1>2, <1>a, <2>1
    <2>2. CASE i \in 1..n BY <1>2, <2>2 DEF ChunksOK, ChunksOrdered, n
    <2> QED BY <1>c, <2>1, <2>2
  <1>7. ChunksOverlap'
    <2> SUFFICES ASSUME NEW i \in 1..n
                 PROVE  LET c == chunks'[i]
                            d == chunks'[i + 1]
                        IN \/ d.from <= c.to /\ SentTokens(d.from, c.to) >= Overlap
                           \/ d.from >= c.to /\ BesideLarge(c.to) /\ BesideLarge(d.from)
      BY <1>d, <1>4 DEF ChunksOverlap
    <2>1. CASE i = n
      BY <1>1, <1>2, <1>3, <1>a, <2>1 DEF LastChunk, n
    <2>2. CASE i \in 1..n - 1
      <3>1. chunks'[i] = chunks[i] /\ chunks'[i + 1] = chunks[i + 1]
        BY <1>1, <1>2, <2>2
      <3> QED BY <1>1, <2>2, <3>1 DEF ChunksOK, ChunksOverlap, n
    <2> QED BY <1>c, <2>1, <2>2
  <1>8. ChunksAdvance'
    <2> SUFFICES ASSUME NEW i \in 1..n
                 PROVE  LET c == chunks'[i]
                            d == chunks'[i + 1]
                        IN /\ c.from <= d.from
                           /\ c.to < d.to \/ (c.to = d.to /\ (d.to = End \/ BesideLarge(d.to)))
      BY <1>d, <1>4 DEF ChunksAdvance
    <2>1. CASE i = n
      BY <1>1, <1>2, <1>3, <1>a, <2>1 DEF LastChunk, n
    <2>2. CASE i \in 1..n - 1
      <3>1. chunks'[i] = chunks[i] /\ chunks'[i + 1] = chunks[i + 1]
        BY <1>1, <1>2, <2>2
      <3> QED BY <1>1, <2>2, <3>1 DEF ChunksOK, ChunksAdvance, n
    <2> QED BY <1>c, <2>1, <2>2
  <1>10. ASSUME NEW s PROVE (InChunk(s))' <=> InChunk(s) \/ (f < s /\ s <= t)
    <2>1. (InChunk(s))' <=> \E i \in 1..n + 1 : chunks'[i].from < s /\ s <= chunks'[i].to
      BY <1>2 DEF InChunk
    <2>2. InChunk(s) <=> \E i \in 1..n : chunks[i].from < s /\ s <= chunks[i].to
      BY DEF InChunk, n
    <2> QED
      BY <1>2, <1>a, <1>c, <2>1, <2>2
  <1> QED
    BY <1>2, <1>4, <1>5, <1>6, <1>7, <1>8, <1>10 DEF ChunksOK, new

\* The window and the last chunk lie in the document.
LEMMA WindowInText ==
    ASSUME TypeOK, Progress, ChunksOrdered
    PROVE  /\ Start \in 0..End
           /\ Reached \in 0..End
           /\ Start <= Reached
           /\ chunks # <<>> =>
               /\ LastChunk.from \in 0..End
               /\ LastChunk.to \in 0..End
               /\ LastChunk.from < LastChunk.to
  <1>1. Start \in 0..End /\ Reached \in 0..End /\ Start <= Reached
    <2>1. kept \in 0..Paragraphs /\ paras \in 0..Paragraphs /\ kept <= paras
      BY Positions DEF TypeOK
    <2> QED
      BY <2>1, Positions DEF TypeOK, Start, Reached
  <1>2. ASSUME chunks # <<>>
        PROVE  /\ LastChunk \in [from : 0..End, to : 0..End]
               /\ LastChunk.from < LastChunk.to
    <2> DEFINE R == [from : 0..End, to : 0..End]
    <2>1. chunks \in Seq(R)
      BY DEF TypeOK
    <2> HIDE DEF R
    <2>2. Len(chunks) \in 1..Len(chunks) /\ chunks[Len(chunks)] \in R
      BY <1>2, <2>1
    <2> QED
      BY <2>2 DEF ChunksOrdered, LastChunk, R
  <1> QED
    BY <1>1, <1>2

\* Emitting the window, with or without the next element: it follows the last
\* chunk in one of the two ways in which the window can have begun.
LEMMA EmitWindow ==
    ASSUME Inv, ~done, doc' = doc,
           NEW t \in 0..End, Start < t, Reached <= t,
           Reached < t \/ t = End \/ BesideLarge(t),
           chunks' = Append(chunks, [from |-> Start, to |-> t])
    PROVE  /\ ChunksOK'
           /\ chunks' # <<>>
           /\ LastChunk' = [from |-> Start, to |-> t]
           /\ \A s : (InChunk(s))' <=> InChunk(s) \/ (Start < s /\ s <= t)
  <1>1. /\ Start \in 0..End
        /\ Reached \in 0..End
        /\ chunks # <<>> =>
            /\ LastChunk.from \in 0..End
            /\ LastChunk.to \in 0..End
            /\ LastChunk.from < LastChunk.to
    BY WindowInText DEF Inv, ChunksOK
  <1>2. IsDocument(doc) /\ End \in Nat
    BY Positions DEF Inv, TypeOK
  <1>3. chunks # <<>> =>
            /\ \/ Start <= LastChunk.to /\ SentTokens(Start, LastChunk.to) >= Overlap
               \/ Start >= LastChunk.to /\ BesideLarge(LastChunk.to) /\ BesideLarge(Start)
            /\ LastChunk.from <= Start
            /\ LastChunk.to < t \/ (LastChunk.to = t /\ (t = End \/ BesideLarge(t)))
    <2>1. CASE FreshWindow
      BY <1>1, <1>2, <2>1 DEF FreshWindow
    <2>2. CASE OverlapWindow
      BY <1>1, <1>2, <2>2 DEF OverlapWindow
    <2> QED
      BY <2>1, <2>2 DEF Inv, WindowOK
  <1> DEFINE f == Start
  <1>4. f \in 0..End
    BY <1>1
  <1> HIDE DEF f
  <1>5. f = Start BY DEF f
  <1> QED
    BY <1>2, <1>3, <1>4, <1>5, AppendChunk DEF Inv

-----------------------------------------------------------------------------
(***************************************************************************)
(* The steps of chunk_text                                                 *)
(***************************************************************************)

\* The tokens of the window of paragraphs, counted with the blank lines between
\* them, are no fewer than those of the paragraphs.
LEMMA JoinedTokens ==
    ASSUME NEW n \in Nat, NEW tokens \in Int
    PROVE  tokens + Joint * n \in Int /\ tokens + Joint * n >= tokens
  <1>1. Joint * n \in Nat
    BY SizesType
  <1> QED
    BY <1>1

\* The window grows by a paragraph.
LEMMA AddParagraphStep ==
    ASSUME Inv, AddParagraph
    PROVE  Inv'
  <1>1. /\ doc' = doc /\ chunks' = chunks /\ done' = done
        /\ splitting' = splitting /\ ~splitting
        /\ kept' = kept /\ paras' = paras + 1 /\ sents' = sents /\ keptSent' = keptSent
        /\ paras < Paragraphs /\ ~Large(paras + 1)
        /\ ParaTokens(kept, paras + 1) < ChunkSize
    BY DEF AddParagraph, AtParagraph
  <1>2. /\ kept \in 0..paras /\ paras \in 0..Paragraphs /\ paras + 1 \in 0..Paragraphs
        /\ Paragraphs \in Nat /\ IsDocument(doc) /\ ~done
    BY <1>1, Positions DEF Inv, TypeOK, Progress
  <1>3. ChunksOK' /\ LastChunk' = LastChunk /\ \A s : (InChunk(s))' <=> InChunk(s)
    BY <1>1, SameChunks DEF Inv
  <1>4. /\ Start' = Start /\ Start = doc.ends[kept]
        /\ Reached' = doc.ends[paras + 1] /\ Reached = doc.ends[paras]
    BY <1>1 DEF Start, Reached
  <1>5. /\ Start \in 0..End /\ Reached \in 0..End /\ Start <= Reached
        /\ doc.ends[paras + 1] \in 0..End /\ End \in Nat
        /\ Reached < doc.ends[paras + 1]
    BY <1>2, <1>4, Positions, WindowInText DEF Inv, ChunksOK
  <1>6. TypeOK'
    BY <1>1, <1>2, DocKept DEF Inv, TypeOK
  <1>7. Progress'
    <2>1. \A p \in kept + 1..paras + 1 : ~Large(p)
      BY <1>1, <1>2 DEF Inv, Progress
    <2> QED
      BY <1>1, <1>2, <2>1, DocKept DEF Progress
  <1>8. WindowOK'
    <2>1. CASE FreshWindow
      <3> QED BY <1>1, <1>3, <1>4, <2>1, DocKept DEF FreshWindow, WindowOK
    <2>2. CASE OverlapWindow
      <3>1. chunks # <<>> => LastChunk.to \in 0..End
        BY WindowInText DEF Inv, ChunksOK
      <3>2. LastChunk.to <= doc.ends[paras + 1]
        BY <1>5, <2>2, <3>1 DEF OverlapWindow
      <3> QED
        BY <1>1, <1>3, <1>4, <2>2, <3>2, DocKept DEF OverlapWindow, WindowOK
    <2> QED
      BY <1>2, <2>1, <2>2 DEF Inv, WindowOK
  <1>10. Covered'
    <2> SUFFICES ASSUME NEW s \in 1..doc.ends[paras + 1]
                 PROVE  InChunk(s) \/ InShortRun(s) \/ Start < s
      BY <1>1, <1>2, <1>3, <1>4, DocKept DEF Covered
    <2>1. CASE s <= Reached
      BY <1>5, <2>1 DEF Inv, Covered
    <2>2. CASE s > Reached
      BY <1>5, <2>2
    <2> QED
      BY <1>5, <2>1, <2>2
  <1> QED
    BY <1>3, <1>6, <1>7, <1>8, <1>10 DEF Inv

\* A full window is emitted, and the next one begins with its overlap.
LEMMA FillWindowStep ==
    ASSUME Inv, FillWindow
    PROVE  Inv'
  <1> DEFINE t == doc.ends[paras + 1]
  <1>1. /\ doc' = doc /\ done' = done
        /\ splitting' = splitting /\ ~splitting
        /\ paras' = paras + 1 /\ sents' = sents /\ keptSent' = keptSent
        /\ paras < Paragraphs /\ ~Large(paras + 1)
        /\ ParaTokens(kept, paras + 1) >= ChunkSize
        /\ chunks' = EmittedParas(kept, paras + 1)
    BY DEF FillWindow, AtParagraph
  <1>2. PICK k \in kept..paras + 1 : Keeps(ParaTokens, kept, paras + 1, k) /\ kept' = k
    BY DEF FillWindow
  <1>3. /\ kept \in 0..paras /\ paras \in 0..Paragraphs /\ paras + 1 \in 0..Paragraphs
        /\ Paragraphs \in Nat /\ IsDocument(doc) /\ ~done /\ k \in 0..Paragraphs
        /\ k <= paras + 1 /\ kept <= k
    BY <1>1, Positions DEF Inv, TypeOK, Progress
  <1>4. /\ Start = doc.ends[kept] /\ Reached = doc.ends[paras]
        /\ Start' = doc.ends[k] /\ Reached' = t
    BY <1>1, <1>2 DEF Start, Reached
  <1>5. /\ Start \in 0..End /\ Reached \in 0..End /\ Start <= Reached
        /\ t \in 0..End /\ End \in Nat /\ Reached < t /\ Start < t
        /\ doc.ends[k] \in 0..End /\ Start <= doc.ends[k] /\ doc.ends[k] <= t
    <2>1. Start \in 0..End /\ Reached \in 0..End /\ Start <= Reached
      BY WindowInText DEF Inv, ChunksOK
    <2>2. t \in 0..End /\ End \in Nat /\ Reached < t
      BY <1>3, <1>4, Positions
    <2>3. doc.ends[k] \in 0..End /\ Start <= doc.ends[k] /\ doc.ends[k] <= t
      BY <1>3, <1>4, Positions
    <2> QED
      BY <2>1, <2>2, <2>3
  <1>6. SentTokens(Start, t) >= ChunkSize /\ SentTokens(Start, t) \in Int
    BY <1>1, <1>3, <1>4, <1>5, Tokens DEF ParaTokens
  <1>7. \A p \in kept + 1..paras + 1 : ~Large(p)
    BY <1>1, <1>3 DEF Inv, Progress
  <1>8. chunks' = Append(chunks, [from |-> Start, to |-> t])
    <2> DEFINE tokens == ParaTokens(kept, paras + 1) + Joint * ((paras + 1) - kept - 1)
    <2>0. ParaTokens(kept, paras + 1) = SentTokens(Start, t)
      BY <1>4 DEF ParaTokens
    <2>1. (paras + 1) - kept - 1 \in Nat
      BY <1>3
    <2>2. tokens \in Int /\ tokens >= ChunkSize
      BY <1>6, <2>0, <2>1, JoinedTokens, SizesType
    <2>3. ~(tokens < MinChunk)
      BY <2>2, SizesType, SizesOrdered
    <2>4. chunks' = Emitted(doc.ends[kept], doc.ends[paras + 1], tokens)
      BY <1>1 DEF EmittedParas
    <2> HIDE DEF tokens
    <2> QED
      BY <1>4, <2>3, <2>4 DEF Emitted
  <1>10. /\ ChunksOK'
         /\ chunks' # <<>>
         /\ LastChunk' = [from |-> Start, to |-> t]
         /\ \A s : (InChunk(s))' <=> InChunk(s) \/ (Start < s /\ s <= t)
    BY <1>1, <1>3, <1>5, <1>8, EmitWindow
  <1> HIDE DEF t
  <1>11. /\ SentTokens(doc.ends[k], t) >= Overlap
         /\ SentTokens(doc.ends[k], t) \in Int
    <2>1. k = kept => doc.ends[k] = Start
      BY <1>4
    <2>2. k > kept => SentTokens(doc.ends[k], t) >= Overlap
      BY <1>2 DEF Keeps, ParaTokens, t
    <2>3. SentTokens(doc.ends[k], t) \in Int
      BY <1>3, <1>5, Tokens
    <2> QED
      BY <1>3, <1>6, <2>1, <2>2, <2>3, SizesType, SizesOrdered
  <1>14. TypeOK'
    BY <1>1, <1>2, <1>3, <1>10, DocKept DEF Inv, TypeOK, ChunksOK
  <1>15. Progress'
    <2>1. \A p \in k + 1..paras + 1 : ~Large(p)
      BY <1>3, <1>7
    <2> QED
      BY <1>1, <1>2, <1>3, <2>1, DocKept DEF Progress
  <1>16. WindowOK'
    <2>1. LastChunk'.from = Start /\ LastChunk'.to = t
      BY <1>10
    <2> QED
      BY <1>1, <1>4, <1>5, <1>10, <1>11, <2>1, DocKept DEF OverlapWindow, WindowOK
  <1>18. Covered'
    <2> SUFFICES ASSUME NEW s \in 1..t
                 PROVE  InChunk(s) \/ InShortRun(s) \/ (Start < s /\ s <= t)
      BY <1>1, <1>4, <1>10, DocKept DEF Covered
    <2> QED
      BY <1>5 DEF Inv, Covered
  <1> QED
    BY <1>10, <1>14, <1>15, <1>16, <1>18 DEF Inv

\* The window at the end of a run: it is emitted, unless the whole run is short.
LEMMA FlushWindow ==
    ASSUME Inv, ~done, ~splitting, doc' = doc, chunks' = Flushed,
           paras = Paragraphs \/ (paras < Paragraphs /\ Large(paras + 1))
    PROVE  /\ ChunksOK'
           /\ \A s \in 1..Reached : (InChunk(s))' \/ InShortRun(s)
           /\ chunks' # <<>> =>
               /\ LastChunk'.to <= Reached
               /\ paras < Paragraphs => BesideLarge(LastChunk'.to)
  <1>1. /\ kept \in 0..paras /\ paras \in 0..Paragraphs /\ kept \in 0..Paragraphs
        /\ Paragraphs \in Nat /\ IsDocument(doc)
    BY Positions DEF Inv, TypeOK
  <1>2. /\ Start = doc.ends[kept] /\ Reached = doc.ends[paras]
        /\ Start \in 0..End /\ Reached \in 0..End /\ Start <= Reached /\ End \in Nat
        /\ chunks # <<>> => LastChunk.to \in 0..End
    BY <1>1, Positions, WindowInText DEF Inv, ChunksOK, Start, Reached
  <1>3. paras < Paragraphs => BesideLarge(Reached)
    BY <1>1, <1>2 DEF BesideLarge
  <1>4. ASSUME chunks' = chunks, ~OverlapWindow,
               \A s \in 1..Reached : Start < s => InShortRun(s)
        PROVE  /\ ChunksOK'
               /\ \A s \in 1..Reached : (InChunk(s))' \/ InShortRun(s)
               /\ chunks' # <<>> =>
                   /\ LastChunk'.to <= Reached
                   /\ paras < Paragraphs => BesideLarge(LastChunk'.to)
    <2>1. ChunksOK' /\ LastChunk' = LastChunk /\ \A s : (InChunk(s))' <=> InChunk(s)
      BY <1>4, SameChunks DEF Inv
    <2>2. FreshWindow
      BY <1>4 DEF Inv, WindowOK
    <2> QED
      BY <1>2, <1>4, <2>1, <2>2 DEF Inv, Covered, FreshWindow
  <1>5. ASSUME OverlapWindow
        PROVE  SentTokens(Start, Reached) >= Overlap /\ SentTokens(Start, Reached) \in Int
    <2>1. /\ LastChunk.to \in 0..End /\ LastChunk.to <= Reached
          /\ SentTokens(Start, LastChunk.to) >= Overlap
      BY <1>2, <1>5 DEF OverlapWindow
    <2>2. /\ SentTokens(Start, LastChunk.to) \in Int
          /\ SentTokens(LastChunk.to, Reached) \in Int
          /\ SentTokens(Start, Reached)
              = SentTokens(Start, LastChunk.to) + SentTokens(LastChunk.to, Reached)
      BY <1>1, <1>2, <2>1, Tokens
    <2>3. SentTokens(LastChunk.to, Reached) >= 0
      BY <1>1, <1>2, <2>1, TokensNat
    <2> QED
      BY <2>1, <2>2, <2>3, SizesType
  <1>6. CASE kept = paras
    <2>1. chunks' = chunks
      BY <1>1, <1>6 DEF Flushed
    <2>2. SentTokens(Start, Reached) = 0
      BY <1>1, <1>2, <1>6, Tokens
    <2>3. ~OverlapWindow
      BY <1>5, <2>2, SizesType, SizesOrdered
    <2> QED
      BY <1>2, <1>4, <1>6, <2>1, <2>3
  <1>7. CASE kept < paras
    <2> DEFINE tokens == SentTokens(Start, Reached) + Joint * (paras - kept - 1)
    <2>1. chunks' = Emitted(Start, Reached, tokens)
      BY <1>2, <1>7 DEF Flushed, EmittedParas, ParaTokens
    <2>2. SentTokens(Start, Reached) \in Int /\ Start < Reached
      BY <1>1, <1>2, <1>7, Tokens, Positions
    <2>3. tokens \in Int /\ tokens >= SentTokens(Start, Reached)
      <3>1. paras - kept - 1 \in Nat
        BY <1>1, <1>7
      <3> QED
        BY <2>2, <3>1, JoinedTokens
    <2> HIDE DEF tokens
    <2>4. CASE tokens < MinChunk
      <3>1. chunks' = chunks
        BY <2>1, <2>4 DEF Emitted
      <3>2. SentTokens(Start, Reached) < MinChunk
        BY <2>2, <2>3, <2>4, SizesType
      <3>3. ~OverlapWindow
        BY <1>5, <2>2, <3>2, SizesType, SizesOrdered
      <3>4. kept = 0 \/ Large(kept)
        BY <3>3 DEF Inv, WindowOK, FreshWindow
      <3>5. IsRun(kept, paras)
        BY <1>1, <3>4 DEF Inv, Progress, IsRun
      <3>6. \A s \in 1..Reached : Start < s => InShortRun(s)
        BY <1>1, <1>2, <3>2, <3>5 DEF InShortRun, ParaTokens
      <3> QED
        BY <1>4, <3>1, <3>3, <3>6
    <2>5. CASE ~(tokens < MinChunk)
      <3>1. chunks' = Append(chunks, [from |-> Start, to |-> Reached])
        BY <2>1, <2>5 DEF Emitted
      <3>2. Reached = End \/ BesideLarge(Reached)
        BY <1>1, <1>2, <1>3 DEF End
      <3> DEFINE t == Reached
      <3>4. t \in 0..End
        BY <1>2
      <3> HIDE DEF t
      <3>5. t = Reached
        BY DEF t
      <3>6. Start < t /\ Reached <= t
        BY <1>2, <2>2, <3>5
      <3>7. /\ ChunksOK'
            /\ chunks' # <<>>
            /\ LastChunk' = [from |-> Start, to |-> t]
            /\ \A s : (InChunk(s))' <=> InChunk(s) \/ (Start < s /\ s <= t)
        BY <3>1, <3>2, <3>4, <3>5, <3>6, EmitWindow
      <3>8. LastChunk'.to = Reached
        BY <3>5, <3>7
      <3> QED
        BY <1>2, <1>3, <3>5, <3>7, <3>8 DEF Inv, Covered
    <2> QED
      BY <2>4, <2>5
  <1> QED
    BY <1>1, <1>6, <1>7

\* The loop over the sentences of a large paragraph begins.
LEMMA OpenLargeParagraphStep ==
    ASSUME Inv, OpenLargeParagraph
    PROVE  Inv'
  <1>1. /\ doc' = doc /\ done' = done /\ paras' = paras /\ kept' = paras
        /\ ~splitting /\ splitting' /\ splitting' \in BOOLEAN
        /\ sents' = doc.ends[paras] /\ keptSent' = doc.ends[paras]
        /\ paras < Paragraphs /\ Large(paras + 1)
        /\ chunks' = Flushed
    BY DEF OpenLargeParagraph, AtParagraph
  <1>2. /\ paras \in 0..Paragraphs /\ paras + 1 \in 0..Paragraphs /\ paras + 1 \in 1..Paragraphs
        /\ Paragraphs \in Nat /\ IsDocument(doc) /\ ~done
    BY <1>1, Positions DEF Inv, TypeOK, Progress
  <1>3. /\ Reached = doc.ends[paras] /\ Reached' = doc.ends[paras] /\ Start' = doc.ends[paras]
        /\ Reached \in 0..End /\ End \in Nat /\ Reached <= doc.ends[paras + 1]
    BY <1>1, <1>2, Positions DEF Start, Reached
  <1>4. /\ ChunksOK'
        /\ \A s \in 1..Reached : (InChunk(s))' \/ InShortRun(s)
        /\ chunks' # <<>> =>
            /\ LastChunk'.to <= Reached
            /\ BesideLarge(LastChunk'.to)
    BY <1>1, <1>2, FlushWindow
  <1>5. BesideLarge(Reached)
    <2>1. paras + 1 - 1 = paras
      BY <1>2
    <2> QED
      BY <1>1, <1>2, <1>3, <2>1 DEF BesideLarge
  <1>6. TypeOK'
    BY <1>1, <1>2, <1>3, <1>4, DocKept DEF Inv, TypeOK, ChunksOK
  <1>7. Progress'
    BY <1>1, <1>2, <1>3, DocKept DEF Progress
  <1>8. WindowOK'
    BY <1>1, <1>3, <1>4, <1>5, DocKept DEF WindowOK, FreshWindow
  <1>10. Covered'
    BY <1>1, <1>3, <1>4, DocKept DEF Covered
  <1> QED
    BY <1>4, <1>6, <1>7, <1>8, <1>10 DEF Inv

\* The last window is emitted.
LEMMA FinishStep ==
    ASSUME Inv, Finish
    PROVE  Inv'
  <1>1. /\ doc' = doc /\ paras' = paras /\ kept' = kept /\ splitting' = splitting
        /\ sents' = sents /\ keptSent' = keptSent
        /\ done' /\ done' \in BOOLEAN /\ ~done /\ ~splitting
        /\ paras = Paragraphs
        /\ chunks' = Flushed
    BY DEF Finish
  <1>2. /\ ChunksOK'
        /\ \A s \in 1..Reached : (InChunk(s))' \/ InShortRun(s)
    BY <1>1, FlushWindow
  <1>3. Reached' = Reached /\ Start' = Start
    BY <1>1 DEF Reached, Start
  <1>4. TypeOK'
    BY <1>1, <1>2, DocKept DEF Inv, TypeOK, ChunksOK
  <1>5. Progress'
    BY <1>1, DocKept DEF Inv, Progress
  <1>6. WindowOK'
    BY <1>1 DEF WindowOK
  <1>7. Covered'
    BY <1>2, <1>3, DocKept, <1>1 DEF Covered
  <1> QED
    BY <1>2, <1>4, <1>5, <1>6, <1>7 DEF Inv

-----------------------------------------------------------------------------
(***************************************************************************)
(* The steps of _chunk_large_paragraph                                     *)
(***************************************************************************)

\* The window grows by a sentence.
LEMMA AddSentenceStep ==
    ASSUME Inv, AddSentence
    PROVE  Inv'
  <1>1. /\ doc' = doc /\ chunks' = chunks /\ done' = done
        /\ splitting' = splitting /\ splitting
        /\ kept' = kept /\ paras' = paras /\ sents' = sents + 1 /\ keptSent' = keptSent
        /\ sents < doc.ends[paras + 1]
        /\ SentTokens(keptSent, sents + 1) < ChunkSize
    BY DEF AddSentence, AtSentence
  <1>2. /\ paras < Paragraphs /\ Large(paras + 1) /\ kept = paras
        /\ doc.ends[paras] <= keptSent /\ sents <= doc.ends[paras + 1]
        /\ ~done
    BY <1>1 DEF Inv, Progress
  <1>3. /\ IsDocument(doc) /\ End \in Nat /\ sents \in 0..End /\ keptSent \in 0..sents
        /\ doc.ends[paras + 1] \in 0..End
    BY <1>2, Positions DEF Inv, TypeOK
  <1>4. sents + 1 \in 0..End /\ keptSent \in 0..End /\ keptSent \in 0..sents + 1
        /\ sents + 1 <= doc.ends[paras + 1]
    BY <1>1, <1>3
  <1>5. Start' = keptSent /\ Start = keptSent /\ Reached' = sents + 1 /\ Reached = sents
    BY <1>1 DEF Start, Reached
  <1>6. ChunksOK' /\ LastChunk' = LastChunk /\ \A s : (InChunk(s))' <=> InChunk(s)
    BY <1>1, SameChunks DEF Inv
  <1>7. TypeOK'
    BY <1>1, <1>4, DocKept DEF Inv, TypeOK
  <1>8. Progress'
    BY <1>1, <1>4, DocKept DEF Inv, Progress
  <1>9. WindowOK'
    <2>1. CASE FreshWindow
      BY <1>1, <1>5, <1>6, <2>1, DocKept DEF FreshWindow, WindowOK
    <2>2. CASE OverlapWindow
      <3>1. LastChunk.to \in 0..End /\ LastChunk.to <= sents
        BY <1>5, <2>2, WindowInText DEF Inv, ChunksOK, OverlapWindow
      <3>2. LastChunk.to <= sents + 1
        BY <1>3, <3>1
      <3> QED
        BY <1>1, <1>5, <1>6, <2>2, <3>2, DocKept DEF OverlapWindow, WindowOK
    <2> QED
      BY <1>2, <2>1, <2>2 DEF Inv, WindowOK
  <1>11. Covered'
    <2> SUFFICES ASSUME NEW s \in 1..sents + 1
                 PROVE  InChunk(s) \/ InShortRun(s) \/ keptSent < s
      BY <1>1, <1>2, <1>5, <1>6, DocKept DEF Covered
    <2>1. CASE s <= sents
      BY <1>3, <1>5, <2>1 DEF Inv, Covered
    <2>2. CASE s > sents
      BY <1>3, <2>2
    <2> QED
      BY <1>3, <2>1, <2>2
  <1> QED
    BY <1>6, <1>7, <1>8, <1>9, <1>11 DEF Inv

\* A full window of sentences is emitted; the overlap may keep a sentence that
\* alone is larger than a chunk.
LEMMA FillSentencesStep ==
    ASSUME Inv, FillSentences
    PROVE  Inv'
  <1> DEFINE t == sents + 1
  <1>1. /\ doc' = doc /\ done' = done /\ splitting' = splitting /\ splitting
        /\ kept' = kept /\ paras' = paras /\ sents' = t
        /\ sents < doc.ends[paras + 1]
        /\ SentTokens(keptSent, t) >= ChunkSize
        /\ chunks' = Emitted(keptSent, t, SentTokens(keptSent, t))
    BY DEF FillSentences, AtSentence
  <1>2. PICK k \in keptSent..t : Keeps(SentTokens, keptSent, t, k) /\ keptSent' = k
    BY DEF FillSentences
  <1>3. /\ paras < Paragraphs /\ Large(paras + 1) /\ kept = paras
        /\ doc.ends[paras] <= keptSent /\ sents <= doc.ends[paras + 1]
        /\ ~done
    BY <1>1 DEF Inv, Progress
  <1>4. /\ IsDocument(doc) /\ End \in Nat /\ sents \in 0..End /\ keptSent \in 0..sents
        /\ doc.ends[paras + 1] \in 0..End /\ doc.ends[paras] \in 0..End
    BY <1>3, Positions DEF Inv, TypeOK
  <1>5. /\ t \in 0..End /\ keptSent \in 0..End /\ keptSent < t /\ sents < t
        /\ t <= doc.ends[paras + 1]
        /\ k \in 0..End /\ keptSent <= k /\ k <= t /\ k \in 0..t
        /\ doc.ends[paras] <= k
    BY <1>1, <1>3, <1>4
  <1>6. Start' = k /\ Start = keptSent /\ Reached' = t /\ Reached = sents
    BY <1>1, <1>2 DEF Start, Reached
  <1>7. SentTokens(keptSent, t) \in Int /\ SentTokens(k, t) \in Int
    BY <1>4, <1>5, Tokens
  <1>8. chunks' = Append(chunks, [from |-> Start, to |-> t])
    BY <1>1, <1>6, <1>7, SizesType, SizesOrdered DEF Emitted
  <1>10. Start < t /\ Reached <= t /\ Reached < t
    BY <1>4, <1>5, <1>6
  <1> HIDE DEF t
  <1>11. /\ ChunksOK'
         /\ chunks' # <<>>
         /\ LastChunk' = [from |-> Start, to |-> t]
         /\ \A s : (InChunk(s))' <=> InChunk(s) \/ (Start < s /\ s <= t)
    BY <1>1, <1>3, <1>5, <1>8, <1>10, EmitWindow
  <1>12. SentTokens(k, t) >= Overlap
    <2>1. CASE k = keptSent
      BY <1>1, <1>7, <2>1, SizesType, SizesOrdered
    <2>2. CASE k > keptSent
      BY <1>2, <2>2 DEF Keeps
    <2> QED
      BY <1>4, <1>5, <2>1, <2>2
  <1>15. TypeOK'
    BY <1>1, <1>2, <1>5, <1>11, DocKept DEF Inv, TypeOK, ChunksOK
  <1>16. Progress'
    BY <1>1, <1>2, <1>3, <1>5, DocKept DEF Inv, Progress
  <1>17. WindowOK'
    <2>1. LastChunk'.from = Start /\ LastChunk'.to = t
      BY <1>11
    <2>2. t <= t
      BY <1>4, <1>5
    <2> QED
      BY <1>1, <1>5, <1>6, <1>11, <1>12, <2>1, <2>2, DocKept DEF OverlapWindow, WindowOK
  <1>19. Covered'
    <2> SUFFICES ASSUME NEW s \in 1..t
                 PROVE  InChunk(s) \/ InShortRun(s) \/ (Start < s /\ s <= t)
      BY <1>1, <1>6, <1>11, DocKept DEF Covered
    <2>1. CASE s <= sents
      BY <1>4, <1>5, <1>6, <2>1 DEF Inv, Covered
    <2>2. CASE s > sents
      BY <1>4, <1>5, <1>6, <2>2
    <2> QED
      BY <1>4, <1>5, <2>1, <2>2
  <1> QED
    BY <1>11, <1>15, <1>16, <1>17, <1>19 DEF Inv

\* What is left of a large paragraph is never too short to be emitted.
LEMMA CloseLargeParagraphStep ==
    ASSUME Inv, CloseLargeParagraph
    PROVE  Inv'
  <1> DEFINE t == doc.ends[paras + 1]
  <1>1. /\ doc' = doc /\ done' = done /\ splitting /\ ~splitting' /\ splitting' \in BOOLEAN
        /\ kept' = paras + 1 /\ paras' = paras + 1 /\ sents' = sents /\ keptSent' = keptSent
        /\ sents = t
        /\ chunks' = IF keptSent < sents
                     THEN Emitted(keptSent, sents, SentTokens(keptSent, sents))
                     ELSE chunks
    BY DEF CloseLargeParagraph
  <1>2. /\ paras < Paragraphs /\ Large(paras + 1) /\ kept = paras
        /\ doc.ends[paras] <= keptSent /\ ~done
    BY <1>1 DEF Inv, Progress
  <1>3. /\ IsDocument(doc) /\ End \in Nat /\ Paragraphs \in Nat
        /\ paras \in 0..Paragraphs /\ paras + 1 \in 1..Paragraphs
        /\ sents \in 0..End /\ keptSent \in 0..End /\ keptSent <= sents
        /\ doc.ends[paras] \in 0..End /\ t \in 0..End /\ doc.ends[paras] < t
    <2>1. IsDocument(doc)
      BY DEF Inv, TypeOK
    <2>2. /\ End \in Nat /\ Paragraphs \in Nat
          /\ paras \in 0..Paragraphs /\ paras + 1 \in 1..Paragraphs /\ paras + 1 \in 0..Paragraphs
      BY <1>2, <2>1, Positions DEF Inv, TypeOK
    <2>3. doc.ends[paras] \in 0..End /\ t \in 0..End /\ doc.ends[paras] < t
      BY <2>1, <2>2, Positions
    <2>4. sents \in 0..End /\ keptSent \in 0..End /\ keptSent <= sents
      BY <2>2 DEF Inv, TypeOK
    <2> QED
      BY <2>1, <2>2, <2>3, <2>4
  <1>4. Start = keptSent /\ Reached = t /\ Start' = t /\ Reached' = t
    BY <1>1 DEF Start, Reached
  <1>5. SentTokens(keptSent, t) \in Int /\ SentTokens(keptSent, t) >= MinChunk
    <2>1. SentTokens(keptSent, t) \in Int
      BY <1>3, Tokens
    <2>2. CASE FreshWindow
      <3>1. (paras + 1) - 1 = paras
        BY <1>3
      <3>2. SentTokens(keptSent, t) > ChunkSize
        BY <1>1, <1>2, <2>2, <3>1 DEF FreshWindow, Large, ParaTokens
      <3> QED
        BY <2>1, <3>2, SizesType, SizesOrdered
    <2>3. CASE OverlapWindow
      <3>1. /\ LastChunk.to \in 0..End /\ keptSent <= LastChunk.to /\ LastChunk.to <= t
            /\ SentTokens(keptSent, LastChunk.to) >= Overlap
        BY <1>4, <2>3, WindowInText DEF Inv, ChunksOK, OverlapWindow
      <3>2. /\ SentTokens(keptSent, LastChunk.to) \in Int
            /\ SentTokens(LastChunk.to, t) \in Nat
            /\ SentTokens(keptSent, t)
                = SentTokens(keptSent, LastChunk.to) + SentTokens(LastChunk.to, t)
        BY <1>3, <3>1, Tokens, TokensNat
      <3> QED
        BY <2>1, <3>1, <3>2, SizesType, SizesOrdered
    <2> QED
      BY <1>2, <2>2, <2>3 DEF Inv, WindowOK
  <1>6. keptSent < t
    <2> SUFFICES ASSUME keptSent = t PROVE FALSE
      BY <1>1, <1>3
    <2>1. SentTokens(keptSent, t) = 0
      BY <1>3, Tokens
    <2> QED
      BY <1>5, <2>1, SizesType, SizesOrdered
  <1>7. chunks' = Append(chunks, [from |-> Start, to |-> t])
    <2>1. chunks' = Emitted(keptSent, t, SentTokens(keptSent, t))
      BY <1>1, <1>6
    <2>2. ~(SentTokens(keptSent, t) < MinChunk)
      BY <1>5, SizesType
    <2> QED
      BY <1>4, <2>1, <2>2 DEF Emitted
  <1>8. BesideLarge(t)
    BY <1>2, <1>3 DEF BesideLarge
  <1>10. Start < t /\ Reached <= t
    BY <1>3, <1>4, <1>6
  <1> HIDE DEF t
  <1>11. /\ ChunksOK'
         /\ chunks' # <<>>
         /\ LastChunk' = [from |-> Start, to |-> t]
         /\ \A s : (InChunk(s))' <=> InChunk(s) \/ (Start < s /\ s <= t)
    BY <1>1, <1>2, <1>3, <1>7, <1>8, <1>10, EmitWindow
  <1>12. TypeOK'
    BY <1>1, <1>3, <1>11, DocKept DEF Inv, TypeOK, ChunksOK
  <1>13. Progress'
    <2>1. \A p \in (paras + 1) + 1..paras + 1 : ~Large(p)
      BY <1>3
    <2> QED
      BY <1>1, <1>2, <2>1, DocKept DEF Progress
  <1>14. WindowOK'
    <2>1. LastChunk'.to = t
      BY <1>11
    <2>2. t <= t
      BY <1>3
    <2> QED
      BY <1>1, <1>2, <1>4, <1>8, <2>1, <2>2, DocKept DEF FreshWindow, WindowOK
  <1>16. Covered'
    <2> SUFFICES ASSUME NEW s \in 1..t
                 PROVE  InChunk(s) \/ InShortRun(s) \/ (Start < s /\ s <= t)
      BY <1>1, <1>4, <1>11, DocKept DEF Covered
    <2> QED
      BY <1>3, <1>4 DEF Inv, Covered
  <1> QED
    BY <1>11, <1>12, <1>13, <1>14, <1>16 DEF Inv

-----------------------------------------------------------------------------
(***************************************************************************)
(* The theorems                                                            *)
(***************************************************************************)

\* Inv holds when the loop begins.
LEMMA InitInv ==
    ASSUME Init
    PROVE  Inv
  <1>1. IsDocument(doc)
    BY TextsSplit DEF Init
  <1>2. /\ Paragraphs \in Nat /\ End \in Nat /\ doc.ends[0] = 0
    BY <1>1, Positions
  <1>3. Start = 0 /\ Reached = 0
    BY <1>2 DEF Init, Start, Reached
  <1>4. TypeOK
    <2>1. <<>> \in Seq([from : 0..End, to : 0..End])
      OBVIOUS
    <2>2. chunks \in Seq([from : 0..End, to : 0..End])
      BY <2>1 DEF Init
    <2>3. /\ paras \in 0..Paragraphs /\ kept \in 0..paras
          /\ sents \in 0..End /\ keptSent \in 0..sents
      BY <1>2 DEF Init
    <2>4. splitting \in BOOLEAN /\ done \in BOOLEAN
      BY DEF Init
    <2> QED
      BY <1>1, <2>2, <2>3, <2>4 DEF TypeOK
  <1>5. Progress
    BY <1>2 DEF Init, Progress
  <1>6. WindowOK
    BY DEF Init, WindowOK, FreshWindow
  <1>8. Covered
    BY <1>3 DEF Covered
  <1>9. ChunksOK
    <2>1. chunks = <<>> /\ Len(chunks) = 0
      BY DEF Init
    <2>2. 1..Len(chunks) = {} /\ 1..Len(chunks) - 1 = {}
      BY <2>1
    <2> QED
      BY <1>2, <2>1, <2>2
      DEF ChunksOK, ChunksOrdered, ChunksOverlap, ChunksAdvance
  <1> QED
    BY <1>4, <1>5, <1>6, <1>8, <1>9 DEF Inv

\* Inv holds in every state of a call of chunk_text.
THEOREM Invariance == Spec => []Inv
  <1>1. Init => Inv
    BY InitInv
  <1>2. Inv /\ [Next]_vars => Inv'
    <2> SUFFICES ASSUME Inv, [Next]_vars PROVE Inv'
      OBVIOUS
    <2>1. CASE AddParagraph BY <2>1, AddParagraphStep
    <2>2. CASE FillWindow BY <2>2, FillWindowStep
    <2>3. CASE OpenLargeParagraph BY <2>3, OpenLargeParagraphStep
    <2>4. CASE Finish BY <2>4, FinishStep
    <2>5. CASE AddSentence BY <2>5, AddSentenceStep
    <2>6. CASE FillSentences BY <2>6, FillSentencesStep
    <2>7. CASE CloseLargeParagraph BY <2>7, CloseLargeParagraphStep
    <2>8. CASE UNCHANGED vars
      <3>1. /\ doc' = doc /\ chunks' = chunks /\ done' = done /\ paras' = paras
            /\ kept' = kept /\ splitting' = splitting /\ sents' = sents /\ keptSent' = keptSent
        BY <2>8 DEF vars
      <3>2. ChunksOK' /\ LastChunk' = LastChunk /\ \A s : (InChunk(s))' <=> InChunk(s)
        BY <3>1, SameChunks DEF Inv
      <3>3. Start' = Start /\ Reached' = Reached
        BY <3>1 DEF Start, Reached
      <3>4. TypeOK' /\ Progress'
        BY <3>1, DocKept DEF Inv, TypeOK, Progress
      <3>5. WindowOK' /\ Covered'
        BY <3>1, <3>2, <3>3, DocKept
        DEF Inv, WindowOK, Covered, FreshWindow, OverlapWindow
      <3> QED
        BY <3>2, <3>4, <3>5 DEF Inv
    <2> QED
      BY <2>1, <2>2, <2>3, <2>4, <2>5, <2>6, <2>7, <2>8 DEF Next
  <1> QED
    BY <1>1, <1>2, PTL DEF Spec

\* Windows lie in the text that was read, chunks in the document.
THEOREM TypeCorrect == Spec => []TypeOK
  <1>1. Inv => TypeOK
    BY DEF Inv
  <1> QED
    BY <1>1, Invariance, PTL

\* chunk_text loses nothing but paragraphs of at most 20 characters and runs of
\* paragraphs that are too short.
THEOREM LossCorrect == Spec => []OnlyShortTextLost
  <1>1. Inv => OnlyShortTextLost
    <2> SUFFICES ASSUME Inv, done, NEW p \in 1..Len(doc.text), ~doc.text[p].short
                 PROVE  \E q \in 1..Paragraphs :
                            /\ doc.origin[q] = p
                            /\ doc.ends[q] - doc.ends[q - 1] = Len(doc.text[p].tokens)
                            /\ \A s \in doc.ends[q - 1] + 1..doc.ends[q] :
                                   InChunk(s) \/ InShortRun(s)
      BY DEF OnlyShortTextLost
    <2>1. IsDocument(doc) /\ Reached = End
      BY DEF Inv, TypeOK, Progress, Reached, End
    <2>2. PICK q \in 1..Paragraphs :
              /\ doc.origin[q] = p
              /\ doc.ends[q] - doc.ends[q - 1] = Len(doc.text[p].tokens)
      BY <2>1 DEF IsDocument, Paragraphs
    <2>3. q \in 0..Paragraphs /\ q - 1 \in 0..Paragraphs
      BY <2>1, Positions
    <2>4. doc.ends[q] \in 0..End /\ doc.ends[q - 1] \in 0..End
      BY <2>1, <2>3, Positions
    <2>5. doc.ends[q - 1] + 1..doc.ends[q] \subseteq 1..End
      BY <2>1, <2>4, Positions
    <2> QED
      BY <2>1, <2>2, <2>5 DEF Inv, Covered
  <1> QED
    BY <1>1, Invariance, PTL

\* Neighbouring chunks share at least overlap_tokens, or a large paragraph lies
\* between them.
THEOREM OverlapCorrect == Spec => []ChunksOverlap
  <1>1. Inv => ChunksOverlap
    BY DEF Inv, ChunksOK
  <1> QED
    BY <1>1, Invariance, PTL

\* Chunks come in the order of the text.
THEOREM AdvanceCorrect == Spec => []ChunksAdvance
  <1>1. Inv => ChunksAdvance
    BY DEF Inv, ChunksOK
  <1> QED
    BY <1>1, Invariance, PTL
===============================================================================
