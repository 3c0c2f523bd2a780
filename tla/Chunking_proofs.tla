--------------------------- MODULE Chunking_proofs ---------------------------
(***************************************************************************)
(* What chunk_document promises, for every text and every chunk size: a    *)
(* line of text is never left out.  The sections of a text are found with  *)
(* a CHOOSE and cut with a division; the lemmas say that the one is never  *)
(* empty and that the other leaves no gap.                                 *)
(***************************************************************************)
EXTENDS Chunking, SequenceTheorems, WellFoundedInduction, TLAPS

(* A set of numbers that is not empty has a least one.                      *)
LEMMA LeastNumber ==
    ASSUME NEW S, S \subseteq Nat, S # {}
    PROVE  \E n \in S : \A m \in S : n <= m
<1>1. PICK n \in S : \A m \in S : ~ (<<m, n>> \in OpToRel(<, Nat))
  BY NatLessThanWellFounded, WFMin
<1>2. ASSUME NEW m \in S
      PROVE  n <= m
  <2>1. ~(m < n)
    BY <1>1 DEF OpToRel
  <2>2. QED
    BY <2>1
<1>3. QED
  BY <1>2

(* The splitter leaves no line out: line i lies in the piece number         *)
(* (i - from) \div ChunkSize.                                               *)
LEMMA SplitCovers ==
    ASSUME NEW head, NEW from \in Nat, NEW to \in Nat, NEW i \in from .. to
    PROVE  \E c \in SplitText(head, from, to) : i \in c.from .. c.to
<1> DEFINE k == (i - from) \div ChunkSize
<1>1. /\ ChunkSize \in Nat /\ ChunkSize > 0
      /\ i \in Int /\ i - from \in Nat /\ to - from \in Nat
  BY ChunkingAssumption
<1>2. k \in Nat /\ k * ChunkSize <= i - from /\ i - from < (k + 1) * ChunkSize
  BY <1>1, Z3T(30)
<1>3. k <= (to - from) \div ChunkSize
  BY <1>1, Z3T(30)
<1>4. (to - from) \div ChunkSize \in Nat
  BY <1>1, Z3T(30)
<1> DEFINE piece == Chunk(head, from + k * ChunkSize,
              IF from + (k + 1) * ChunkSize - 1 < to THEN from + (k + 1) * ChunkSize - 1 ELSE to)
<1>5. piece \in SplitText(head, from, to)
  BY <1>2, <1>3, <1>4 DEF SplitText
<1>6. i \in piece.from .. piece.to
  <2> HIDE DEF k
  <2>1. k * ChunkSize \in Int /\ (k + 1) * ChunkSize \in Int
    BY <1>1, <1>2
  <2>2. QED
    BY <2>1, <1>1, <1>2 DEF Chunk
<1>7. QED
  BY <1>5, <1>6

(* A section ends: at the last line, or before the next boundary; and no    *)
(* boundary lies in it.                                                     *)
LEMMA SectionEnds ==
    ASSUME NEW text, Len(text) \in Nat, NEW boundary, NEW at \in 1 .. Len(text)
    PROVE  LET e == SectionEnd(text, boundary, at)
           IN  /\ e \in at .. Len(text)
               /\ \A i \in (at + 1) .. e : text[i] # boundary
               /\ e = Len(text) \/ text[e + 1] = boundary
<1> DEFINE Stops == {x \in at .. Len(text) : x = Len(text) \/ text[x + 1] = boundary}
<1>1. Stops \subseteq Nat /\ Len(text) \in Stops
  OBVIOUS
<1>2. PICK e \in Stops : \A m \in Stops : e <= m
  BY <1>1, LeastNumber
<1>3. ASSUME NEW i \in (at + 1) .. e, text[i] = boundary
      PROVE  FALSE
  <2>1. i \in Int /\ e \in Int /\ i <= e
    BY <1>2
  <2>2. i - 1 \in Stops
    BY <1>2, <1>3
  <2>3. e <= i - 1
    BY <2>2, <1>2
  <2>4. QED
    BY <2>1, <2>3
<1>4. \E x \in at .. Len(text) :
        /\ \A i \in (at + 1) .. x : text[i] # boundary
        /\ x = Len(text) \/ text[x + 1] = boundary
  BY <1>2, <1>3
<1> DEFINE IsEnd(x) == /\ \A i \in (at + 1) .. x : text[i] # boundary
                       /\ x = Len(text) \/ text[x + 1] = boundary
<1>5. SectionEnd(text, boundary, at) = CHOOSE x \in at .. Len(text) : IsEnd(x)
  BY DEF SectionEnd
<1>6. \E x \in at .. Len(text) : IsEnd(x)
  BY <1>4
<1>7. LET end == SectionEnd(text, boundary, at) IN end \in at .. Len(text) /\ IsEnd(end)
  <2> HIDE DEF IsEnd
  <2>1. QED
    BY <1>5, <1>6
<1>8. QED
  BY <1>7

(* Every line that is not a boundary lies in the body of a section: that of *)
(* the last boundary before it, or the preamble.                            *)
LEMMA SectionsCover ==
    ASSUME NEW text, Len(text) \in Nat, NEW boundary,
           NEW i \in 1 .. Len(text), text[i] # boundary
    PROVE  \E s \in Sections(text, boundary) :
             /\ s.from \in 1 .. i /\ s.to \in i .. Len(text)
             /\ s.head \in {0, s.from - 1}
<1> DEFINE B == Boundaries(text, boundary)
           Back == {i - b : b \in {b \in B : b < i}}
<1>1. B \subseteq 1 .. Len(text) /\ \A j \in 1 .. Len(text) : text[j] = boundary <=> j \in B
  BY DEF Boundaries
<1>2. CASE B = {}
  <2>1. Chunk(0, 1, Len(text)) \in Sections(text, boundary)
    BY <1>2 DEF Sections
  <2>2. QED
    BY <2>1 DEF Chunk
<1>3. CASE B # {} /\ Back # {}
  <2>1. Back \subseteq Nat
    BY <1>1
  <2>2. PICK n \in Back : \A m \in Back : n <= m
    BY <1>3, <2>1, LeastNumber
  <2>3. PICK b \in B : b < i /\ n = i - b
    BY <2>2
  <2>4. ASSUME NEW j \in (b + 1) .. i
        PROVE  text[j] # boundary
    <3>1. CASE j = i
      BY <3>1
    <3>2. CASE j < i /\ j \in B
      <4>1. i - j \in Back
        BY <3>2
      <4>2. n <= i - j
        BY <4>1, <2>2
      <4>3. b \in Int /\ j \in Int /\ i \in Int
        BY <1>1
      <4>4. QED
        BY <2>3, <4>2, <4>3
    <3>3. CASE j < i /\ j \notin B
      BY <3>3, <1>1
    <3>4. QED
      BY <3>1, <3>2, <3>3, <1>1
  <2> DEFINE e == SectionEnd(text, boundary, b)
  <2>5. e \in b .. Len(text) /\ (e = Len(text) \/ text[e + 1] = boundary)
    BY <1>1, SectionEnds
  <2> HIDE DEF e
  <2>6. i <= e
    <3>1. SUFFICES ASSUME e < i PROVE FALSE
      BY <2>5, <1>1
    <3>2. e + 1 \in (b + 1) .. i
      BY <3>1, <2>5, <1>1
    <3>3. QED
      BY <3>1, <3>2, <2>4, <2>5, <1>1
  <2>7. Chunk(b, b + 1, e) \in Sections(text, boundary)
    BY <1>3 DEF Sections, e
  <2>8. b \in 1 .. Len(text) /\ b + 1 \in 1 .. i /\ e \in i .. Len(text) /\ b = (b + 1) - 1
    BY <2>3, <2>5, <2>6, <1>1
  <2>9. QED
    BY <2>7, <2>8 DEF Chunk
<1>4. CASE B # {} /\ Back = {}
  <2>1. \A b \in B : i < b
    BY <1>1, <1>4
  <2>2. 1 \notin B
    BY <2>1
  <2> DEFINE e == SectionEnd(text, boundary, 1)
  <2>3. e \in 1 .. Len(text) /\ (e = Len(text) \/ text[e + 1] = boundary)
    BY <1>1, SectionEnds
  <2> HIDE DEF e
  <2>4. i <= e
    <3>1. SUFFICES ASSUME e < i PROVE FALSE
      BY <2>3
    <3>2. e + 1 \in 1 .. i /\ text[e + 1] = boundary
      BY <3>1, <2>3
    <3>3. QED
      BY <3>2, <2>1, <1>1
  <2>5. Chunk(0, 1, e) \in Sections(text, boundary)
    BY <1>4, <2>2 DEF Sections, e
  <2>6. QED
    BY <2>3, <2>4, <2>5 DEF Chunk
<1>5. QED
  BY <1>2, <1>3, <1>4

(* Markdown, tables, slides and web pages.                                  *)
LEMMA MarkdownCovers ==
    ASSUME NEW text, Len(text) \in Nat, NEW i \in 1 .. Len(text), text[i] # "heading"
    PROVE  \E c \in ByMarkdown(text) : i \in c.from .. c.to
<1>1. PICK s \in Sections(text, "heading") :
        s.from \in 1 .. i /\ s.to \in i .. Len(text)
  BY SectionsCover
<1>2. s \in {x \in Sections(text, "heading") : x.from <= x.to}
  BY <1>1
<1> DEFINE length(x) == x.to - x.from + 1 + (IF x.head = 0 THEN 0 ELSE 1)
           pieces(x) == IF length(x) <= ChunkSize THEN {x} ELSE SplitText(x.head, x.from, x.to)
<1>3. pieces(s) \subseteq ByMarkdown(text)
  BY <1>2 DEF ByMarkdown
<1>4. \E c \in pieces(s) : i \in c.from .. c.to
  <2>1. CASE length(s) <= ChunkSize
    BY <2>1, <1>1
  <2>2. CASE ~(length(s) <= ChunkSize)
    <3>1. \E c \in SplitText(s.head, s.from, s.to) : i \in c.from .. c.to
      BY <1>1, SplitCovers
    <3>2. QED
      BY <2>2, <3>1
  <2>3. QED
    BY <2>1, <2>2
<1>5. QED
  BY <1>3, <1>4

(* Source code.                                                             *)
LEMMA CodeCovers ==
    ASSUME NEW text, Len(text) \in Nat, NEW i \in 1 .. Len(text), text[i] # "def"
    PROVE  \E c \in ByCode(text) : i \in c.from .. c.to
<1>1. PICK s \in Sections(text, "def") :
        /\ s.from \in 1 .. i /\ s.to \in i .. Len(text)
        /\ s.head \in {0, s.from - 1}
  BY SectionsCover
<1> DEFINE from(x) == IF x.head = 0 THEN x.from ELSE x.head
           pieces(x) == IF x.to - from(x) + 1 <= ChunkSize THEN {Chunk(0, from(x), x.to)}
                        ELSE SplitText(0, from(x), x.to)
<1>2. pieces(s) \subseteq ByCode(text)
  BY DEF ByCode
<1>3. from(s) \in Nat /\ s.to \in Nat /\ i \in from(s) .. s.to
  BY <1>1
<1>4. \E c \in pieces(s) : i \in c.from .. c.to
  <2> HIDE DEF from
  <2>1. CASE s.to - from(s) + 1 <= ChunkSize
    BY <2>1, <1>3 DEF Chunk
  <2>2. CASE ~(s.to - from(s) + 1 <= ChunkSize)
    <3>1. \E c \in SplitText(0, from(s), s.to) : i \in c.from .. c.to
      BY <1>3, SplitCovers
    <3>2. QED
      BY <2>2, <3>1
  <2>3. QED
    BY <2>1, <2>2
<1>5. QED
  BY <1>2, <1>4

(* chunk_document leaves no line of text out, whatever the type of the      *)
(* file, the place of its headings and definitions and the size of a chunk. *)
THEOREM EveryLineIsInAChunk ==
    ASSUME NEW text \in Seq(Lines), NEW type \in FileTypes,
           NEW i \in 1 .. Len(text), text[i] = "text"
    PROVE  \E c \in ChunkDocument(text, type) : i \in c.from .. c.to
<1>1. Len(text) \in Nat /\ Len(text) # 0
  BY LenProperties
<1>2. CASE type \in {"markdown", "table"}
  <2>1. ChunkDocument(text, type) = ByMarkdown(text)
    BY <1>1, <1>2 DEF ChunkDocument, Blank
  <2>2. QED
    BY <1>1, <2>1, MarkdownCovers
<1>3. CASE type = "code"
  <2>1. ChunkDocument(text, type) = ByCode(text)
    BY <1>1, <1>3 DEF ChunkDocument, Blank
  <2>2. QED
    BY <1>1, <2>1, CodeCovers
<1>4. CASE type = "plain"
  <2>1. ChunkDocument(text, type) = SplitText(0, 1, Len(text))
    BY <1>1, <1>4 DEF ChunkDocument, Blank, ByParagraph
  <2>2. QED
    BY <1>1, <2>1, SplitCovers
<1>5. QED
  BY <1>2, <1>3, <1>4 DEF FileTypes

(* The pieces of the splitter start at numbers.                             *)
LEMMA SplitStarts ==
    ASSUME NEW head, NEW from \in Nat, NEW to \in Int, NEW c \in SplitText(head, from, to)
    PROVE  c.from \in Nat
<1>1. PICK k \in 0 .. ((to - from) \div ChunkSize) : c.from = from + k * ChunkSize
  BY DEF SplitText, Chunk
<1>2. ChunkSize \in Nat /\ k \in Nat
  BY <1>1, ChunkingAssumption, Z3T(30)
<1>3. k * ChunkSize \in Nat
  BY <1>2
<1>4. QED
  BY <1>1, <1>3

LEMMA SectionStarts ==
    ASSUME NEW text, Len(text) \in Nat \ {0}, NEW boundary, NEW s \in Sections(text, boundary)
    PROVE  s.from \in Nat /\ s.to \in Nat /\ s.head \in Nat
<1>1. CASE s = Chunk(0, 1, Len(text))
  BY <1>1 DEF Chunk
<1>2. ASSUME NEW b \in Boundaries(text, boundary),
             s = Chunk(b, b + 1, SectionEnd(text, boundary, b))
      PROVE  s.from \in Nat /\ s.to \in Nat /\ s.head \in Nat
  <2>1. b \in 1 .. Len(text)
    BY DEF Boundaries
  <2>2. SectionEnd(text, boundary, b) \in b .. Len(text)
    BY <2>1, SectionEnds
  <2>3. QED
    BY <1>2, <2>1, <2>2 DEF Chunk
<1>3. CASE s = Chunk(0, 1, SectionEnd(text, boundary, 1))
  <2>1. SectionEnd(text, boundary, 1) \in 1 .. Len(text)
    BY SectionEnds
  <2>2. QED
    BY <1>3, <2>1 DEF Chunk
<1>4. QED
  BY <1>1, <1>2, <1>3 DEF Sections

(* The chunks of a document are ordered by the lines they start at.         *)
LEMMA ChunksStartAtLines ==
    ASSUME NEW text \in Seq(Lines), NEW type \in FileTypes,
           NEW c \in ChunkDocument(text, type)
    PROVE  c.from \in Nat
<1>1. Len(text) \in Nat
  BY LenProperties
<1>2. Len(text) # 0
  BY DEF ChunkDocument, Blank
<1>3. CASE c \in ByMarkdown(text)
  <2>1. PICK s \in Sections(text, "heading") : c = s \/ c \in SplitText(s.head, s.from, s.to)
    BY <1>3 DEF ByMarkdown
  <2>2. s.from \in Nat /\ s.to \in Nat
    BY <1>1, <1>2, SectionStarts
  <2>3. QED
    BY <2>1, <2>2, SplitStarts
<1>4. CASE c \in ByCode(text)
  <2> DEFINE from(s) == IF s.head = 0 THEN s.from ELSE s.head
  <2>1. PICK s \in Sections(text, "def") :
          c = Chunk(0, from(s), s.to) \/ c \in SplitText(0, from(s), s.to)
    BY <1>4 DEF ByCode
  <2>2. from(s) \in Nat /\ s.to \in Nat
    BY <1>1, <1>2, SectionStarts
  <2>3. QED
    BY <2>1, <2>2, SplitStarts DEF Chunk
<1>5. CASE c \in SplitText(0, 1, Len(text))
  BY <1>1, <1>5, SplitStarts
<1>6. QED
  BY <1>2, <1>3, <1>4, <1>5 DEF ChunkDocument, Blank, ByParagraph, FileTypes
=============================================================================
