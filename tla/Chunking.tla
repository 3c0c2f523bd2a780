------------------------------ MODULE Chunking ------------------------------
(***************************************************************************)
(* How a document becomes chunks: agentflow/knowledge/chunking.py and the  *)
(* dispatch of parser.py, as operators.  A text is a sequence of lines of  *)
(* equal length: "heading" (a Markdown heading, what the HTML, Excel and   *)
(* PowerPoint readers write as one), "def" (what opens a definition in     *)
(* source code) and "text".  ChunkSize is counted in lines.  The splitter  *)
(* is a library: it is taken to cut a body into consecutive pieces of at   *)
(* most ChunkSize lines; its overlap repeats text and is left out.         *)
(***************************************************************************)
EXTENDS Integers, Sequences

CONSTANT ChunkSize

ASSUME ChunkingAssumption == ChunkSize \in Nat \ {0}

Lines == {"heading", "def", "text"}
FileTypes == {"markdown", "table", "code", "plain"}

(* A chunk: the lines from..to, under the line head (0: under none).        *)
Chunk(head, from, to) == [head |-> head, from |-> from, to |-> to]

(* The library's splitter on the lines from..to.                            *)
SplitText(head, from, to) ==
    {Chunk(head, from + k * ChunkSize,
           IF from + (k + 1) * ChunkSize - 1 < to THEN from + (k + 1) * ChunkSize - 1 ELSE to) :
        k \in 0..((to - from) \div ChunkSize)}

(* The line before the next boundary, or the last line.                     *)
SectionEnd(text, boundary, at) ==
    CHOOSE e \in at..Len(text) :
        /\ \A i \in (at + 1)..e : text[i] # boundary
        /\ e = Len(text) \/ text[e + 1] = boundary

(* The lines at which a text is cut.                                        *)
Boundaries(text, boundary) == {i \in 1..Len(text) : text[i] = boundary}

(* Mutant: what stands before the first boundary is not a section.          *)
SectionsWithoutPreamble(text, boundary) ==
    IF Boundaries(text, boundary) = {}
    THEN {Chunk(0, 1, Len(text))}
    ELSE {Chunk(b, b + 1, SectionEnd(text, boundary, b)) : b \in Boundaries(text, boundary)}
(* _split_by_heading and _split_by_code_boundary: a section for every       *)
(* boundary, one for the text before the first, the whole text if there is  *)
(* none.                                                                    *)
Sections(text, boundary) ==
    IF Boundaries(text, boundary) = {}
    THEN {Chunk(0, 1, Len(text))}
    ELSE {Chunk(b, b + 1, SectionEnd(text, boundary, b)) : b \in Boundaries(text, boundary)}
         \union {Chunk(0, 1, SectionEnd(text, boundary, 1)) :
                    first \in {1} \ Boundaries(text, boundary)}

Blank(text) == Len(text) = 0

(* chunk_by_markdown, and chunk_by_html, chunk_by_table and chunk_by_slide, *)
(* which come to the same: a heading without a body is dropped, a section   *)
(* too long is split and its heading repeated over every piece.             *)
ByMarkdown(text) ==
    UNION {LET length == s.to - s.from + 1 + (IF s.head = 0 THEN 0 ELSE 1)
           IN  IF length <= ChunkSize THEN {s} ELSE SplitText(s.head, s.from, s.to) :
              s \in {s \in Sections(text, "heading") : s.from <= s.to}}

(* chunk_by_code: the line that opens a definition belongs to its body and  *)
(* is not repeated.                                                         *)
ByCode(text) ==
    UNION {LET from == IF s.head = 0 THEN s.from ELSE s.head
           IN  IF s.to - from + 1 <= ChunkSize THEN {Chunk(0, from, s.to)}
               ELSE SplitText(0, from, s.to) :
              s \in Sections(text, "def")}

ByParagraph(text) == SplitText(0, 1, Len(text))

(* chunk_document.                                                          *)
ChunkDocument(text, type) ==
    IF Blank(text) THEN {}
    ELSE CASE type \in {"markdown", "table"} -> ByMarkdown(text)
           [] type = "code" -> ByCode(text)
           [] OTHER -> ByParagraph(text)
=============================================================================
