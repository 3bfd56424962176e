--------------------------- MODULE DocumentParsing ---------------------------
(***************************************************************************)
(* From one uploaded file to the chunks that are indexed: MarkdownParser,  *)
(* parse_pdf_to_documents, parse_html and the paragraph formats, then the  *)
(* splitting of large sections and the parent rows small-to-big retrieval  *)
(* swaps a chunk for.  A text is a value; a file is what the extractors    *)
(* can see of it.  DocumentIngestion's step TaskParse is this module.      *)
(***************************************************************************)
EXTENDS Naturals, FiniteSets, SequencesExt

CONSTANTS
    Files,      \* the files to be parsed
    LargeFrom,  \* a section of this many texts is over the chunk threshold
    NoParent    \* what a chunk without a parent section carries

IsSeq(s) == s \in Seq(ToSet(s))

IsMarkdown(f) ==
    /\ f.preamble \in [marks : Nat, texts : Seq(ToSet(f.preamble.texts))]
    /\ IsSeq(f.parts)
    /\ \A i \in DOMAIN f.parts : f.parts[i].level \in Nat \ {0} /\ IsSeq(f.parts[i].paras)

IsPdf(f) == IsSeq(f.pdfium) /\ IsSeq(f.pypdf) /\ f.layout \in Seq({"row", "text", "blank"})

\* HTML has headings among its texts, the other formats have texts only.
IsPlain(f) ==
    /\ IsSeq(f.elements)
    /\ \A i \in DOMAIN f.elements :
          f.elements[i].heading \in BOOLEAN /\ (f.elements[i].heading => f.kind = "html")

\* What RecursivePieces says of a large section takes two texts.
ASSUME ParsingAssumption ==
    /\ LargeFrom \in Nat \ {0, 1}
    /\ NoParent \notin Nat
    /\ \A f \in Files : \/ f.kind = "md" /\ IsMarkdown(f)
                        \/ f.kind = "pdf" /\ IsPdf(f)
                        \/ f.kind \in {"html", "docx", "pptx", "txt"} /\ IsPlain(f)

VARIABLES file, stage, sections, chunks, parents

parsingVars == <<file, stage, sections, chunks, parents>>

\* The members of s at the positions in P, in their order.
Sift(s, P) ==
    LET kept[n \in 0..Len(s)] ==
          IF n = 0 THEN <<>> ELSE IF n \in P THEN Append(kept[n - 1], s[n]) ELSE kept[n - 1]
    IN  kept[Len(s)]

Positions(s) == [i \in DOMAIN s |-> i]

-----------------------------------------------------------------------------
(***************************************************************************)
(* Markdown.  re.split leaves the text before the first heading, then a    *)
(* heading and a body in turn; marks counts the leading # of a cell.       *)
(***************************************************************************)

Heading(part) == [marks |-> part.level, texts |-> <<part.title>>]
Body(part) == [marks |-> 0, texts |-> part.paras]

Cells(f) == <<f.preamble>> \o FlattenSeq([i \in DOMAIN f.parts |-> <<Heading(f.parts[i]), Body(f.parts[i])>>])

Element(title, level, texts, up) == [title |-> title, level |-> level, texts |-> texts, up |-> up]

\* Mutation of Popped: a sibling stays on the stack.
PoppedDeeper(stack, level) == Sift(stack, {i \in DOMAIN stack : stack[i].level <= level})

\* The stack keeps the titles a deeper heading hangs under.
Popped(stack, level) == Sift(stack, {i \in DOMAIN stack : stack[i].level < level})

TopOf(stack) == IF stack = <<>> THEN 0 ELSE Last(stack).at

\* One heading and its body: the title, then each paragraph under it.
LoadPair(loaded, heading, body) ==
    LET stack == Popped(loaded.stack, heading.marks)
        at == Len(loaded.elements) + 1
        title == Element(TRUE, heading.marks, heading.texts, TopOf(stack))
        paras == [i \in DOMAIN body.texts |-> Element(FALSE, 0, <<body.texts[i]>>, at)]
    IN  IF heading.texts = <<>> THEN loaded
        ELSE [elements |-> loaded.elements \o <<title>> \o paras,
              stack |-> Append(stack, [at |-> at, level |-> heading.marks])]

\* _simple_markdown_load.  A first cell that starts with # is not taken for a
\* preamble and shifts every pair by one.
Loaded(f) ==
    LET cells == Cells(f)
        shifted == cells[1].marks > 0
        pre == IF shifted \/ cells[1].texts = <<>> THEN <<>>
               ELSE <<Element(FALSE, 0, cells[1].texts, 0)>>
        rest == IF shifted THEN cells ELSE Tail(cells)
        pairs == [i \in 1..(Len(rest) \div 2) |-> [heading |-> rest[2*i - 1], body |-> rest[2*i]]]
    IN  FoldLeft(LAMBDA l, p : LoadPair(l, p.heading, p.body),
                 [elements |-> pre, stack |-> <<>>], pairs).elements

\* _dfs_compute_title_info: a title's path is its parent's path and itself.
TitlePath(elements) ==
    LET path[i \in 0..Len(elements)] ==
          IF i = 0 THEN <<>>
          ELSE IF elements[i].title THEN path[elements[i].up] \o elements[i].texts
          ELSE path[elements[i].up]
    IN  path

\* The texts whose nearest title is t.
Bucket(elements, t) ==
    Sift(Positions(elements), {i \in DOMAIN elements : ~elements[i].title /\ elements[i].up = t})

\* _merge_by_precomputed: one section per title with content, and the text that
\* stands under no title as it is, without an index.
Merged(elements) ==
    LET kept == Sift(Positions(elements),
                     {i \in DOMAIN elements : IF elements[i].title THEN Bucket(elements, i) # <<>>
                                              ELSE elements[i].up = 0})
        Section(i) ==
          IF elements[i].title
          THEN [path |-> TitlePath(elements)[i], index |-> i,
                texts |-> FlattenSeq([j \in DOMAIN Bucket(elements, i) |-> elements[Bucket(elements, i)[j]].texts])]
          ELSE [path |-> <<>>, index |-> NoParent, texts |-> elements[i].texts]
    IN  [k \in DOMAIN kept |-> Section(kept[k])]

-----------------------------------------------------------------------------
(***************************************************************************)
(* PDF.  What an extractor makes of a page is "full", "short" (less text   *)
(* than PDF_OCR_MIN_TEXT_CHARS) or "failed"; an extractor that cannot open *)
(* the file has no pages.  The lines of a full page are rows of a table,   *)
(* text or blank.                                                          *)
(***************************************************************************)

Full(pages, i) == i \in DOMAIN pages /\ pages[i] = "full"

\* any(not _has_enough_text(page.text) ...): a page that failed is None, and
\* None has no text; a short page before it ends the search.
LooksAtNone(pages) ==
    \E i \in DOMAIN pages : pages[i] = "failed" /\ \A j \in 1..(i-1) : pages[j] = "full"

NeedsFallback(pages) == pages = <<>> \/ \E i \in DOMAIN pages : pages[i] # "full"

PageCount(f) ==
    IF NeedsFallback(f.pdfium) /\ Len(f.pypdf) > Len(f.pdfium) THEN Len(f.pypdf) ELSE Len(f.pdfium)

\* Who the text of page i is taken from.
ParserOf(f, i) ==
    IF Full(f.pdfium, i) THEN "pdfium"
    ELSE IF NeedsFallback(f.pdfium) /\ Full(f.pypdf, i) THEN "pypdf"
    ELSE IF f.ocrOn /\ Full(f.ocr, i) THEN "ocr"
    ELSE "nobody"

PagesRead(f) == {i \in 1..PageCount(f) : ParserOf(f, i) # "nobody"}

\* A block of the page under construction: text lines and table lines.
FlushText(b) ==
    IF b.text = <<>> THEN b
    ELSE [b EXCEPT !.text = <<>>, !.blocks = Append(@, [type |-> "text", lines |-> b.text])]

\* Mutation of FlushTable: a single row is dropped.
FlushTableLoosely(b) ==
    IF Len(b.table) < 2 THEN [b EXCEPT !.table = <<>>]
    ELSE [b EXCEPT !.table = <<>>, !.blocks = Append(@, [type |-> "table", lines |-> b.table])]

\* A single row is no table: it becomes a text line.
FlushTable(b) ==
    IF Len(b.table) < 2 THEN [b EXCEPT !.table = <<>>, !.text = @ \o b.table]
    ELSE [b EXCEPT !.table = <<>>, !.blocks = Append(@, [type |-> "table", lines |-> b.table])]

ReadLine(b, line) ==
    CASE line.kind = "blank" -> FlushText(FlushTable(b))
      [] line.kind = "row" -> [FlushText(b) EXCEPT !.table = Append(@, line)]
      [] OTHER -> [FlushTable(b) EXCEPT !.text = Append(@, line)]

\* _blocks_from_page_text.  Without PDF_EXTRACT_TABLES a row is a text line.
BlocksOf(f, lines) ==
    LET Plain(line) == IF line.kind = "row" /\ ~f.tables THEN [line EXCEPT !.kind = "text"] ELSE line
        read == FoldLeft(ReadLine, [text |-> <<>>, table |-> <<>>, blocks |-> <<>>],
                         [i \in DOMAIN lines |-> Plain(lines[i])])
    IN  FlushText(FlushTable(read)).blocks

PageLines(f, i) ==
    [k \in DOMAIN f.layout |-> [kind |-> f.layout[k], text |-> <<ParserOf(f, i), i, k>>]]

TextsOf(lines) == [i \in DOMAIN lines |-> lines[i].text]

PageSections(f, i) ==
    LET blocks == BlocksOf(f, PageLines(f, i))
    IN  IF i \notin PagesRead(f) THEN <<>>
        ELSE [k \in DOMAIN blocks |-> [path |-> <<>>, index |-> TextsOf(blocks[k].lines),
                                       texts |-> TextsOf(blocks[k].lines)]]

-----------------------------------------------------------------------------
(***************************************************************************)
(* HTML: what stands between two headings is one section, dropped when it  *)
(* is shorter than four characters; "tiny" texts reach four in pairs.      *)
(* DOCX, PPTX and plain text: a section per paragraph or slide.            *)
(***************************************************************************)

Tiny(texts) == Len(texts) = 1 /\ texts[1].tiny

Plainly(texts) == [path |-> <<>>, index |-> texts, texts |-> texts]

FlushBuffer(h) ==
    IF h.buffer = <<>> \/ Tiny(h.buffer) THEN [h EXCEPT !.buffer = <<>>]
    ELSE [docs |-> Append(h.docs, h.buffer), buffer |-> <<>>]

See(h, el) == IF el.heading THEN FlushBuffer(h) ELSE [h EXCEPT !.buffer = Append(@, el)]

HtmlTexts(f) == FlushBuffer(FoldLeft(See, [docs |-> <<>>, buffer |-> <<>>], f.elements)).docs

ParagraphTexts(f) ==
    LET all == [i \in DOMAIN f.elements |-> <<f.elements[i]>>]
    IN  Sift(all, {i \in DOMAIN all : f.kind = "txt" \/ ~Tiny(all[i])})

-----------------------------------------------------------------------------
(***************************************************************************)
(* The parser of the file's extension; a parser that raises leaves the     *)
(* document failed.                                                        *)
(***************************************************************************)

Raises(f) == f.kind = "pdf" /\ (LooksAtNone(f.pdfium) \/ PagesRead(f) = {})

SectionsOf(f) ==
    CASE f.kind = "md" -> Merged(Loaded(f))
      [] f.kind = "pdf" -> FlattenSeq([i \in 1..PageCount(f) |-> PageSections(f, i)])
      [] f.kind = "html" -> [i \in DOMAIN HtmlTexts(f) |-> Plainly(HtmlTexts(f)[i])]
      [] OTHER -> [i \in DOMAIN ParagraphTexts(f) |-> Plainly(ParagraphTexts(f)[i])]

Large(section) == Len(section.texts) >= LargeFrom

Fresh(section) == [section |-> section, chunked |-> FALSE]

Parse ==
    /\ stage = "parse"
    /\ \/ Raises(file) /\ stage' = "failed" /\ UNCHANGED sections
       \/ /\ ~Raises(file)
          /\ stage' = "chunk"
          /\ sections' = [i \in DOMAIN SectionsOf(file) |-> Fresh(SectionsOf(file)[i])]
    /\ UNCHANGED <<file, chunks, parents>>

\* _parent_id_for, _tag_parent: the row is written before any chunk carries its
\* id; a write that raises is logged and the id handed out all the same.
StoreParents(kept) ==
    \E stored \in SUBSET kept :
      parents' = [s \in DOMAIN parents \union {k.index : k \in stored} |->
                    IF \E k \in stored : k.index = s THEN (CHOOSE k \in stored : k.index = s).texts
                    ELSE parents[s]]

Chunk(section, texts, span) == [texts |-> texts, parent |-> section.index, span |-> span]

\* Where _maybe_apply_late_chunking finds a piece: at or after the cursor.
Found(piece, texts, cursor) ==
    {i \in cursor..(Len(texts) - Len(piece) + 1) : SubSeq(texts, i, i + Len(piece) - 1) = piece}

\* Mutation of Advance: every piece is searched from the start of the section.
AdvanceNot(cursor, start, piece) == 1

Advance(cursor, start, piece) == start + Len(piece)

Locate(s, piece, texts) ==
    LET starts == Found(piece, texts, s.cursor)
        start == CHOOSE i \in starts : \A j \in starts : i <= j
    IN  IF ~s.ok \/ starts = {} THEN [s EXCEPT !.ok = FALSE]
        ELSE [s EXCEPT !.cursor = Advance(s.cursor, start, piece), !.spans = Append(@, start)]

\* The spans of the pieces; none when one of them is not found.
Spans(pieces, texts) ==
    FoldLeft(LAMBDA s, piece : Locate(s, piece, texts), [ok |-> TRUE, cursor |-> 1, spans |-> <<>>], pieces)

\* SemanticChunker's answer, RecursiveCharacterTextSplitter's with its overlap.
SemanticPieces(texts) == [i \in DOMAIN texts |-> <<texts[i]>>]
RecursivePieces(texts) == [i \in 1..(Len(texts) - 1) |-> <<texts[i], texts[i + 1]>>]

\* Mutation of Pieces: a section neither splitter could split has no piece.
PiecesIfSplit(texts) == {SemanticPieces(texts), RecursivePieces(texts), <<>>}

\* Either splitter may be missing or raise; then the section is kept whole.
Pieces(texts) == {SemanticPieces(texts), RecursivePieces(texts), <<texts>>}

KeepSmall ==
    LET small == {i \in DOMAIN sections : ~Large(sections[i].section)}
        kept == Sift([i \in DOMAIN sections |-> sections[i].section], small)
    IN
    /\ stage = "chunk"
    /\ StoreParents({sections[i].section : i \in {j \in small : sections[j].section.index # NoParent}})
    /\ chunks' = [k \in DOMAIN kept |-> Chunk(kept[k], kept[k].texts, 0)]
    /\ sections' = [i \in DOMAIN sections |-> [sections[i] EXCEPT !.chunked = i \in small]]
    /\ stage' = "split"
    /\ UNCHANGED file

\* One large section, in document order.  Only Markdown sections are embedded
\* late, and only when the encoder answers.
SplitLarge ==
    \E i \in DOMAIN sections :
      LET s == sections[i].section IN
      /\ stage = "split"
      /\ ~sections[i].chunked /\ \A j \in 1..(i-1) : sections[j].chunked
      /\ StoreParents(IF s.index = NoParent THEN {} ELSE {s})
      /\ \E pieces \in Pieces(s.texts), late \in BOOLEAN :
           LET spans == Spans(pieces, s.texts)
               Start(k) == IF late /\ file.kind = "md" /\ spans.ok THEN spans.spans[k] ELSE 0
           IN  chunks' = chunks \o [k \in DOMAIN pieces |-> Chunk(s, pieces[k], Start(k))]
      /\ sections' = [sections EXCEPT ![i].chunked = TRUE]
      /\ UNCHANGED <<file, stage>>

Chunked ==
    /\ stage = "split"
    /\ \A i \in DOMAIN sections : sections[i].chunked
    /\ stage' = "done"
    /\ UNCHANGED <<file, sections, chunks, parents>>

ParsingInit ==
    /\ file \in Files
    /\ stage = "parse"
    /\ sections = <<>>
    /\ chunks = <<>>
    /\ parents = [s \in {} |-> <<>>]

ParsingNext == Parse \/ KeepSmall \/ SplitLarge \/ Chunked

ParsingSpec == ParsingInit /\ [][ParsingNext]_parsingVars

-----------------------------------------------------------------------------
(***************************************************************************)
(* What is in the file, said without the parsers.                          *)
(***************************************************************************)

\* The heading a heading hangs under: the last one before it that is shallower.
Above(f, i) == {j \in 1..(i-1) : f.parts[j].level < f.parts[i].level}

HeadingPath(f) ==
    LET path[i \in 0..Len(f.parts)] ==
          IF i = 0 THEN <<>>
          ELSE Append(IF Above(f, i) = {} THEN <<>>
                      ELSE path[CHOOSE j \in Above(f, i) : \A k \in Above(f, i) : k <= j],
                      f.parts[i].title)
    IN  path

\* The sections a reader sees in a Markdown file.
Outline(f) ==
    LET filled == Sift(Positions(f.parts), {i \in DOMAIN f.parts : f.parts[i].paras # <<>>})
    IN  (IF f.preamble.texts = <<>> THEN <<>> ELSE << <<(<<>>), f.preamble.texts>> >>)
        \o [k \in DOMAIN filled |-> <<HeadingPath(f)[filled[k]], f.parts[filled[k]].paras>>]

\* The texts of the other formats, in order; blank lines are no text.
Reading(f) ==
    LET Visible(i) == Sift(PageLines(f, i), {k \in DOMAIN f.layout : f.layout[k] # "blank"})
    IN  CASE f.kind = "pdf" ->
               FlattenSeq([i \in 1..PageCount(f) |->
                             IF i \in PagesRead(f) THEN TextsOf(Visible(i)) ELSE <<>>])
          [] OTHER -> Sift(f.elements, {i \in DOMAIN f.elements : ~f.elements[i].heading})

LongOf(texts) == Sift(texts, {i \in DOMAIN texts : ~texts[i].tiny})

SectionAt(i) == sections[i].section

ChunksOf(s) == {k \in DOMAIN chunks : chunks[k].parent = s.index}

\* Every paragraph of a Markdown file is in exactly one section, below the
\* headings it stands under and in the order of the file (_precompute_links,
\* _merge_by_precomputed); a file that begins with a # that is no heading is
\* loaded shifted and excepted.
SectionsFollowHeadings ==
    file.kind = "md" /\ file.preamble.marks = 0 /\ stage # "parse" =>
        [i \in DOMAIN sections |-> <<SectionAt(i).path, SectionAt(i).texts>>] = Outline(file)

\* The sections of the other formats are the file's text in its order, but for
\* what is shorter than four characters (_blocks_from_page_text, parse_html).
TextIsKept ==
    file.kind # "md" /\ stage \notin {"parse", "failed"} =>
        LET kept == FlattenSeq([i \in DOMAIN sections |-> SectionAt(i).texts])
            all == Reading(file)
        IN  IF file.kind \in {"pdf", "txt"} THEN kept = all
            ELSE LongOf(kept) = LongOf(all)

\* Whatever the splitters and the parent store do, each text of each section is
\* in a chunk of that section, each chunk is a stretch of it, and the parent row
\* a chunk leads to is its own section (_chunk_documents, _split_documents).
ChunksCoverSections ==
    stage = "done" =>
        \A i \in DOMAIN sections : LET s == SectionAt(i) IN
          /\ \A t \in ToSet(s.texts) : \E k \in ChunksOf(s) : t \in ToSet(chunks[k].texts)
          /\ \A k \in ChunksOf(s) : Found(chunks[k].texts, s.texts, 1) # {}
          /\ s.index \in DOMAIN parents => parents[s.index] = s.texts

\* The pieces of a section that carry a late vector were embedded from spans that
\* hold their own text and do not overlap, in the order of the pieces
\* (_maybe_apply_late_chunking).
LateSpansAreOwn ==
    \A k, l \in DOMAIN chunks :
      /\ k < l /\ chunks[k].parent = chunks[l].parent /\ chunks[k].span > 0 /\ chunks[l].span > 0
      => chunks[k].span + Len(chunks[k].texts) <= chunks[l].span

\* "The ingestion path should index whatever text can be reliably extracted
\* without failing the whole file because one page is image-only or one parser
\* cannot handle a page object" (the module comment of pdf_parser.py): a PDF is
\* failed only if no extractor reads any of its pages.
ReadableIsIndexed ==
    stage = "failed" => PagesRead(file) = {}
=============================================================================
