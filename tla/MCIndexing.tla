------------------------------ MODULE MCIndexing ------------------------------
(***************************************************************************)
(* What an upload becomes, for TLC: DocumentParsing and GenerationStores.  *)
(* The two share no variable, so no order of their steps is of interest:   *)
(* each is explored from an initial state of the other.                     *)
(***************************************************************************)
EXTENDS GenerationStores, DocumentParsing, TLC

\* Every outline of up to three headings of two levels over bodies that repeat
\* a paragraph or not.
Bodies == {<<>>, <<"a">>, <<"a", "a">>}
Parts == {<<>>} \union UNION {[1..n -> [level : {1, 2}, paras : Bodies]] : n \in 1..3}
Titled(parts) ==
    [i \in DOMAIN parts |->
       [level |-> parts[i].level, paras |-> parts[i].paras, title |-> <<"title", i>>]]
Preambles == {[marks |-> 0, texts |-> <<>>], [marks |-> 0, texts |-> <<"a", "b">>],
              [marks |-> 1, texts |-> <<"a">>]}
Markdown == {[kind |-> "md", preamble |-> p, parts |-> Titled(s)] : p \in Preambles, s \in Parts}

\* Every layout of a page of up to four lines; every way two pages are read.
Layouts == UNION {[1..n -> {"row", "text", "blank"}] : n \in 1..4}
Looks == {"full", "short", "failed"}
Pdf(layout, tables, pdfium, pypdf, ocrOn, ocr) ==
    [kind |-> "pdf", layout |-> layout, tables |-> tables,
     pdfium |-> pdfium, pypdf |-> pypdf, ocrOn |-> ocrOn, ocr |-> ocr]
Laid == {Pdf(l, t, <<"full">>, <<>>, FALSE, <<"failed">>) : l \in Layouts, t \in BOOLEAN}
Opened == {<<>>} \union [1..2 -> Looks]
Read == {Pdf(<<"text", "row">>, TRUE, a, b, o, c) :
           a \in Opened, b \in Opened, o \in BOOLEAN, c \in [1..2 -> {"full", "failed"}]}

Texts == UNION {[1..n -> [heading : BOOLEAN, tiny : BOOLEAN]] : n \in 0..3}
Tagged(s) == [i \in DOMAIN s |-> [heading |-> s[i].heading, tiny |-> s[i].tiny, at |-> i]]
Html == {[kind |-> "html", elements |-> Tagged(s)] : s \in Texts}
Paragraphs == {[kind |-> k, elements |-> Tagged(s)] :
                 k \in {"txt", "docx"}, s \in {t \in Texts : \A i \in DOMAIN t : ~t[i].heading}}

EveryFile == Markdown \union Laid \union Read \union Html \union Paragraphs

Symmetry == Permutations(Gens) \cup Permutations(Workers) \cup Permutations(Hashes)
            \cup Permutations(Sources) \cup Permutations(Renders)

NotParsing == stage = "parse" /\ file = [kind |-> "txt", elements |-> <<>>]

ParsingMoves == Init /\ ParsingNext /\ UNCHANGED vars
StoreMoves == NotParsing /\ Next /\ UNCHANGED parsingVars

IndexingInit == Init /\ ParsingInit

IndexingSpec == IndexingInit /\ [][ParsingMoves \/ StoreMoves]_<<vars, parsingVars>>
=============================================================================
