----------------------------- MODULE Pagination -----------------------------
(***************************************************************************)
(* pagination.paginate, one action per turn of its loops, and a reader who *)
(* follows next_page through the result.                                   *)
(*                                                                         *)
(* A text is what content.split("\n\n") returns: its blocks, each given by *)
(* the positions where it starts and ends in the content.  The characters  *)
(* themselves do not matter.  A page remembers the first and the last      *)
(* position it was built from, and its length as the code adds it up.      *)
(***************************************************************************)
EXTENDS Integers, Sequences

CONSTANTS
    PageSize,       \* config.PAGE_SIZE
    Texts           \* the contents to paginate

\* Two blocks are two characters apart.
IsText(t) ==
    /\ t \in Seq(Nat \X Nat) /\ t # << >>
    /\ t[1][1] = 0
    /\ \A i \in DOMAIN t : t[i][1] <= t[i][2]
    /\ \A i \in DOMAIN t : i + 1 \in DOMAIN t => t[i + 1][1] = t[i][2] + 2

ASSUME PageSizeAssumption == PageSize \in Nat \ {0}
ASSUME TextsAssumption == \A t \in Texts : IsText(t)

VARIABLES
    text,           \* the content
    block,          \* the block the loop is at
    rest,           \* where what is left of that block starts
    current,        \* the page being filled
    pages,          \* the pages finished
    shown           \* how many pages the reader has been shown

pagVars == <<text, block, rest, current, pages, shown>>

Page == [from : Nat, to : Nat, len : Nat]
Blank(at) == [from |-> at, to |-> at, len |-> 0]

\* Types; and the reader is never sent past the last page.
PagTypeOK ==
    /\ IsText(text)
    /\ block \in 1 .. Len(text) + 2
    /\ rest \in Nat
    /\ current \in Page
    /\ pages \in Seq(Page)
    /\ shown \in 0 .. Len(pages)

PagInit ==
    /\ text \in Texts
    /\ block = 1
    /\ rest = 0
    /\ current = Blank(0)
    /\ pages = << >>
    /\ shown = 0

-----------------------------------------------------------------------------
Looping == block \in DOMAIN text
BlockEnd == text[block][2]
RestLength == BlockEnd - rest

Flushed == IF current.len > 0 THEN Append(pages, current) ELSE pages

\* A faulty hard split: the page being filled is not finished first.
HardSplit_NoFlush ==
    /\ Looping /\ RestLength > PageSize
    /\ pages' = Append(pages, [from |-> rest, to |-> rest + PageSize, len |-> PageSize])
    /\ current' = Blank(rest + PageSize)
    /\ rest' = rest + PageSize
    /\ UNCHANGED <<text, block, shown>>

\* The while loop: a block larger than a page is cut.
HardSplit ==
    /\ Looping /\ RestLength > PageSize
    /\ pages' = Append(Flushed,
                       [from |-> rest, to |-> rest + PageSize, len |-> PageSize])
    /\ current' = Blank(rest + PageSize)
    /\ rest' = rest + PageSize
    /\ UNCHANGED <<text, block, shown>>

TheRest == [from |-> rest, to |-> BlockEnd, len |-> RestLength]

\* A faulty candidate: the block is glued on without its separator.
Candidate_NoSeparator ==
    IF current.len = 0 THEN TheRest
    ELSE [from |-> current.from, to |-> BlockEnd, len |-> current.len + RestLength]

Candidate ==
    IF current.len = 0 THEN TheRest
    ELSE [from |-> current.from, to |-> BlockEnd,
          len |-> current.len + 2 + RestLength]

\* A faulty paginate: the page is checked before the block joins it.
TakeBlock_CheckFirst ==
    /\ Looping /\ RestLength <= PageSize
    /\ IF current.len > PageSize
       THEN pages' = Append(pages, current) /\ current' = TheRest
       ELSE current' = Candidate /\ UNCHANGED pages
    /\ block' = block + 1
    /\ rest' = BlockEnd + 2
    /\ UNCHANGED <<text, shown>>

\* The rest of the loop: the block joins the page if it fits, or starts one.
TakeBlock ==
    /\ Looping /\ RestLength <= PageSize
    /\ IF Candidate.len > PageSize
       THEN pages' = Append(pages, current) /\ current' = TheRest
       ELSE current' = Candidate /\ UNCHANGED pages
    /\ block' = block + 1
    /\ rest' = BlockEnd + 2
    /\ UNCHANGED <<text, shown>>

\* The last page.  An empty content has returned one empty page at once,
\* which is what the loop makes of it too.
LastPage ==
    /\ block = Len(text) + 1
    /\ pages' = IF current.len > 0 \/ pages = << >>
                THEN Append(pages, current) ELSE pages
    /\ block' = block + 1
    /\ UNCHANGED <<text, rest, current, shown>>

Paginated == block = Len(text) + 2

\* A faulty build_pagination: no next page on the last but one.
HasNext_OffByOne(page, total) == page < total - 1

\* build_pagination
HasNext(page, total) == page < total

\* The reader fetches the first page, and then next_page while there is one.
ShowPage ==
    /\ Paginated
    /\ shown = 0 \/ HasNext(shown, Len(pages))
    /\ shown' = shown + 1
    /\ UNCHANGED <<text, block, rest, current, pages>>

PagNext == HardSplit \/ TakeBlock \/ LastPage \/ ShowPage

PagSpec == PagInit /\ [][PagNext]_pagVars

-----------------------------------------------------------------------------
\* No page is longer than page_size, hard splits and separators included.
PagesFit == \A k \in DOMAIN pages : pages[k].len <= PageSize

\* Every page is one piece of the content, pages follow one another, and only
\* the first may be empty: what paginate glues together with new separators
\* stood together, separated like that.
PagesAreSlices ==
    /\ \A k \in DOMAIN pages :
           /\ pages[k].len = pages[k].to - pages[k].from
           /\ pages[k].len = 0 => Len(pages) = 1
    /\ \A k, l \in DOMAIN pages : k < l => pages[k].to <= pages[l].from

\* "Pages are broken on paragraph boundaries where possible": a paragraph that
\* fits a page is on one page, whole, once paginate is through; and of one
\* that does not fit every character is on some page.
ParagraphsKept ==
    Paginated =>
        \A b \in DOMAIN text : text[b][1] < text[b][2] =>
            IF text[b][2] - text[b][1] <= PageSize
            THEN \E k \in DOMAIN pages :
                     pages[k].from <= text[b][1] /\ text[b][2] <= pages[k].to
            ELSE \A c \in text[b][1] .. text[b][2] - 1 :
                     \E k \in DOMAIN pages : pages[k].from <= c /\ c < pages[k].to

\* paginate, once begun, ends for every content, and the reader who follows
\* next_page from the first page is shown all pages.
ReaderSeesAll ==
    block > 1 \/ pages # << >> ~> Paginated /\ shown = Len(pages)
=============================================================================
