------------------------------ MODULE Chunker ------------------------------
(***************************************************************************)
(* chunker.py: how a document is cut into page ranges, and which pages a   *)
(* worker takes out of it for one range.  Pages are numbered from 0, the   *)
(* end of a range is exclusive, and -1 as the end stands for the file.     *)
(***************************************************************************)
EXTENDS Integers, Sequences

CONSTANT NotAPdf    \* page_count returned None

ASSUME NotAPdfAssumption == NotAPdf \notin Nat

WHOLE_FILE == <<0, -1>>

\* len(range(0, pages, size))
RangeCount(pages, size) == (pages + size - 1) \div size

\* A faulty plan_chunks: the last, shorter range is left out.
plan_chunks_NoRemainder(pages, size, minPages) ==
    IF pages = NotAPdf \/ pages < minPages
    THEN <<WHOLE_FILE>>
    ELSE [k \in 1 .. pages \div size |-> <<(k - 1) * size, k * size>>]

\* plan_chunks, for a size of at least 1 (it raises for any other).
plan_chunks(pages, size, minPages) ==
    IF pages = NotAPdf \/ pages < minPages
    THEN <<WHOLE_FILE>>
    ELSE [k \in 1 .. RangeCount(pages, size) |->
             <<(k - 1) * size,
               IF k * size < pages THEN k * size ELSE pages>>]

\* extract_pages: the pages of a range, in order; reader.pages[start:end]
\* stops at the last page.  A file that is not a PDF counts as one page.
extract_pages(pages, range) ==
    LET count == IF pages = NotAPdf THEN 1 ELSE pages
        end == IF range[2] = -1 \/ range[2] > count THEN count ELSE range[2]
    IN  [i \in 1 .. end - range[1] |-> range[1] + i - 1]

-----------------------------------------------------------------------------
\* The reference: every page is in exactly one range of the plan, no range is
\* empty, and the ranges are in page order.
Partitions(plan, pages) ==
    /\ \A p \in 0 .. pages - 1 :
           \E k \in DOMAIN plan : plan[k][1] <= p /\ p < plan[k][2]
    /\ \A k \in DOMAIN plan :
           0 <= plan[k][1] /\ plan[k][1] < plan[k][2] /\ plan[k][2] <= pages
    /\ \A k, l \in DOMAIN plan : k < l => plan[k][2] <= plan[l][1]
=============================================================================
