---------------------------- MODULE MCDocuments ----------------------------
(***************************************************************************)
(* Small instances, for TLC, of the three modules about what a document is *)
(* made of: the pages of a text, the parts under a key, the stored         *)
(* objects.  They share no state: a behaviour is one of one of them, part  *)
(* says of which, and the variables of the others keep a fixed value.      *)
(***************************************************************************)
EXTENDS DocumentStore, ContentKeys, Pagination

CONSTANTS j1, j2, r1, v1, v2, a1, a2, MaxBlocks, MaxLength

\* Two conversions that differ, one of them a page longer.
TwoLengths == [v \in Versions |-> IF v = v1 THEN 2 ELSE 1]

Old == [markitdown |-> "old", model |-> "m", pageSize |-> 5000,
        perChunk |-> 2, minPages |-> 3]

\* Other chunk sizes and thresholds; 1 cuts every page off.
Replanned == {Old, [Old EXCEPT !.perChunk = 3],
              [Old EXCEPT !.perChunk = 1, !.minPages = 1]}

SomePageCounts == {NotAPdf} \cup 0 .. 5

\* The text whose blocks have these lengths.
TextOf(lengths) ==
    LET Start[i \in DOMAIN lengths] ==
            IF i = 1 THEN 0 ELSE Start[i - 1] + lengths[i - 1] + 2
    IN  [i \in DOMAIN lengths |-> <<Start[i], Start[i] + lengths[i]>>]

\* Every text of up to MaxBlocks blocks of up to MaxLength characters.
AllTexts ==
    {TextOf(l) : l \in UNION {[1 .. n -> 0 .. MaxLength] : n \in 1 .. MaxBlocks}}

-----------------------------------------------------------------------------
VARIABLE part

allVars == <<part, docVars, keyVars, pagVars>>

KeyFixed == pageCount = NotAPdf /\ settings = [p \in ApiPods |-> Old]
PagFixed == text = TextOf(<<0>>)

DocumentsInit ==
    /\ DocInit /\ KeyInit /\ PagInit
    /\ \/ part = "objects" /\ KeyFixed /\ PagFixed
       \/ part = "keys" /\ PagFixed
       \/ part = "pages" /\ KeyFixed

StepOfObjects == part = "objects" /\ DocNext /\ UNCHANGED <<part, keyVars, pagVars>>
StepOfKeys == part = "keys" /\ KeyNext /\ UNCHANGED <<part, docVars, pagVars>>
StepOfPages == part = "pages" /\ PagNext /\ UNCHANGED <<part, docVars, keyVars>>

DocumentsSpec ==
    /\ DocumentsInit /\ [][StepOfObjects \/ StepOfKeys \/ StepOfPages]_allVars
    /\ WF_allVars(StepOfPages)
=============================================================================
