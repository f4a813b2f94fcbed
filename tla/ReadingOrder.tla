--------------------------- MODULE ReadingOrder ----------------------------
(***************************************************************************)
(* functions/resume-parsing/execute.ts: the blocks of a page are put in    *)
(* reading order, a left column before a right one.  Lengths are in        *)
(* hundredths of the page; centres and gaps between them are doubled, and  *)
(* the place of a gutter is multiplied by four.                            *)
(***************************************************************************)
EXTENDS Integers, Lists

MinGutterWidth == 15        \* MIN_GUTTER_WIDTH

NoGutter == -1

(* The widest gap between neighbouring centres whose middle lies in the    *)
(* middle band of the page (the first such gap, of equals), if it is wide  *)
(* enough.                                                                 *)
Centers(blocks) ==
    SortSeq([i \in DOMAIN blocks |-> blocks[i].bbox[1] + blocks[i].bbox[3]], <)

detectGutter(blocks) ==
    LET centers == Centers(blocks)
        gap(i) == centers[i] - centers[i-1]
        mid(i) == centers[i] + centers[i-1]
        middle == {i \in 2..Len(centers) : gap(i) > 0 /\ 120 < mid(i) /\ mid(i) < 280}
        widest == CHOOSE i \in middle :
                      \A j \in middle : gap(i) > gap(j) \/ (gap(i) = gap(j) /\ i <= j)
    IN IF middle # {} /\ gap(widest) >= 2 * MinGutterWidth THEN mid(widest) ELSE NoGutter

(* Mutant: the columns are read across.                                    *)
rankByTop(block, gutter) == block.bbox[2]

(* The column dominates, then the top.                                     *)
rank(block, gutter) ==
    (IF gutter # NoGutter /\ 4 * block.bbox[1] >= gutter THEN 100 ELSE 0) + block.bbox[2]

(* A stable sort: what has one rank stays as it was found.                 *)
orderPage(blocks) ==
    LET gutter == detectGutter(blocks)
        at(i) == rank(blocks[i], gutter)
        found == DOMAIN blocks
        before == {p \in found \X found :
                      \/ at(p[1]) < at(p[2])
                      \/ at(p[1]) = at(p[2]) /\ p[1] < p[2]}
        order == Sorted(found, before)
    IN [i \in DOMAIN blocks |-> blocks[order[i]]]

(* The blocks with text, and those of a page.                              *)
usable(blocks) == Only(blocks, {b \in Range(blocks) : b.content.text # ""})

onPage(blocks, page) ==
    LET all == usable(blocks) IN Only(all, {b \in Range(all) : b.page = page})

(* Page by page; <<>> when no block has text, and the caller then takes    *)
(* the markdown.                                                           *)
reconstructReadingOrder(blocks) ==
    LET pages == {b.page : b \in Range(usable(blocks))}
        numbers == Sorted(pages, {p \in pages \X pages : p[1] < p[2]})
    IN FlattenSeq([k \in DOMAIN numbers |-> orderPage(onPage(blocks, numbers[k]))])
=============================================================================
