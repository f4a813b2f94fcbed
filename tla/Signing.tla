------------------------------ MODULE Signing ------------------------------
(***************************************************************************)
(* The geometry of functions/signing/execute.ts: the cue texts of a        *)
(* document are paired with the signature images near them, and every      *)
(* pair, or cue without an image, is a slot.                               *)
(***************************************************************************)
EXTENDS Integers, Sequences, SequencesExt

CONSTANT Mentions       \* text -> the cue phrases found in it

Threshold == 25         \* CORRELATION_THRESHOLD, in hundredths of the page

(* Twice the centre, and four times the square of the distance.            *)
center(bbox) == <<bbox[1] + bbox[3], bbox[2] + bbox[4]>>

distance(a, b) ==
    LET dx == center(a)[1] - center(b)[1]
        dy == center(a)[2] - center(b)[2]
    IN dx * dx + dy * dy

Near(d) == d <= 4 * Threshold * Threshold

(* The first cue of the list that the text has, "none" if it has none.     *)
matchCue(content, cues) ==
    LET first == SelectInSeq(cues, LAMBDA cue : cue \in Mentions[content.text])
    IN IF first = 0 THEN "none" ELSE cues[first]

(* The images near enough on the page; of the nearest, the last.           *)
CandidateImages(block, blocks) ==
    {i \in DOMAIN blocks : /\ blocks[i].label = "image"
                           /\ blocks[i].page = block.page
                           /\ Near(distance(block.bbox, blocks[i].bbox))}

nearestImage(block, blocks) ==
    LET candidates == CandidateImages(block, blocks)
        gap(i) == distance(block.bbox, blocks[i].bbox)
    IN CHOOSE i \in candidates :
           \A j \in candidates : gap(i) < gap(j) \/ (gap(i) = gap(j) /\ i >= j)

(* One turn of the loop over the blocks: a cue joins the slot of its       *)
(* image, found by the image's index, or opens one, or is an orphan.  The  *)
(* context tells which cues a slot stands for; of their joined texts the   *)
(* code keeps the first 800 characters for the prompt.                     *)
NoImage == -1

slotOf(block, cue, bbox, image) ==
    [label |-> cue, page |-> block.page, context |-> <<block.content>>,
     bbox |-> bbox, image |-> image]

joined(slot, block) == [slot EXCEPT !.context = Append(@, block.content)]

slotted(blocks, cues, slots, block) ==
    LET cue == matchCue(block.content, cues)
        image == blocks[nearestImage(block, blocks)]
        open == SelectInSeq(slots.byImage, LAMBDA s : s.image = image.index)
    IN IF block.label = "image" \/ cue = "none"
       THEN slots
       ELSE IF CandidateImages(block, blocks) = {}
       THEN [slots EXCEPT !.orphans = Append(@, slotOf(block, cue, block.bbox, NoImage))]
       ELSE IF open = 0
       THEN [slots EXCEPT !.byImage =
                Append(@, slotOf(block, cue, image.bbox, image.index))]
       ELSE [slots EXCEPT !.byImage = ReplaceAt(@, open, joined(@[open], block))]

correlateSlots(blocks, cues) ==
    LET slots == FoldLeft(LAMBDA sofar, block : slotted(blocks, cues, sofar, block),
                          [byImage |-> <<>>, orphans |-> <<>>], blocks)
    IN slots.byImage \o slots.orphans

(* The result: executed when there is a slot and each one is signed.       *)
assemble(judged) ==
    [blocks |-> judged,
     fullyExecuted |-> judged # <<>> /\ \A i \in DOMAIN judged : judged[i].signed,
     unsignedBlocks |-> SelectSeq(judged, LAMBDA b : ~b.signed)]
=============================================================================
