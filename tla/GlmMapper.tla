----------------------------- MODULE GlmMapper -----------------------------
(***************************************************************************)
(* providers/glm/mapper.ts: the responses of the page calls, in page       *)
(* order, become one recognised document.  A box is <<x0, y0, x1, y1>> in  *)
(* hundredths of the page.  A content or a markdown is a record whose text *)
(* is "" when the code would find it blank; joining texts is keeping them  *)
(* in a sequence.                                                          *)
(***************************************************************************)
EXTENDS Integers, Lists

(* The body of a 200: its markdown, how many dimensions of pages it has,   *)
(* and the details of each page.  A content, or a markdown, is of the page *)
(* image that was sent.                                                    *)
Text == [of : Nat, text : STRING]
LayoutDetail == [label : STRING, bbox_2d : Nat \X Nat \X Nat \X Nat, content : Text]
LayoutParsingResponse ==
    [markdown : Text, dims : Nat, layout : Seq(Seq(LayoutDetail)), tokens : Nat]

BlockLabel == {"image", "text", "formula", "table"}

(* Mutant: the label is taken as it comes.                                 *)
toBlockLabelAsIs(label) == label

(* A label of the API that the service does not know is an image.          *)
toBlockLabel(label) == IF label \in BlockLabel THEN label ELSE "image"

(* The pages that a response tells of, at least one.  Only the first has   *)
(* the markdown.                                                           *)
pageCount(response) ==
    CHOOSE n \in {response.dims, Len(response.layout), 1} :
        n >= response.dims /\ n >= Len(response.layout) /\ n >= 1

toPages(response, pageOffset) ==
    [i \in 1..pageCount(response) |->
        [page |-> pageOffset + i,
         markdown |-> IF i = 1 THEN response.markdown
                               ELSE [response.markdown EXCEPT !.text = ""]]]

(* The blocks of a response, indexed within it.                            *)
toBlocks(response, pageOffset) ==
    LET placed == FlattenSeq([k \in DOMAIN response.layout |->
            [d \in DOMAIN response.layout[k] |->
                [page |-> pageOffset + k, detail |-> response.layout[k][d]]]])
    IN [i \in DOMAIN placed |->
            [index |-> i - 1,
             page |-> placed[i].page,
             label |-> toBlockLabel(placed[i].detail.label),
             bbox |-> placed[i].detail.bbox_2d,
             content |-> placed[i].detail.content]]

(* Mutant: the indices stay those of the responses.                        *)
reindexedNever(blocks) == blocks

(* The blocks of the document, indexed in one sequence.                    *)
reindexed(blocks) == [i \in DOMAIN blocks |-> [blocks[i] EXCEPT !.index = i - 1]]

(* Mutant: a response is taken for one page.                               *)
mergedByResponse(sofar, response) ==
    [pages |-> sofar.pages \o toPages(response, sofar.pageOffset),
     blocks |-> sofar.blocks \o toBlocks(response, sofar.pageOffset),
     pageOffset |-> sofar.pageOffset + 1,
     tokensUsed |-> sofar.tokensUsed + response.tokens]

(* One turn of the loop over the responses.                                *)
merged(sofar, response) ==
    [pages |-> sofar.pages \o toPages(response, sofar.pageOffset),
     blocks |-> sofar.blocks \o toBlocks(response, sofar.pageOffset),
     pageOffset |-> sofar.pageOffset + pageCount(response),
     tokensUsed |-> sofar.tokensUsed + response.tokens]

mapLayoutParsing(responses) ==
    LET all == FoldLeft(merged,
                        [pages |-> <<>>, blocks |-> <<>>, pageOffset |-> 0, tokensUsed |-> 0],
                        responses)
        texts == [i \in DOMAIN all.pages |-> all.pages[i].markdown]
    IN [markdown |-> SelectSeq(texts, LAMBDA md : md.text # ""),
        pages |-> all.pages,
        blocks |-> reindexed(all.blocks),
        pageCount |-> Len(all.pages),
        tokensUsed |-> all.tokensUsed]
=============================================================================
