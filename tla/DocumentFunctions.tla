------------------------- MODULE DocumentFunctions -------------------------
(***************************************************************************)
(* What the functions make of a document: of one that GLM-OCR recognised,  *)
(* the signature slots of SIGNING, each judged by the vision model on a    *)
(* crop of the file, the reading order of RESUME_PARSING and the pages of  *)
(* TEXT_EXTRACTION; of the text of a document, whoever recognised it, the  *)
(* totals of RECEIPT_PARSING, the checks of ID_VERIFICATION and the fields *)
(* of FORM_DATA_EXTRACTION; of the bytes of a file, the verdict of         *)
(* DOCUMENT_AUTHENTICITY.  The model's answers are external.               *)
(***************************************************************************)
EXTENDS GlmOcr, Signing, ReadingOrder, ReceiptTotals, IdVerification,
        FormExtraction, Tamper

CONSTANTS
    Tasks,      \* the functions, with their arguments
    Receipts,   \* what the model may read off a receipt
    Identities, \* what may be read off an identity document
    Answers     \* what the model may answer for a form

VARIABLES
    task,       \* what is made of the document, NoTask before
    status,     \* of the task: "none", "running", "done" or "failed"
    judged,     \* the blocks of executeSigning so far
    result,     \* of a function that reads the text or the bytes alone
    read        \* what was read off an identity document (history)

fnVars == <<task, status, judged, result, read>>
NoTask == [fn |-> "none"]

NoResult == [code |-> "none"]
NoIdentity == [text |-> <<>>]

(* The functions that take the blocks or the pages of the recognition.     *)
OnLayout == {"SIGNING", "RESUME_PARSING", "TEXT_EXTRACTION"}

(* What the arguments' schemas, the bytes of a file and the model's schema *)
(* let be.                                                                 *)
IsTask(t) ==
    CASE t.fn = "FORM_DATA_EXTRACTION" -> IsFormArgs(t.args)
      [] t.fn = "DOCUMENT_AUTHENTICITY" -> IsFile(t.file)
      [] OTHER -> t.fn \in OnLayout \cup {"RECEIPT_PARSING", "ID_VERIFICATION"}

ASSUME FnAssumption ==
    /\ \A t \in Tasks : IsTask(t)
    /\ Receipts \subseteq ReceiptData
    /\ \A data \in Identities : IsRead(data)

vars == <<mimeGroup, pages, call, answer, task, status, judged, result, read>>

Init ==
    /\ GlmInit
    /\ task = NoTask
    /\ status = "none"
    /\ judged = <<>>
    /\ result = NoResult
    /\ read = NoIdentity

FnTypeOK ==
    /\ TypeOK
    /\ task # NoTask => task \in Tasks
    /\ status \in {"none", "running", "done", "failed"}
    /\ task # NoTask <=> status # "none"
    /\ result # NoResult => status \in {"done", "failed"} /\ task.fn \notin OnLayout
    /\ read # NoIdentity => task.fn = "ID_VERIFICATION"
    /\ answer = "recognized" =>
           LET blocks == Document.blocks
           IN \A i \in DOMAIN blocks : blocks[i].label \in BlockLabel

Recognize == task = NoTask /\ recognize /\ UNCHANGED fnVars

(* The function is run on the document; on one that another provider       *)
(* recognised, or on none, if it takes the text or the bytes alone.        *)
Execute(t) ==
    /\ answer = IF t.fn \in OnLayout THEN "recognized" ELSE "none"
    /\ task = NoTask
    /\ task' = t
    /\ status' = "running"
    /\ UNCHANGED <<mimeGroup, pages, call, answer, judged, result, read>>

-----------------------------------------------------------------------------
(* SIGNING.  A page image is the page of the PDF with the number of the    *)
(* slot, if it has one; an image file is the image of every page.          *)
Slots == correlateSlots(Document.blocks, task.signatureCues)

NoPage == 0
rasterizePages(page) ==
    IF mimeGroup = "image" THEN 1
    ELSE IF page \in Sent THEN page ELSE NoPage

NextSlot == Slots[Len(judged) + 1]

(* The page that the crop of a slot is taken from; none for the geometry   *)
(* alone, an empty slot or a page that the file does not have.             *)
cropRegion(slot) ==
    IF task.geometryOnly \/ slot.image = NoImage THEN NoPage
    ELSE rasterizePages(slot.page)

toBlock(slot, signed) ==
    [label |-> slot.label, page |-> slot.page, bbox |-> slot.bbox,
     signed |-> signed, crop |-> cropRegion(slot)]

executeSigning ==
    /\ task.fn = "SIGNING" /\ status = "running"
    /\ IF Len(judged) < Len(Slots)
       THEN \E signed \in IF cropRegion(NextSlot) = NoPage THEN {FALSE} ELSE BOOLEAN :
                /\ judged' = Append(judged, toBlock(NextSlot, signed))
                /\ UNCHANGED status
       ELSE /\ status' = "done"
            /\ UNCHANGED judged
    /\ UNCHANGED <<mimeGroup, pages, call, answer, task, result, read>>

(* The pages of the range, and the text made of them.  Without a range the *)
(* plain text of at most one page is the document's; a markdown text that  *)
(* comes out blank is the document's.                                      *)
InRange(page) == task.pageRange = <<>>
                 \/ (task.pageRange[1] <= page.page /\ page.page <= task.pageRange[2])

RangeText == LET inRange == SelectSeq(Document.pages, InRange)
             IN SelectSeq([i \in DOMAIN inRange |-> inRange[i].markdown],
                          LAMBDA md : md.text # "")

executeTextExtraction ==
    IF \/ task.format = "plain" /\ task.pageRange = <<>> /\ Len(Document.pages) <= 1
       \/ task.format = "markdown" /\ RangeText = <<>>
    THEN Document.markdown
    ELSE RangeText

(* The blocks in the order in which RESUME_PARSING reads them.             *)
executeResumeParsing == reconstructReadingOrder(Document.blocks)

(* Both compute before they await the model, or have nothing to await.     *)
Compute ==
    /\ task.fn \in {"TEXT_EXTRACTION", "RESUME_PARSING"} /\ status = "running"
    /\ status' = "done"
    /\ UNCHANGED <<mimeGroup, pages, call, answer, task, judged, result, read>>

(* The end of a function that reads the text or the bytes alone.           *)
Returns(value) ==
    /\ result' = value
    /\ status' = "done"
    /\ UNCHANGED <<mimeGroup, pages, call, answer, task, judged>>

(* RECEIPT_PARSING: the model reads the receipt, the totals are checked.   *)
executeReceiptParsing ==
    /\ task.fn = "RECEIPT_PARSING" /\ status = "running"
    /\ \E data \in Receipts : Returns(reconcileTotals(data))
    /\ UNCHANGED read

(* ID_VERIFICATION: the model and the zone are read, the checks computed.  *)
Verify ==
    /\ task.fn = "ID_VERIFICATION" /\ status = "running"
    /\ \E data \in Identities :
          /\ Returns(executeIdVerification(data, task.expected))
          /\ read' = data

(* FORM_DATA_EXTRACTION: one whose arguments or answer are refused fails.  *)
FillForm ==
    /\ task.fn = "FORM_DATA_EXTRACTION" /\ status = "running"
    /\ \E data \in Answers :
          LET filled == executeFormDataExtraction(task.args, data) IN
          /\ result' = filled
          /\ status' = IF filled.code = "success" THEN "done" ELSE "failed"
    /\ UNCHANGED <<mimeGroup, pages, call, answer, task, judged, read>>

executeDocumentAuthenticity ==
    /\ task.fn = "DOCUMENT_AUTHENTICITY" /\ status = "running"
    /\ Returns(analyzeTamper(task.file))
    /\ UNCHANGED read

(* The model refuses, is away, or answers with another shape.              *)
ModelFails ==
    /\ status = "running"
    /\ \/ task.fn \in {"RESUME_PARSING", "RECEIPT_PARSING", "ID_VERIFICATION"}
       \/ task.fn = "FORM_DATA_EXTRACTION" /\ ~RefusedArgs(task.args)
       \/ task.fn = "SIGNING" /\ Len(judged) < Len(Slots) /\ cropRegion(NextSlot) # NoPage
    /\ status' = "failed"
    /\ UNCHANGED <<mimeGroup, pages, call, answer, task, judged, result, read>>

Next ==
    \/ Recognize
    \/ \E t \in Tasks : Execute(t)
    \/ executeSigning
    \/ Compute
    \/ executeReceiptParsing
    \/ Verify
    \/ FillForm
    \/ executeDocumentAuthenticity
    \/ ModelFails

(* Every await of a call ends: an attempt has a timeout, which its body is *)
(* under as well, and a backoff is bounded.  p-limit starts the next page  *)
(* when a slot is free.                                                    *)
Fairness ==
    /\ \A p \in Page : WF_vars(layoutParsing(p) /\ UNCHANGED fnVars)
    /\ WF_vars(\E p \in Page : mapWithConcurrency(p) /\ UNCHANGED fnVars)

Spec == Init /\ [][Next]_vars /\ Fairness

-----------------------------------------------------------------------------
(* The responses that describe the one page that was sent (what chunking   *)
(* expects, mapper.ts:84).                                                 *)
OnePageEach == \A p \in Sent : pageCount(Responses[p]) = 1

Cues == {b \in {Document.blocks[i] : i \in DOMAIN Document.blocks} :
            b.label # "image" /\ matchCue(b.content, task.signatureCues) # "none"}

(* A document is reported executed (execute.ts:79-119) only if every cue   *)
(* of it is in a slot whose mark the model saw, on the page of the file    *)
(* the cue was read from, and judged signed.  It takes the merge to index  *)
(* blocks across pages, the correlation to keep pages apart, and the crop  *)
(* to be of the same page.                                                 *)
ExecutedMeansSigned ==
    (status = "done" /\ task.fn = "SIGNING" /\ assemble(judged).fullyExecuted) =>
        \A cue \in Cues : \E i \in DOMAIN judged :
            /\ cue.content \in {Slots[i].context[c] : c \in DOMAIN Slots[i].context}
            /\ Slots[i].page = cue.page
            /\ judged[i].signed
            /\ OnePageEach => judged[i].crop = cue.content.of

(* RESUME_PARSING reads page after page, on each "the left column          *)
(* top-to-bottom, then the right" (resume-parsing execute.ts:30-31), and   *)
(* each block with text once.  A block is of the column its centre is in;  *)
(* the claim is for pages where no box reaches across the gutter, and for  *)
(* boxes that begin above the foot of the page (execute.ts:52).            *)
Gutter(b) == detectGutter(onPage(Document.blocks, b.page))
Right(b) == Gutter(b) # NoGutter /\ 2 * (b.bbox[1] + b.bbox[3]) > Gutter(b)
Across(b) == Gutter(b) # NoGutter /\ Right(b) # (4 * b.bbox[1] >= Gutter(b))

ReadsBefore(a, b) ==
    \/ a.page < b.page
    \/ a.page = b.page /\ ~Right(a) /\ Right(b)
    \/ a.page = b.page /\ Right(a) = Right(b) /\ a.bbox[2] <= b.bbox[2]

ReadInColumns ==
    (status = "done" /\ task.fn = "RESUME_PARSING") =>
        LET reading == executeResumeParsing
            blocks == {Document.blocks[i] : i \in DOMAIN Document.blocks}
        IN /\ {reading[i] : i \in DOMAIN reading} = {b \in blocks : b.content.text # ""}
           /\ \A i, j \in DOMAIN reading : i # j => reading[i] # reading[j]
           /\ (\A b \in blocks : ~Across(b) /\ b.bbox[2] < 100) =>
                  \A i, j \in DOMAIN reading : i < j => ReadsBefore(reading[i], reading[j])

(* A receipt passed with high confidence adds up (validate.ts:17-39): when *)
(* it shows all its amounts, the line items with tax and tip come to the   *)
(* total, but for the two tolerances, although no check compares them.     *)
HighConfidenceAddsUp ==
    (/\ status = "done" /\ task.fn = "RECEIPT_PARSING" /\ result.confidence = "high"
     /\ <<>> \notin {result.subtotal, result.tax, result.tip, result.total}
     /\ \E i \in DOMAIN result.lineItems : result.lineItems[i] # <<>>) =>
        50 * Size(lineSum(result) + result.tax[1] + result.tip[1] - result.total[1])
            <= Tolerance(result.subtotal[1]) + Tolerance(result.total[1])

(* The checks of an identity document are true of what it states           *)
(* (id-verification execute.ts:45-57).  A zone that ends the text is found *)
(* whatever stands above it and, if it is valid, settles each field it     *)
(* reads.  Dates in ISO form, and those of a zone from 1951 to 2050, are   *)
(* compared as the days they are, across the two forms; and what was not   *)
(* read never matches what was expected.                                   *)
Verified == status = "done" /\ task.fn = "ID_VERIFICATION"
StatedDay(date) == UTC(date.y, date.m, date.d)
Plain(date) == date.form = "iso" \/ (date.form = "mrz" /\ date.y \in 1951..2050)

EndsInZone(text, zone) ==
    /\ Len(text) >= zone.length
    /\ \A n \in 1..zone.length : text[Len(text) - zone.length + n].n = n

IdChecksAreTrue ==
    Verified =>
        LET fields == result.fields
            expected == task.expected
            matches == [fullName |-> result.nameMatch, dateOfBirth |-> result.dobMatch,
                        documentNumber |-> result.numberMatch]
        IN  /\ EndsInZone(read.text, read.zone) =>
                  /\ result.mrzValid = <<read.zone.valid>>
                  /\ \A f \in DOMAIN fields :
                        read.zone.valid /\ read.zone.fields[f] # Null =>
                            fields[f] = read.zone.fields[f]
            /\ Plain(fields.expiryDate) =>
                  result.expired = <<StatedDay(fields.expiryDate) <= Today>>
            /\ Plain(fields.dateOfBirth) /\ Plain(expected.dateOfBirth) =>
                  result.dobMatch =
                      <<StatedDay(fields.dateOfBirth) = StatedDay(expected.dateOfBirth)>>
            /\ \A f \in DOMAIN matches :
                  fields[f] = Null => TRUE \notin {matches[f][i] : i \in DOMAIN matches[f]}

(* A document reported expired is: the dates read are ISO dates and the    *)
(* zone's (id-verification execute.ts:79).                                 *)
ExpiredIsPast ==
    Verified /\ result.expired = <<TRUE>> =>
        StatedDay(result.fields.expiryDate) <= Today

(* A form is filled as was asked, if it was asked for in one way: with a   *)
(* value of its type or, if that is allowed, null for each field and with  *)
(* no other; or with what meets the schema.  Nothing is claimed of one     *)
(* asked for in both, which form-data-extraction args.ts:64 ("exactly one")*)
(* would refuse and the code does not.                                     *)
FilledAsAsked ==
    (status = "done" /\ task.fn = "FORM_DATA_EXTRACTION") =>
        LET fields == task.args.fields
            schema == task.args.schema
        IN /\ fields # Missing /\ schema = Missing =>
                 /\ DOMAIN result.fields = Names(fields)
                 /\ \A i \in DOMAIN fields :
                       \/ fieldToZod(fields[i], result.fields[fields[i].name])
                       \/ \E j \in DOMAIN fields : j > i /\ fields[j].name = fields[i].name
           /\ fields = Missing => result.fields \in schema[1].accepts

(* The verdict is the signature's or the editor's alone (authenticity/     *)
(* signals.ts:25-29): a PDF is likely doctored if more than five bytes     *)
(* follow the save its last signature is of, and is clean if it bears no   *)
(* signature, or one alone that covers its final bytes, how often it was   *)
(* saved and whatever its metadata say; an image is clean unless it names  *)
(* an editor where it is scanned, whatever lesser signals it gives.  Of a  *)
(* PDF signed more than once, the last time at its end, nothing is         *)
(* claimed: the code calls it clean also if it was edited in between,      *)
(* which is doctored to docs/tamper-detection.md:77-79.                    *)
VerdictIsTheSignatures ==
    (status = "done" /\ task.fn = "DOCUMENT_AUTHENTICITY") =>
        LET file == task.file
            last == Len(file.saves)
            signed == {i \in DOMAIN file.saves : file.saves[i].signs}
            named == "editor" \in file.head
        IN  /\ file.mimeGroup = "pdf" =>
                  /\ signed # {} /\ (file.trailing > 5 \/ last \notin signed) =>
                        result.verdict = "likely-doctored"
                  /\ signed = {} \/ (signed = {last} /\ file.trailing <= 5) =>
                        result.verdict = "clean"
            /\ file.mimeGroup = "image" => (result.verdict = "clean" <=> ~named)
            /\ result.verdict = "clean" => result.score < 350

=============================================================================
