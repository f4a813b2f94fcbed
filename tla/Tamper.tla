------------------------------- MODULE Tamper -------------------------------
(***************************************************************************)
(* authenticity/: the signals that the bytes of a file give, their score   *)
(* and the verdict.  A PDF is its saves, each of which appends bytes, with *)
(* a signature over all that is there then or without one, and the bytes   *)
(* after the last; what pdf-lib reads of its metadata is external.  An     *)
(* image is its container and the marks in the part that is scanned.       *)
(***************************************************************************)
EXTENDS Integers, Sequences, SequencesExt

(* Every save ends in its own end-of-file marker, of more than five bytes  *)
(* with the end of its line.                                               *)
Save == [signs : BOOLEAN, bytes : {b \in Nat : b > 5}]
Saves == Seq(Save)

IsFile(file) ==
    CASE file.mimeGroup = "pdf" ->
             file.saves \in Saves /\ file.trailing \in Nat /\ file.form \in BOOLEAN
      [] file.mimeGroup = "image" -> file.head \in SUBSET {"editor", "history", "exif"}
      [] OTHER -> TRUE

Signal(code, severity) == [code |-> code, severity |-> severity]
When(condition, signal) == IF condition THEN <<signal>> ELSE <<>>

-----------------------------------------------------------------------------
(* pdf.ts                                                                  *)

SizeAfter(saves, n) == FoldLeft(LAMBDA sum, s : sum + s.bytes, 0, SubSeq(saves, 1, n))
fileSize(pdf) == SizeAfter(pdf.saves, Len(pdf.saves)) + pdf.trailing

(* The save whose /ByteRange is the last of the file, 0 if none signs.     *)
lastByteRange(saves) == SelectLastInSeq(saves, LAMBDA s : s.signs)

(* Mutant: what may follow the signed range is as much as a small save.    *)
PostSignatureWide(pdf) ==
    lastByteRange(pdf.saves) # 0
        /\ fileSize(pdf) - SizeAfter(pdf.saves, lastByteRange(pdf.saves)) > 512

(* A range signed at a save ends with that save.                           *)
PostSignature(pdf) ==
    lastByteRange(pdf.saves) # 0
        /\ fileSize(pdf) - SizeAfter(pdf.saves, lastByteRange(pdf.saves)) > 5

RewrittenByEditor(meta) ==
    /\ meta.producer # "none" /\ meta.creator # "none"
    /\ meta.producer # meta.creator
    /\ meta.producer = "editor"

(* meta is <<>> if pdf-lib cannot parse the file: its signals are left out. *)
pdfSignals(pdf) ==
    When(pdf.form, Signal("PDF_HAS_FORM", "info"))
    \o When(Len(pdf.saves) > 1, Signal("PDF_MULTIPLE_REVISIONS", "info"))
    \o When(lastByteRange(pdf.saves) # 0, Signal("PDF_SIGNED", "info"))
    \o When(PostSignature(pdf), Signal("PDF_POST_SIGNATURE_EDIT", "high"))
    \o When(pdf.meta # <<>> /\ RewrittenByEditor(pdf.meta[1]),
            Signal("PDF_PRODUCER_CREATOR_MISMATCH", "low"))
    \o When(pdf.meta # <<>> /\ pdf.meta[1].modified,
            Signal("PDF_MODIFIED_AFTER_CREATION", "info"))

-----------------------------------------------------------------------------
(* image.ts: the marks of the first 256 KiB.                               *)

imageSignals(image) ==
    When("editor" \in image.head, Signal("IMAGE_EDITOR_SOFTWARE", "medium"))
    \o When("history" \in image.head, Signal("IMAGE_XMP_EDIT_HISTORY", "low"))
    \o When(image.container = "jpeg" /\ image.head \cap {"exif", "editor"} = {},
            Signal("IMAGE_NO_METADATA", "low"))

-----------------------------------------------------------------------------
(* signals.ts.  Weights in hundredths, the score in thousandths.           *)

WEIGHT == [info |-> 0, low |-> 15, medium |-> 40, high |-> 80]

(* A document no signal speaks against, in millionths.                     *)
Whole == 1000000

(* What is left of it when each signal takes its share.                    *)
scoreSignals(signals) ==
    LET clean == FoldLeft(LAMBDA left, s : (left * (100 - WEIGHT[s.severity])) \div 100,
                          Whole, signals)
    IN (Whole + 500 - clean) \div 1000

verdictFor(signals, score) ==
    LET severities == {signals[i].severity : i \in DOMAIN signals}
    IN IF "high" \in severities THEN "likely-doctored"
       ELSE IF "medium" \in severities \/ score >= 350 THEN "suspicious"
       ELSE "clean"

aggregate(signals) ==
    [verdict |-> verdictFor(signals, scoreSignals(signals)),
     score   |-> scoreSignals(signals),
     signals |-> {signals[i].code : i \in DOMAIN signals}]

Inconclusive == [verdict |-> "inconclusive", score |-> 0, signals |-> {}]

analyzeTamper(file) ==
    CASE file.mimeGroup = "pdf" -> aggregate(pdfSignals(file))
      [] file.mimeGroup = "image" -> aggregate(imageSignals(file))
      [] OTHER -> Inconclusive
=============================================================================
