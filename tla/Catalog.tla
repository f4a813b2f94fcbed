------------------------------ MODULE Catalog ------------------------------
(***************************************************************************)
(* The static tables of the service: what each document function accepts   *)
(* and requires, what each extraction provider accepts and can do, which   *)
(* providers a process registers, and the default preference policy.       *)
(* Every other module takes these tables as CONSTANTS; the model-checking  *)
(* modules assign the tables of this one.                                  *)
(***************************************************************************)
EXTENDS Sequences, TLC

MimeGroup == {"pdf", "image", "docx", "text"}

-----------------------------------------------------------------------------
(* The functions (functions/<name>/index.ts).                              *)

Definition(accepts, requires, sensitivity, maxPages) ==
    [accepts |-> accepts, requires |-> requires, sensitivity |-> sensitivity,
     maxPages |-> maxPages, skipExtraction |-> FALSE]

signing ==
    Definition({"pdf", "image"}, {"layout", "seals"}, "standard", 30)
idVerification ==
    Definition({"pdf", "image"}, {"text", "layout"}, "pii", 4)
documentClassification ==
    Definition({"pdf", "image", "docx"}, {"text"}, "standard", 100)
formDataExtraction ==
    Definition({"pdf", "image", "docx"}, {"text"}, "standard", 20)
receiptParsing ==
    Definition({"pdf", "image"}, {"text", "tables"}, "standard", 5)
textExtraction ==
    Definition({"pdf", "image", "docx", "text"}, {"text"}, "standard", 100)
resumeParsing ==
    Definition({"pdf", "image", "docx"}, {"text", "layout"}, "pii", 10)
documentAuthenticity ==
    [Definition({"pdf", "image"}, {}, "standard", 1000)
        EXCEPT !.skipExtraction = TRUE]

OcrFunction ==
    [SIGNING |-> signing,
     ID_VERIFICATION |-> idVerification,
     DOCUMENT_CLASSIFICATION |-> documentClassification,
     FORM_DATA_EXTRACTION |-> formDataExtraction,
     RECEIPT_PARSING |-> receiptParsing,
     TEXT_EXTRACTION |-> textExtraction,
     RESUME_PARSING |-> resumeParsing,
     DOCUMENT_AUTHENTICITY |-> documentAuthenticity]

-----------------------------------------------------------------------------
(* The providers (providers/*.ts).  "paged" is FALSE for a provider that   *)
(* reports one page whatever it was given; "metered" is TRUE for the only  *)
(* one whose documents carry tokensUsed.                                   *)

plainText == [accepts |-> {"text"}, capabilities |-> {"text"},
              paged |-> FALSE, metered |-> FALSE]
pdfText   == [accepts |-> {"pdf"}, capabilities |-> {"text"},
              paged |-> TRUE, metered |-> FALSE]
mammoth   == [accepts |-> {"docx"}, capabilities |-> {"text", "tables"},
              paged |-> FALSE, metered |-> FALSE]
tesseract == [accepts |-> {"image", "pdf"}, capabilities |-> {"text", "layout"},
              paged |-> TRUE, metered |-> FALSE]
glmOcr    == [accepts |-> {"pdf", "image"},
              capabilities |-> {"text", "layout", "tables", "handwriting", "seals"},
              paged |-> TRUE, metered |-> TRUE]

OcrProvider ==
    [name \in {"plain-text", "pdf-text", "mammoth", "tesseract", "glm-ocr"} |->
        CASE name = "plain-text" -> plainText
          [] name = "pdf-text" -> pdfText
          [] name = "mammoth" -> mammoth
          [] name = "tesseract" -> tesseract
          [] name = "glm-ocr" -> glmOcr]

(* A mutant of buildProviderRegistry: the docx provider is left out. *)
buildProviderRegistryNoDocx(glmEnabled) ==
    <<"plain-text", "pdf-text", "tesseract">>
        \o IF glmEnabled THEN <<"glm-ocr">> ELSE <<>>

buildProviderRegistry(glmEnabled) ==
    <<"plain-text", "pdf-text", "mammoth", "tesseract">>
        \o IF glmEnabled THEN <<"glm-ocr">> ELSE <<>>

defaultProviderPolicy ==
    [image      |-> <<"glm-ocr", "tesseract">>,
     scannedPdf |-> <<"glm-ocr", "tesseract">>,
     overrides  |-> "TEXT_EXTRACTION" :> [image |-> <<"tesseract", "glm-ocr">>]]

=============================================================================
