---------------------------- MODULE MCExtraction ----------------------------
(* Two runs of five functions on an image, a PDF too long for one of them  *)
(* and a docx, with GLM-OCR on.                                            *)
EXTENDS Extraction, Catalog

CONSTANTS r1, r2

MCRuns == {r1, r2}
MCFunctions == {"TEXT_EXTRACTION", "DOCUMENT_CLASSIFICATION", "RECEIPT_PARSING",
                "RESUME_PARSING", "DOCUMENT_AUTHENTICITY"}
MCShas == {"img", "scan", "doc"}
MCGroupOf == "img" :> "image" @@ "scan" :> "pdf" @@ "doc" :> "docx"
MCPagesOf == "img" :> 1 @@ "scan" :> 6 @@ "doc" :> 9
MCRegistry == buildProviderRegistry(TRUE)
MCTenantOf == [r \in MCRuns |-> IF r = r2 THEN "t2" ELSE "t1"]
=============================================================================
