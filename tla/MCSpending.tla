----------------------------- MODULE MCSpending -----------------------------
(* The runs of MCExtraction, of functions that ask the language model and  *)
(* of two that do not.                                                     *)
EXTENDS MCExtraction, Spending

MCLlmFunctions == MCFunctions \ {"TEXT_EXTRACTION", "DOCUMENT_AUTHENTICITY"}
=============================================================================
