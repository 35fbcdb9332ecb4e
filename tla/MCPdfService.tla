---------------------------- MODULE MCPdfService ----------------------------
(* TLC instance of PdfService: one variant, two documents.                  *)
EXTENDS PdfService
CONSTANTS d1, d2, v1, v2
MCTag == [v \in Variants |-> v1]
=============================================================================
