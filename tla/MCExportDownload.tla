--------------------------- MODULE MCExportDownload ---------------------------
(* Instances of ExportDownload for TLC.                                    *)
EXTENDS ExportDownload, FiniteSets, Functions

CONSTANTS e1, e3

\* Writes of the browsers and files that the present baseline missed are at most
\* four together: two files that change, or one that changes beside two that do not.
FewWrites == SumFunction(version) + Cardinality(memory.missed) <= 4
=============================================================================
