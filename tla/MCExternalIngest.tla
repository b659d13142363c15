--------------------------- MODULE MCExternalIngest ---------------------------
(***************************************************************************)
(* The instance of ExternalIngest that TLC checks.                         *)
(***************************************************************************)
EXTENDS ExternalIngest

\* Limits that refuse a long listing and a large selection, and enough of both.
MCLimits == {[pages |-> 2, instances |-> 1], [pages |-> 3, instances |-> 3]}
=============================================================================
