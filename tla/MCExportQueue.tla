---------------------------- MODULE MCExportQueue ----------------------------
(* Instances of ExportQueue for TLC.                                       *)
EXTENDS ExportQueue

CONSTANTS w1, w2, w3

NobodyAdopts == [w \in Workers |-> NoEntry]
W1Adopts2    == [w \in Workers |-> IF w = w1 THEN 2 ELSE NoEntry]

OneLimit  == {2}
TwoLimits == {1, 2}
First     == {1}
None      == {}
=============================================================================
